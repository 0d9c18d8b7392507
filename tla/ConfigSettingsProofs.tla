------------------------- MODULE ConfigSettingsProofs -------------------------
(***************************************************************************)
(* Proofs that every Config holds what its file says, for every set of     *)
(* words and every file: each setting is the one of the last line that     *)
(* gives it in the block it belongs to.                                    *)
(***************************************************************************)
EXTENDS ConfigFileProofs

------------------------------------------------------------------------------
(* What a setting of a server changes, if it succeeds, and a setting of the last location. *)

SizeOf(value) == Number[value[1]] * (IF Last(value) \in Megas THEN Kilo * Kilo ELSE Kilo)

WithPage(pages, value) ==
  [code \in DOMAIN pages \cup {Number[value[1]]} |->
     IF code = Number[value[1]] THEN PageOf(value) ELSE pages[code]]

ServerSets(c, d, key, value) ==
  /\ d.mainRoot = IF key = "root" THEN value ELSE c.mainRoot
  /\ d.uploadPath = IF key = "upload_path" THEN value ELSE c.uploadPath
  /\ d.serverNames = IF key = "server_name" THEN value ELSE c.serverNames
  /\ d.index = IF key = "index" THEN ToSet(value) ELSE c.index
  /\ d.locations = IF key = "location" THEN Append(c.locations, NewLocation(value))
                   ELSE c.locations
  /\ IF key = "allowed_methods" THEN ToSet(d.allowedMethods) = ToSet(value)
     ELSE d.allowedMethods = c.allowedMethods
  /\ IF key = "error_page"
     THEN Number[value[1]] \in Errors /\ d.errorPages = WithPage(c.errorPages, value)
     ELSE d.errorPages = c.errorPages
  /\ key # "port" => d.port = c.port
  /\ key = "port" => IF value = <<>> THEN d.port \in Garbage ELSE d.port = Number[value[1]]
  /\ key # "client_max_body_size" => d.clientBodySize = c.clientBodySize
  /\ key = "client_max_body_size" /\ SizeOf(value) \in Sizes =>
       d.clientBodySize = SizeOf(value)

(* What a setting makes of the location, given the methods of the server. *)
LocationSet(old, new, key, value, methods) ==
  /\ new.location = old.location
  /\ new.root = IF key = "root" THEN value ELSE old.root
  /\ new.directory_listing = IF key = "directory_listing" THEN value ELSE old.directory_listing
  /\ new.response_is_dir = IF key = "response_is_dir" THEN value ELSE old.response_is_dir
  /\ new.http_redirection.code =
       IF key = "http_redirection" /\ value # <<>> THEN Number[value[1]]
       ELSE old.http_redirection.code
  /\ new.http_redirection.target =
       IF key = "http_redirection" /\ value # <<>> /\ Rest(value) # <<>> THEN Rest(value)[1]
       ELSE old.http_redirection.target
  /\ new.cgi_pass = IF key = "cgi_pass" THEN old.cgi_pass \cup ToSet(value) ELSE old.cgi_pass
  /\ new.required_cookie =
       IF key = "required_cookie"
       THEN old.required_cookie \cup IF value = <<>> THEN {""} ELSE ToSet(value)
       ELSE old.required_cookie
  /\ ToSet(new.set_cookie) =
       IF key = "set_cookie" THEN ToSet(old.set_cookie) \cup {CookieOf(value)}
       ELSE ToSet(old.set_cookie)
  /\ IF key = "http_methods"
     THEN ToSet(new.http_methods) = ToSet(value) /\ ToSet(value) \subseteq methods
     ELSE new.http_methods = old.http_methods

(* All fields but one are the same. *)
Same(c, d, but) ==
  /\ but # "port" => d.port = c.port
  /\ but # "serverNames" => d.serverNames = c.serverNames
  /\ but # "errorPages" => d.errorPages = c.errorPages
  /\ but # "clientBodySize" => d.clientBodySize = c.clientBodySize
  /\ but # "locations" => d.locations = c.locations
  /\ but # "mainRoot" => d.mainRoot = c.mainRoot
  /\ but # "index" => d.index = c.index
  /\ but # "allowedMethods" => d.allowedMethods = c.allowedMethods
  /\ but # "uploadPath" => d.uploadPath = c.uploadPath

LocationSets(c, d, key, value) ==
  /\ Same(c, d, "locations") /\ Len(d.locations) = Len(c.locations)
  /\ \A n \in 1..Len(c.locations) :
       IF n = Len(c.locations)
       THEN LocationSet(c.locations[n], d.locations[n], key, value, ToSet(c.allowedMethods))
       ELSE d.locations[n] = c.locations[n]

LEMMA DistinctWords ==
  ASSUME NEW S, NEW words \in Seq(S) PROVE ToSet(Distinct(words)) = ToSet(words)
<1>. DEFINE n == Len(words)
            E(seen, w) == IF Contains(seen, w) THEN seen ELSE Append(seen, w)
            iter == CHOOSE iter : iter = [t \in SUBSET DOMAIN words |->
                      IF t = {} THEN <<>> ELSE E(iter[t \ {Max(t)}], words[Max(t)])]
            k == [i \in 1..n |-> [seen \in Seq(S) |-> E(seen, words[i])]]
<1>1. Distinct(words) = iter[DOMAIN words]
  BY DEF Distinct, FoldLeft, MapThenFoldSet
<1>2. n \in Nat /\ DOMAIN words = 1..n /\ \A i \in 1..n : words[i] \in S
  OBVIOUS
<1>3. <<>> \in Seq(S) /\ \A seen \in Seq(S) : \A w \in S : E(seen, w) \in Seq(S)
  OBVIOUS
<1>0. ASSUME NEW seen \in Seq(S), NEW w \in S
      PROVE  ToSet(E(seen, w)) = ToSet(seen) \cup {w}
  <2>1. CASE Contains(seen, w)
    BY <2>1 DEF Contains, ToSet
  <2>2. CASE ~Contains(seen, w)
    <3>1. E(seen, w) = Append(seen, w)
      BY <2>2
    <3>2. \A i \in 1..Len(seen) : Append(seen, w)[i] = seen[i]
      OBVIOUS
    <3>3. Len(Append(seen, w)) = Len(seen) + 1 /\ Append(seen, w)[Len(seen) + 1] = w
          /\ Len(seen) \in Nat
      OBVIOUS
    <3>4. DOMAIN Append(seen, w) = 1..(Len(seen) + 1) /\ DOMAIN seen = 1..Len(seen)
      OBVIOUS
    <3>. HIDE DEF E
    <3>. QED BY <3>1, <3>2, <3>3, <3>4 DEF ToSet
  <2>. QED BY <2>1, <2>2
<1>. HIDE DEF E
<1>4. \A i \in 1..n : \A seen \in Seq(S) : k[i][seen] = E(seen, words[i])
  OBVIOUS
<1>. HIDE DEF k, n
<1>5. CanFold(n, Seq(S), <<>>, k)
  BY <1>2, <1>3, <1>4 DEF CanFold
<1>6. \A t \in SUBSET (1..n) : t # {} => Max(t) \in 1..n
  BY <1>2, MaxFacts
<1>7. PICK f : IsFold(f, n, Seq(S), <<>>, k)
  BY <1>5, FoldExists
<1>8. \A t \in SUBSET (1..n) :
        f[t] = IF t = {} THEN <<>> ELSE E(f[t \ {Max(t)}], words[Max(t)])
  BY <1>4, <1>6, <1>7 DEF IsFold
<1>9. f = [t \in SUBSET DOMAIN words |->
             IF t = {} THEN <<>> ELSE E(f[t \ {Max(t)}], words[Max(t)])]
  BY <1>2, <1>7, <1>8 DEF IsFold
<1>10. iter = [t \in SUBSET DOMAIN words |->
                 IF t = {} THEN <<>> ELSE E(iter[t \ {Max(t)}], words[Max(t)])]
  BY <1>9
<1>. HIDE DEF iter
<1>11. ObeysFold(iter, n, Seq(S), <<>>, k)
  BY <1>2, <1>4, <1>6, <1>10 DEF ObeysFold
<1>12. PICK acc \in [0..n -> Seq(S)] :
         /\ acc[0] = <<>> /\ \A i \in 1..n : acc[i] = k[i][acc[i - 1]]
         /\ acc[n] = iter[1..n]
  BY <1>5, <1>11, FoldResult
<1>. DEFINE P == [i \in 0..n |-> {s \in Seq(S) : ToSet(s) = {words[j] : j \in 1..i}}]
<1>13. acc[0] \in P[0]
  <2>1. ToSet(<<>>) = {} /\ 0 \in 0..n
    BY <1>2 DEF ToSet
  <2>. QED BY <1>3, <1>12, <2>1
<1>14. ASSUME NEW i \in 1..n, acc[i - 1] \in P[i - 1] PROVE acc[i] \in P[i]
  <2>1. i - 1 \in 0..n /\ i \in 0..n /\ acc[i - 1] \in Seq(S)
    BY <1>2
  <2>2. acc[i] = E(acc[i - 1], words[i]) /\ words[i] \in S
    BY <1>2, <1>4, <1>12, <2>1
  <2>3. ToSet(acc[i]) = ToSet(acc[i - 1]) \cup {words[i]}
    BY <1>0, <2>1, <2>2
  <2>4. ToSet(acc[i - 1]) = {words[j] : j \in 1..(i - 1)}
    BY <1>14, <2>1
  <2>5. 1..i = 1..(i - 1) \cup {i}
    OBVIOUS
  <2>6. ToSet(acc[i]) = {words[j] : j \in 1..i}
    BY <2>3, <2>4, <2>5
  <2>. QED BY <1>12, <2>1, <2>6
<1>15. \A i \in 0..n : P[i] = {s \in Seq(S) : ToSet(s) = {words[j] : j \in 1..i}}
  OBVIOUS
<1>. HIDE DEF P
<1>16. acc[n] \in P[n]
  <2>1. \A i \in 0..n : acc[i] \in P[i]
    BY <1>2, <1>13, <1>14, StepByStep
  <2>. QED BY <1>2, <2>1
<1>17. n \in 0..n
  BY <1>2
<1>18. ToSet(iter[1..n]) = {words[j] : j \in 1..n}
  BY <1>12, <1>15, <1>16, <1>17
<1>. QED BY <1>1, <1>2, <1>18 DEF ToSet

LEMMA AppendSet ==
  ASSUME NEW S, NEW s \in Seq(S), NEW x PROVE ToSet(Append(s, x)) = ToSet(s) \cup {x}
<1>. DEFINE T == S \cup {x}
            n == Len(s)
<1>1. s \in Seq(T) /\ x \in T
  OBVIOUS
<1>. HIDE DEF T
<1>2. /\ n \in Nat /\ DOMAIN s = 1..n /\ DOMAIN Append(s, x) = 1..(n + 1)
      /\ Append(s, x)[n + 1] = x /\ \A i \in 1..n : Append(s, x)[i] = s[i]
  BY <1>1
<1>. HIDE DEF n
<1>3. n + 1 \in 1..(n + 1) /\ \A i : i \in 1..(n + 1) <=> i \in 1..n \/ i = n + 1
  BY <1>2
<1>. QED BY <1>2, <1>3 DEF ToSet

------------------------------------------------------------------------------
(* The settings of a server. *)

LEMMA OneField ==
  ASSUME NEW c \in Configs, NEW x, NEW d
  PROVE  /\ d = [c EXCEPT !.port = x] => Same(c, d, "port") /\ d.port = x
         /\ d = [c EXCEPT !.serverNames = x] => Same(c, d, "serverNames") /\ d.serverNames = x
         /\ d = [c EXCEPT !.errorPages = x] => Same(c, d, "errorPages") /\ d.errorPages = x
         /\ d = [c EXCEPT !.clientBodySize = x] =>
              Same(c, d, "clientBodySize") /\ d.clientBodySize = x
         /\ d = [c EXCEPT !.locations = x] => Same(c, d, "locations") /\ d.locations = x
         /\ d = [c EXCEPT !.mainRoot = x] => Same(c, d, "mainRoot") /\ d.mainRoot = x
         /\ d = [c EXCEPT !.index = x] => Same(c, d, "index") /\ d.index = x
         /\ d = [c EXCEPT !.allowedMethods = x] =>
              Same(c, d, "allowedMethods") /\ d.allowedMethods = x
         /\ d = [c EXCEPT !.uploadPath = x] => Same(c, d, "uploadPath") /\ d.uploadPath = x
BY DEF Configs, Same

LEMMA NoneSucceeds == ASSUME NEW d, NEW o \in Failed(d) PROVE o.end # "ok"
BY EndFields DEF Failed

LEMMA OneSucceeds == ASSUME NEW d, NEW o \in Done(d) PROVE o.end = "ok" /\ o.config = d
BY EndFields DEF Done

LEMMA PortSetting ==
  ASSUME NEW c \in Configs, NEW value \in Values, NEW o \in SetPort(c, value), o.end = "ok"
  PROVE  ServerSets(c, o.config, "port", value)
<1>. DEFINE read == CASE value = <<>>     -> Garbage
                      [] HasNumber(value) -> {Number[value[1]]}
                      [] OTHER            -> {0}
<1>1. PICK port \in read :
        o \in IF port \in Ports /\ (value = <<>> \/ Rest(value) = <<>>)
              THEN Done([c EXCEPT !.port = port]) ELSE Failed(c)
  BY Zenon DEF SetPort
<1>. HIDE DEF read
<1>2. port \in Ports /\ o \in Done([c EXCEPT !.port = port])
  BY <1>1, NoneSucceeds
<1>3. IF value = <<>> THEN port \in Garbage ELSE port = Number[value[1]]
  <2>1. 0 \notin Ports
    BY DEF Ports
  <2>2. CASE value = <<>>
    BY <2>2 DEF read, HasNumber
  <2>3. CASE value # <<>>
    <3>1. port \in IF HasNumber(value) THEN {Number[value[1]]} ELSE {0}
      BY <1>1, <2>3 DEF read
    <3>. QED BY <1>2, <2>1, <2>3, <3>1
  <2>. QED BY <2>2, <2>3
<1>4. o.config = [c EXCEPT !.port = port]
  BY <1>2, OneSucceeds
<1>5. Same(c, o.config, "port") /\ o.config.port = port
  BY <1>4, OneField
<1>. QED BY <1>3, <1>5 DEF ServerSets, Same

(* A product that fits is made of factors that do. *)
LEMMA Product ==
  ASSUME NEW n \in Int, NEW u \in Nat \ {0}, n * u \in Sizes
  PROVE  AsSize(n) = n /\ (n * u) % Modulus = n * u
<1>1. n * u \in Nat /\ n * u < Modulus /\ Modulus \in Nat \ {0}
  BY WidthAssumption DEF Sizes
<1>2. n >= 0
  <2>1. ASSUME n < 0 PROVE FALSE
    <3>1. n * u < 0
      BY <2>1
    <3>. QED BY <1>1, <3>1
  <2>. QED BY <2>1
<1>3. n <= n * u
  BY <1>2
<1>4. n % Modulus = n /\ (n * u) % Modulus = n * u
  BY <1>1, <1>2, <1>3
<1>5. n \in (1 - Modulus)..(Modulus - 1)
  BY <1>1, <1>2, <1>3
<1>. QED BY <1>4, <1>5 DEF AsSize

LEMMA SizeSetting ==
  ASSUME NEW c \in Configs, NEW value \in Values,
         NEW o \in SetClientBodySize(c, value), o.end = "ok"
  PROVE  ServerSets(c, o.config, "client_max_body_size", value)
<1>. DEFINE size == IF HasNumber(value) THEN AsSize(Number[value[1]]) ELSE 0
            stored == IF value = <<>> THEN c ELSE [c EXCEPT !.clientBodySize = size]
            times(n) == Done([c EXCEPT !.clientBodySize = (size * n) % Modulus])
            unit == IF Last(value) \in Megas THEN Kilo * Kilo ELSE Kilo
<1>1. \/ SetClientBodySize(c, value) = Failed(stored)
      \/ size # 0 /\ SetClientBodySize(c, value) = times(unit)
  <2>. HIDE DEF size, stored, times
  <2>1. SetClientBodySize(c, value) =
          CASE size = 0 -> Failed(stored)
            [] size # 0 /\ Last(value) \in Megas -> times(Kilo * Kilo)
            [] size # 0 /\ Last(value) \in Kilos -> times(Kilo)
            [] OTHER -> Failed(stored)
    BY Zenon DEF SetClientBodySize, size, stored, times
  <2>2. Last(value) \in Kilos => Last(value) \notin Megas
    BY WordsAssumption
  <2>. HIDE DEF unit
  <2>3. CASE size = 0
    BY <2>1, <2>3
  <2>4. CASE size # 0 /\ Last(value) \in Megas
    <3>1. unit = Kilo * Kilo
      BY <2>4 DEF unit
    <3>. QED BY <2>1, <2>2, <2>4, <3>1
  <2>5. CASE size # 0 /\ Last(value) \notin Megas
    <3>1. unit = Kilo
      BY <2>5 DEF unit
    <3>. QED BY <2>1, <2>5, <3>1
  <2>. QED BY <2>3, <2>4, <2>5
<1>2. size # 0 /\ o \in times(unit)
  <2>. HIDE DEF size, stored, times, unit
  <2>. QED BY <1>1, NoneSucceeds
<1>3. unit \in Nat \ {0}
  BY WidthAssumption
<1>4. HasNumber(value) /\ Number[value[1]] \in Int /\ size = AsSize(Number[value[1]])
  BY <1>2, NumberFacts
<1>. DEFINE n == Number[value[1]]
<1>5. SizeOf(value) = n * unit
  BY DEF SizeOf
<1>6. SizeOf(value) \in Sizes => (size * unit) % Modulus = SizeOf(value)
  <2>. HIDE DEF unit, n
  <2>1. SUFFICES ASSUME n * unit \in Sizes PROVE (size * unit) % Modulus = n * unit
    BY <1>5
  <2>. QED BY <1>3, <1>4, <1>5, <2>1, Product DEF n
<1>. DEFINE x == (size * unit) % Modulus
<1>7. o \in Done([c EXCEPT !.clientBodySize = x])
  BY <1>2
<1>. HIDE DEF x
<1>8. o.config = [c EXCEPT !.clientBodySize = x]
  BY <1>7, OneSucceeds
<1>9. Same(c, o.config, "clientBodySize") /\ o.config.clientBodySize = x
  BY <1>8, OneField
<1>10. SizeOf(value) \in Sizes => x = SizeOf(value)
  BY <1>6 DEF x
<1>. QED BY <1>9, <1>10 DEF ServerSets, Same

LEMMA ServerSetting ==
  ASSUME NEW c \in Configs, NEW key, NEW value \in Values,
         NEW o \in AddToServer(c, key, value), o.end = "ok"
  PROVE  ServerSets(c, o.config, key, value)
<1>0. o \notin Failed(c)
  BY NoneSucceeds
<1>1. CASE key = "port"
  <2>1. AddToServer(c, key, value) = SetPort(c, value)
    BY <1>1 DEF AddToServer
  <2>. QED BY <1>1, <2>1, PortSetting
<1>2. CASE key = "server_name"
  <2>1. o \in SetServerName(c, value)
    BY <1>2 DEF AddToServer
  <2>2. o \in Done([c EXCEPT !.serverNames = value])
    BY <1>0, <2>1, Zenon DEF SetServerName
  <2>3. o.config = [c EXCEPT !.serverNames = value]
    BY <2>2, OneSucceeds
  <2>4. Same(c, o.config, "serverNames") /\ o.config.serverNames = value
    BY <2>3, OneField
  <2>. QED BY <1>2, <2>4 DEF ServerSets, Same
<1>3. CASE key = "error_page"
  <2>. DEFINE x == WithPage(c.errorPages, value)
              ok == HasNumber(value) /\ Len(Rest(value)) <= 1 /\ Number[value[1]] \in 400..599
  <2>1. o \in SetErrorPage(c, value)
    BY <1>3 DEF AddToServer
  <2>2. SetErrorPage(c, value) = IF ok THEN Done([c EXCEPT !.errorPages = x]) ELSE Failed(c)
    BY Zenon DEF SetErrorPage, WithPage
  <2>. HIDE DEF ok, x
  <2>3. ok /\ o \in Done([c EXCEPT !.errorPages = x])
    BY <1>0, <2>1, <2>2, Zenon
  <2>4. o.config = [c EXCEPT !.errorPages = x]
    BY <2>3, OneSucceeds
  <2>5. Same(c, o.config, "errorPages") /\ o.config.errorPages = x
    BY <2>4, OneField
  <2>6. Number[value[1]] \in Errors
    BY <2>3 DEF ok, Errors
  <2>. QED BY <1>3, <2>5, <2>6 DEF ServerSets, Same, x
<1>4. CASE key = "client_max_body_size"
  <2>1. AddToServer(c, key, value) = SetClientBodySize(c, value)
    BY <1>4 DEF AddToServer
  <2>. QED BY <1>4, <2>1, SizeSetting
<1>5. CASE key = "root"
  <2>1. o \in Done([c EXCEPT !.mainRoot = value])
    BY <1>5 DEF AddToServer
  <2>2. o.config = [c EXCEPT !.mainRoot = value]
    BY <2>1, OneSucceeds
  <2>3. Same(c, o.config, "mainRoot") /\ o.config.mainRoot = value
    BY <2>2, OneField
  <2>. QED BY <1>5, <2>3 DEF ServerSets, Same
<1>6. CASE key = "index"
  <2>1. o \in Done([c EXCEPT !.index = ToSet(value)])
    BY <1>6 DEF AddToServer
  <2>2. o.config = [c EXCEPT !.index = ToSet(value)]
    BY <2>1, OneSucceeds
  <2>3. Same(c, o.config, "index") /\ o.config.index = ToSet(value)
    BY <2>2, OneField
  <2>. QED BY <1>6, <2>3 DEF ServerSets, Same
<1>7. CASE key = "upload_path"
  <2>1. o \in Done([c EXCEPT !.uploadPath = value])
    BY <1>7 DEF AddToServer
  <2>2. o.config = [c EXCEPT !.uploadPath = value]
    BY <2>1, OneSucceeds
  <2>3. Same(c, o.config, "uploadPath") /\ o.config.uploadPath = value
    BY <2>2, OneField
  <2>. QED BY <1>7, <2>3 DEF ServerSets, Same
<1>8. CASE key = "allowed_methods"
  <2>. DEFINE x == Distinct(value)
  <2>1. o \in SetAllowedMethods(c, value)
    BY <1>8 DEF AddToServer
  <2>2. o \in Done([c EXCEPT !.allowedMethods = x])
    BY <1>0, <2>1, Zenon DEF SetAllowedMethods
  <2>3. ToSet(x) = ToSet(value)
    BY DistinctWords DEF Values
  <2>. HIDE DEF x
  <2>4. o.config = [c EXCEPT !.allowedMethods = x]
    BY <2>2, OneSucceeds
  <2>5. Same(c, o.config, "allowedMethods") /\ o.config.allowedMethods = x
    BY <2>4, OneField
  <2>. QED BY <1>8, <2>3, <2>5 DEF ServerSets, Same
<1>9. CASE key = "location"
  <2>. DEFINE x == Append(c.locations, NewLocation(value))
  <2>1. o \in Done([c EXCEPT !.locations = x])
    BY <1>9 DEF AddToServer
  <2>. HIDE DEF x
  <2>2. o.config = [c EXCEPT !.locations = x]
    BY <2>1, OneSucceeds
  <2>3. Same(c, o.config, "locations") /\ o.config.locations = x
    BY <2>2, OneField
  <2>. QED BY <1>9, <2>3 DEF ServerSets, Same, x
<1>10. CASE key \notin {"port", "server_name", "error_page", "client_max_body_size", "root",
                       "index", "upload_path", "allowed_methods", "location"}
  <2>1. o \in Failed(c)
    BY <1>10 DEF AddToServer
  <2>. QED BY <1>0, <2>1
<1>. QED BY <1>1, <1>2, <1>3, <1>4, <1>5, <1>6, <1>7, <1>8, <1>9, <1>10

------------------------------------------------------------------------------
(* The settings of the last location. *)

LEMMA WithLocationFacts ==
  ASSUME NEW c \in Configs, NEW l, NEW o \in WithLocation(c, l), c.locations # <<>>
  PROVE  /\ o.end = "ok" /\ Same(c, o.config, "locations")
         /\ Len(o.config.locations) = Len(c.locations)
         /\ \A n \in 1..Len(c.locations) :
              o.config.locations[n] = IF n = Len(c.locations) THEN l ELSE c.locations[n]
<1>. DEFINE S == LocationRecords \cup {l}
            front == Front(c.locations)
            ls == front \o <<l>>
            n == Len(c.locations)
<1>1. c.locations \in Seq(LocationRecords)
  BY ConfigFields DEF LocationLists
<1>2. n \in Nat \ {0}
  BY <1>1
<1>3. front \in Seq(S) /\ Len(front) = n - 1 /\ \A k \in 1..(n - 1) : front[k] = c.locations[k]
  <2>1. front = SubSeq(c.locations, 1, n - 1)
    BY DEF Front
  <2>2. c.locations \in Seq(S)
    BY <1>1
  <2>. HIDE DEF S
  <2>. QED BY <1>2, <2>1, <2>2
<1>4. l \in S
  OBVIOUS
<1>. HIDE DEF S, front
<1>5. /\ Len(ls) = n /\ ls[n] = l
      /\ \A k \in 1..(n - 1) : ls[k] = front[k]
  BY <1>2, <1>3, <1>4
<1>6. o \in Done([c EXCEPT !.locations = ls])
  BY DEF WithLocation, front
<1>. HIDE DEF ls
<1>7. o.end = "ok" /\ o.config = [c EXCEPT !.locations = ls]
  BY <1>6, OneSucceeds
<1>8. Same(c, o.config, "locations") /\ o.config.locations = ls
  <2>. DEFINE d == o.config
  <2>1. d = [c EXCEPT !.locations = ls]
    BY <1>7
  <2>. HIDE DEF d
  <2>2. Same(c, d, "locations") /\ d.locations = ls
    BY <2>1 DEF Configs, Same
  <2>. QED BY <2>2 DEF d
<1>9. \A k \in 1..n : k = n \/ k \in 1..(n - 1)
  BY <1>2
<1>. QED BY <1>3, <1>5, <1>7, <1>8, <1>9

LEMMA LastSetting ==
  ASSUME NEW c \in Configs, NEW l, NEW key, NEW value, NEW o \in WithLocation(c, l),
         c.locations # <<>>,
         LocationSet(Last(c.locations), l, key, value, ToSet(c.allowedMethods))
  PROVE  o.end = "ok" /\ LocationSets(c, o.config, key, value)
<1>1. Last(c.locations) = c.locations[Len(c.locations)]
  BY DEF Last
<1>. QED BY <1>1, WithLocationFacts DEF LocationSets

LEMMA CheckedSetting ==
  ASSUME NEW c \in Configs, NEW l, NEW o \in Checked(c, l) \cup Unchecked(c, l), o.end = "ok"
  PROVE  c.locations # <<>> /\ o \in WithLocation(c, l)
<1>1. \A r \in Ends("crashed", c) : r.end # "ok"
  BY EndFields
<1>2. \A r \in Failed(c) : r.end # "ok"
  BY NoneSucceeds
<1>3. c.locations = <<>> => Checked(c, l) = Failed(c) /\ Unchecked(c, l) = Ends("crashed", c)
  BY Zenon DEF Checked, Unchecked
<1>4. c.locations # <<>> => /\ Checked(c, l) = WithLocation(c, l)
                            /\ Unchecked(c, l) = WithLocation(c, l)
  BY Zenon DEF Checked, Unchecked
<1>. QED BY <1>1, <1>2, <1>3, <1>4

LEMMA OneOfLocation ==
  ASSUME NEW l \in LocationRecords, NEW value, NEW methods
  PROVE  /\ LocationSet(l, [l EXCEPT !.root = value], "root", value, methods)
         /\ LocationSet(l, [l EXCEPT !.directory_listing = value],
                        "directory_listing", value, methods)
         /\ LocationSet(l, [l EXCEPT !.response_is_dir = value], "response_is_dir", value, methods)
         /\ LocationSet(l, [l EXCEPT !.cgi_pass = l.cgi_pass \cup ToSet(value)],
                        "cgi_pass", value, methods)
         /\ LET x == l.required_cookie \cup IF value = <<>> THEN {""} ELSE ToSet(value)
            IN LocationSet(l, [l EXCEPT !.required_cookie = x], "required_cookie", value, methods)
         /\ \A x : ToSet(x) = ToSet(l.set_cookie) \cup {CookieOf(value)} =>
              LocationSet(l, [l EXCEPT !.set_cookie = x], "set_cookie", value, methods)
         /\ \A x : ToSet(x) = ToSet(value) /\ ToSet(value) \subseteq methods =>
              LocationSet(l, [l EXCEPT !.http_methods = x], "http_methods", value, methods)
<1>. DEFINE y == l.cgi_pass \cup ToSet(value)
            z == l.required_cookie \cup IF value = <<>> THEN {""} ELSE ToSet(value)
<1>1. LocationSet(l, [l EXCEPT !.root = value], "root", value, methods)
  BY DEF LocationRecords, LocationSet
<1>2. LocationSet(l, [l EXCEPT !.directory_listing = value], "directory_listing", value, methods)
  BY DEF LocationRecords, LocationSet
<1>3. LocationSet(l, [l EXCEPT !.response_is_dir = value], "response_is_dir", value, methods)
  BY DEF LocationRecords, LocationSet
<1>4. LocationSet(l, [l EXCEPT !.cgi_pass = y], "cgi_pass", value, methods)
  BY DEF LocationRecords, LocationSet
<1>5. LocationSet(l, [l EXCEPT !.required_cookie = z], "required_cookie", value, methods)
  BY DEF LocationRecords, LocationSet
<1>6. ASSUME NEW x, ToSet(x) = ToSet(l.set_cookie) \cup {CookieOf(value)}
      PROVE  LocationSet(l, [l EXCEPT !.set_cookie = x], "set_cookie", value, methods)
  BY <1>6 DEF LocationRecords, LocationSet
<1>7. ASSUME NEW x, ToSet(x) = ToSet(value), ToSet(value) \subseteq methods
      PROVE  LocationSet(l, [l EXCEPT !.http_methods = x], "http_methods", value, methods)
  BY <1>7 DEF LocationRecords, LocationSet
<1>. QED BY <1>1, <1>2, <1>3, <1>4, <1>5, <1>6, <1>7

(* The redirection is set to x. *)
LEMMA NewRedirection ==
  ASSUME NEW l \in LocationRecords, NEW value, NEW methods, NEW x,
         x.code = IF value # <<>> THEN Number[value[1]] ELSE l.http_redirection.code,
         x.target = IF value # <<>> /\ Rest(value) # <<>> THEN Rest(value)[1]
                    ELSE l.http_redirection.target
  PROVE  LocationSet(l, [l EXCEPT !.http_redirection = x], "http_redirection", value, methods)
BY DEF LocationRecords, LocationSet

LEMMA LocationSetting ==
  ASSUME NEW c \in Configs, NEW key, NEW value \in Values,
         NEW o \in AddToLocation(c, key, value), o.end = "ok"
  PROVE  LocationSets(c, o.config, key, value)
<1>. DEFINE l == IF c.locations = <<>> THEN NewLocation(<<>>) ELSE Last(c.locations)
            words == ToSet(value)
            methods == ToSet(c.allowedMethods)
            sets(new) == LocationSet(l, new, key, value, methods)
<1>0. o \notin Failed(c)
  BY NoneSucceeds
<1>1. l \in LocationRecords
  <2>1. c.locations \in Seq(LocationRecords)
    BY ConfigFields DEF LocationLists
  <2>2. <<>> \in Values
    BY DEF Values
  <2>3. c.locations # <<>> => Last(c.locations) \in LocationRecords
    BY <2>1 DEF Last
  <2>. QED BY <2>2, <2>3, NewLocationType
<1>2. ASSUME NEW new, sets(new), NEW r \in WithLocation(c, new), c.locations # <<>>
      PROVE  LocationSets(c, r.config, key, value)
  BY <1>2, LastSetting
<1>3. ASSUME NEW new, sets(new), o \in Checked(c, new) \cup Unchecked(c, new)
      PROVE  LocationSets(c, o.config, key, value)
  <2>1. c.locations # <<>> /\ o \in WithLocation(c, new)
    BY <1>3, CheckedSetting
  <2>. HIDE DEF sets
  <2>. QED BY <1>2, <1>3, <2>1
<1>4. CASE key = "http_methods"
  <2>. DEFINE d == Distinct(value)
              kept == [l EXCEPT !.http_methods = d]
              none == [l EXCEPT !.http_methods = <<>>]
              failed(r) == [r EXCEPT !.end = IF @ = "ok" THEN "failed" ELSE @]
  <2>1. o \in SetHttpMethods(c, l, value)
    BY <1>4 DEF AddToLocation
  <2>2. ASSUME NEW r \in Unchecked(c, none) PROVE failed(r).end # "ok"
    <3>. HIDE DEF none
    <3>1. PICK end, d1 : r = [end |-> end, config |-> d1]
      <4>1. CASE c.locations = <<>>
        BY <2>2, <4>1 DEF Unchecked, Ends
      <4>2. CASE c.locations # <<>>
        BY <2>2, <4>2 DEF Unchecked, WithLocation, Done, Ends
      <4>. QED BY <4>1, <4>2
    <3>2. failed(r).end = IF end = "ok" THEN "failed" ELSE end
      BY <3>1
    <3>. HIDE DEF failed
    <3>. QED BY <3>2
  <2>3. SetHttpMethods(c, l, value) =
          IF value = <<>> THEN Failed(c)
          ELSE IF words \subseteq Methods \cap methods THEN Unchecked(c, kept)
          ELSE {failed(r) : r \in Unchecked(c, none)}
    BY Zenon DEF SetHttpMethods
  <2>4. ToSet(d) = words
    BY DistinctWords DEF Values
  <2>. HIDE DEF l, words, methods, d, kept, none, failed
  <2>5. words \subseteq Methods \cap methods /\ o \in Unchecked(c, kept)
    BY <1>0, <2>1, <2>2, <2>3, Zenon
  <2>6. sets(kept)
    <3>1. words \subseteq methods
      BY <2>5
    <3>. QED BY <1>1, <1>4, <2>4, <3>1, OneOfLocation DEF kept, words
  <2>. QED BY <1>3, <2>5, <2>6
<1>5. CASE key = "http_redirection"
  <2>. DEFINE old == l.http_redirection
              code == CASE value = <<>>     -> old.code
                        [] HasNumber(value) -> Number[value[1]]
                        [] OTHER            -> 0
              target == IF code \in 300..399 /\ HasNumber(value) /\ Rest(value) # <<>>
                        THEN Rest(value)[1] ELSE old.target
              end == IF code \in 300..399 THEN "ok" ELSE "failed"
              x == [code |-> code, target |-> target]
              new == [l EXCEPT !.http_redirection = x]
              ended(r) == [r EXCEPT !.end = end]
  <2>1. o \in SetHttpRedirection(c, l, value)
    BY <1>5 DEF AddToLocation
  <2>2. SetHttpRedirection(c, l, value) =
          IF c.locations = <<>> THEN Failed(c) ELSE {ended(r) : r \in WithLocation(c, new)}
    BY Zenon DEF SetHttpRedirection
  <2>3. ASSUME end = "ok" PROVE sets(new)
    <3>1. code \in 300..399 /\ (value # <<>> => HasNumber(value) /\ code = Number[value[1]])
      <4>1. code \in 300..399 /\ 0 \notin 300..399
        BY <2>3
      <4>. QED BY <4>1
    <3>2. value = <<>> => code = old.code /\ ~HasNumber(value)
      BY DEF HasNumber
    <3>. HIDE DEF code
    <3>3. x.code = IF value # <<>> THEN Number[value[1]] ELSE old.code
      BY <3>1, <3>2
    <3>4. x.target = IF value # <<>> /\ Rest(value) # <<>> THEN Rest(value)[1] ELSE old.target
      BY <3>1, <3>2
    <3>. HIDE DEF x, l
    <3>. QED BY <1>1, <1>5, <3>3, <3>4, NewRedirection
  <2>. HIDE DEF x, end, l
  <2>. HIDE DEF new, ended, sets
  <2>4. c.locations # <<>> /\ \E r \in WithLocation(c, new) : o = ended(r)
    BY <1>0, <2>1, <2>2, Zenon
  <2>5. PICK r \in WithLocation(c, new) : o = ended(r)
    BY <2>4
  <2>6. o.config = r.config /\ o.end = end
    <3>1. PICK d : r = [end |-> "ok", config |-> d]
      BY DEF WithLocation, Done, Ends
    <3>. QED BY <2>5, <3>1 DEF ended
  <2>. QED BY <1>2, <2>3, <2>4, <2>5, <2>6
<1>6. CASE key = "root"
  <2>1. o \in Checked(c, [l EXCEPT !.root = value])
    BY <1>6 DEF AddToLocation
  <2>. HIDE DEF l, words, methods
  <2>2. sets([l EXCEPT !.root = value])
    BY <1>1, <1>6, OneOfLocation
  <2>. HIDE DEF sets
  <2>. QED BY <1>3, <2>1, <2>2
<1>7. CASE key = "directory_listing"
  <2>1. o \in Checked(c, [l EXCEPT !.directory_listing = value])
    BY <1>7 DEF AddToLocation
  <2>. HIDE DEF l, words, methods
  <2>2. sets([l EXCEPT !.directory_listing = value])
    BY <1>1, <1>7, OneOfLocation
  <2>. HIDE DEF sets
  <2>. QED BY <1>3, <2>1, <2>2
<1>8. CASE key = "response_is_dir"
  <2>1. o \in Checked(c, [l EXCEPT !.response_is_dir = value])
    BY <1>8 DEF AddToLocation
  <2>. HIDE DEF l, words, methods
  <2>2. sets([l EXCEPT !.response_is_dir = value])
    BY <1>1, <1>8, OneOfLocation
  <2>. HIDE DEF sets
  <2>. QED BY <1>3, <2>1, <2>2
<1>9. CASE key = "cgi_pass"
  <2>. DEFINE x == l.cgi_pass \cup words
  <2>1. o \in IF value = <<>> THEN Done(c) ELSE Unchecked(c, [l EXCEPT !.cgi_pass = x])
    BY <1>9 DEF AddToLocation
  <2>. HIDE DEF l, words, methods, x
  <2>2. CASE value = <<>>
    <3>1. o.config = c
      BY <2>1, <2>2, OneSucceeds
    <3>2. ToSet(value) = {}
      BY <2>2 DEF ToSet
    <3>3. \A old : LocationSet(old, old, "cgi_pass", value, methods)
      BY <3>2 DEF LocationSet
    <3>. QED BY <1>9, <3>1, <3>3 DEF LocationSets, Same, methods
  <2>3. CASE value # <<>>
    <3>1. sets([l EXCEPT !.cgi_pass = x])
      BY <1>1, <1>9, OneOfLocation DEF x, words
    <3>. HIDE DEF sets
    <3>. QED BY <1>3, <2>1, <2>3, <3>1
  <2>. QED BY <2>2, <2>3
<1>10. CASE key = "required_cookie"
  <2>. DEFINE x == l.required_cookie \cup IF value = <<>> THEN {""} ELSE words
  <2>1. o \in Unchecked(c, [l EXCEPT !.required_cookie = x])
    BY <1>10 DEF AddToLocation
  <2>. HIDE DEF l, words, methods, x
  <2>2. sets([l EXCEPT !.required_cookie = x])
    BY <1>1, <1>10, OneOfLocation DEF x, words
  <2>. HIDE DEF sets
  <2>. QED BY <1>3, <2>1, <2>2
<1>11. CASE key = "set_cookie"
  <2>. DEFINE x == Append(l.set_cookie, CookieOf(value))
              new == [l EXCEPT !.set_cookie = x]
  <2>1. o \in SetSetCookie(c, l, value)
    BY <1>11 DEF AddToLocation
  <2>2. SetSetCookie(c, l, value) =
          IF ~ToSet(value) \subseteq DOMAIN Attribute \/ CookieOf(value).name = ""
          THEN Failed(c) ELSE Unchecked(c, new)
    BY Zenon DEF SetSetCookie
  <2>. HIDE DEF l, words, methods
  <2>3. ToSet(x) = ToSet(l.set_cookie) \cup {CookieOf(value)}
    BY <1>1, LocationFields, AppendSet DEF CookieLists
  <2>. HIDE DEF x
  <2>4. sets(new)
    BY <1>1, <1>11, <2>3, OneOfLocation
  <2>. HIDE DEF sets, new
  <2>. QED BY <1>0, <1>3, <2>1, <2>2, <2>4, Zenon
<1>12. CASE key \notin {"http_methods", "http_redirection", "root", "directory_listing",
                       "response_is_dir", "cgi_pass", "required_cookie", "set_cookie"}
  <2>1. o \in Failed(c)
    BY <1>12 DEF AddToLocation
  <2>. QED BY <1>0, <2>1
<1>. QED BY <1>4, <1>5, <1>6, <1>7, <1>8, <1>9, <1>10, <1>11, <1>12

------------------------------------------------------------------------------
(* The lines that become labels, and the labels they become. *)

(* A setting of server k, or of one of its locations. *)
LabelLine(k, i) ==
  /\ ServerOf(i) = k /\ Depth(i) \in {1, 2}
  /\ ~IsComment(file[i]) /\ file[i] # Open /\ file[i] # Close

LabelOf(i) == IF Depth(i) = 1 THEN file[i] ELSE InLocation(file[i])

(* Those of server k up to line n, and from there on. *)
Lines(k, n) == {i \in 1..n : LabelLine(k, i)}
LinesFrom(k, n) == {i \in (n + 1)..Len(file) : LabelLine(k, i)}

(* The labels are those of the lines I, in their order. *)
Lists(f, b, I) ==
  /\ f \in [1..Len(b) -> I]
  /\ \A p, q \in 1..Len(b) : p < q => f[p] < f[q]
  /\ \A i \in I : \E p \in 1..Len(b) : f[p] = i
  /\ \A p \in 1..Len(b) : b[p] = LabelOf(f[p])

Written(b, I) == \E f : Lists(f, b, I)

LEMMA WrittenNone == Written(<<>>, {}) /\ \A I : Written(<<>>, I) => I = {}
<1>1. [p \in 1..0 |-> 0] \in [1..0 -> {}] /\ Len(<<>>) = 0
  OBVIOUS
<1>2. Written(<<>>, {})
  BY <1>1 DEF Written, Lists
<1>3. ASSUME NEW I, Written(<<>>, I) PROVE I = {}
  BY <1>1, <1>3 DEF Written, Lists
<1>. QED BY <1>2, <1>3

LEMMA WrittenMore ==
  ASSUME NEW S, NEW b \in Seq(S), NEW I \in SUBSET Nat, Written(b, I),
         NEW i \in Nat, \A j \in I : j < i, NEW l, l = LabelOf(i)
  PROVE  Written(Append(b, l), I \cup {i})
<1>. DEFINE n == Len(b)
            c == Append(b, l)
            J == I \cup {i}
<1>1. PICK f \in [1..n -> I] :
        /\ \A p, q \in 1..n : p < q => f[p] < f[q]
        /\ \A j \in I : \E p \in 1..n : f[p] = j
        /\ \A p \in 1..n : b[p] = LabelOf(f[p])
  BY DEF Written, Lists
<1>2. n \in Nat /\ Len(c) = n + 1 /\ c[n + 1] = l /\ \A p \in 1..n : c[p] = b[p]
  <2>. DEFINE T == S \cup {l}
  <2>1. b \in Seq(T) /\ l \in T
    OBVIOUS
  <2>. HIDE DEF T
  <2>. QED BY <2>1
<1>. DEFINE g == [p \in 1..(n + 1) |-> IF p = n + 1 THEN i ELSE f[p]]
<1>. HIDE DEF n, c
<1>3. g \in [1..(n + 1) -> J] /\ g[n + 1] = i /\ \A p \in 1..n : g[p] = f[p]
  BY <1>1, <1>2
<1>. HIDE DEF g
<1>4. \A p \in 1..(n + 1) : p \in 1..n \/ p = n + 1
  BY <1>2
<1>. HIDE DEF J
<1>0. \A p, q \in 1..n : p < q => f[p] < f[q]
  BY <1>1
<1>5. ASSUME NEW p \in 1..(n + 1), NEW q \in 1..(n + 1), p < q PROVE g[p] < g[q]
  <2>1. p \in 1..n
    BY <1>2, <1>5
  <2>2. CASE q \in 1..n
    BY <1>0, <1>3, <1>5, <2>1, <2>2
  <2>3. CASE q = n + 1
    BY <1>1, <1>3, <2>1, <2>3
  <2>. QED BY <1>4, <2>2, <2>3
<1>6. ASSUME NEW j \in J PROVE \E p \in 1..(n + 1) : g[p] = j
  <2>0. j = i \/ j \in I
    BY DEF J
  <2>1. CASE j = i
    BY <1>2, <1>3, <2>1
  <2>2. CASE j \in I
    <3>1. PICK p \in 1..n : f[p] = j
      BY <1>1, <2>2
    <3>2. p \in 1..(n + 1)
      BY <1>2
    <3>. QED BY <1>3, <3>1, <3>2
  <2>. QED BY <2>0, <2>1, <2>2
<1>7. \A p \in 1..(n + 1) : c[p] = LabelOf(g[p])
  BY <1>1, <1>2, <1>3, <1>4
<1>8. Lists(g, c, J)
  BY <1>2, <1>3, <1>5, <1>6, <1>7 DEF Lists
<1>. QED BY <1>8 DEF Written, c, J

LEMMA WrittenFirst ==
  ASSUME NEW b \in Seq(Label), b # <<>>, NEW I \in SUBSET Nat, Written(b, I)
  PROVE  \E i \in I : /\ b[1] = LabelOf(i) /\ \A j \in I \ {i} : i < j
                      /\ Written(Tail(b), I \ {i})
<1>. DEFINE n == Len(b)
            c == Tail(b)
<1>1. PICK f \in [1..n -> I] :
        /\ \A p, q \in 1..n : p < q => f[p] < f[q]
        /\ \A j \in I : \E p \in 1..n : f[p] = j
        /\ \A p \in 1..n : b[p] = LabelOf(f[p])
  BY DEF Written, Lists
<1>2. n \in Nat \ {0} /\ Len(c) = n - 1 /\ \A p \in 1..(n - 1) : c[p] = b[p + 1]
  BY HeadFacts
<1>. HIDE DEF n, c
<1>. DEFINE i == f[1]
            J == I \ {i}
            g == [p \in 1..(n - 1) |-> f[p + 1]]
<1>3. 1 \in 1..n /\ i \in I /\ b[1] = LabelOf(i)
  BY <1>1, <1>2
<1>4. ASSUME NEW p \in 1..(n - 1) PROVE p + 1 \in 1..n /\ i < f[p + 1] /\ f[p + 1] \in J
  <2>1. p + 1 \in 1..n /\ 1 < p + 1
    BY <1>2
  <2>2. i < f[p + 1] /\ f[p + 1] \in I
    BY <1>1, <1>3, <2>1
  <2>3. i \in Nat
    BY <1>3
  <2>. QED BY <2>1, <2>2, <2>3
<1>5. ASSUME NEW j \in J PROVE \E p \in 1..(n - 1) : f[p + 1] = j
  <2>1. PICK p \in 1..n : f[p] = j
    BY <1>1
  <2>2. p # 1 /\ p - 1 \in 1..(n - 1) /\ p - 1 + 1 = p
    BY <1>2, <2>1
  <2>. QED BY <2>1, <2>2
<1>6. \A j \in J : i < j
  BY <1>4, <1>5
<1>7. g \in [1..(n - 1) -> J] /\ \A p \in 1..(n - 1) : g[p] = f[p + 1]
  BY <1>4
<1>. HIDE DEF g, i, J
<1>8. ASSUME NEW p \in 1..(n - 1), NEW q \in 1..(n - 1), p < q PROVE g[p] < g[q]
  <2>1. p + 1 \in 1..n /\ q + 1 \in 1..n /\ p + 1 < q + 1
    BY <1>2, <1>8
  <2>. QED BY <1>1, <1>7, <2>1
<1>9. \A j \in J : \E p \in 1..(n - 1) : g[p] = j
  BY <1>5, <1>7
<1>10. \A p \in 1..(n - 1) : c[p] = LabelOf(g[p])
  BY <1>1, <1>2, <1>4, <1>7
<1>11. Lists(g, c, J)
  BY <1>2, <1>7, <1>8, <1>9, <1>10 DEF Lists
<1>12. Written(c, J)
  BY <1>11 DEF Written
<1>. QED BY <1>3, <1>6, <1>12 DEF J, c

LEMMA FrozenLines ==
  ASSUME file' = file
  PROVE  /\ \A k, i : LabelLine(k, i)' = LabelLine(k, i)
         /\ \A k, n : Lines(k, n)' = Lines(k, n) /\ LinesFrom(k, n)' = LinesFrom(k, n)
         /\ \A b, I : Written(b, I)' = Written(b, I)
<1>1. \A k, i : LabelLine(k, i)' = LabelLine(k, i)
  BY Frozen DEF LabelLine
<1>2. \A k, n : Lines(k, n)' = Lines(k, n) /\ LinesFrom(k, n)' = LinesFrom(k, n)
  BY <1>1 DEF Lines, LinesFrom
<1>3. \A i : LabelOf(i)' = LabelOf(i)
  BY Frozen DEF LabelOf
<1>4. \A b, I : Written(b, I)' = Written(b, I)
  BY <1>3 DEF Written, Lists
<1>. QED BY <1>1, <1>2, <1>4

LEMMA NextLines ==
  ASSUME NEW n \in Nat, NEW k
  PROVE  /\ Lines(k, n + 1) = IF LabelLine(k, n + 1) THEN Lines(k, n) \cup {n + 1} ELSE Lines(k, n)
         /\ Lines(k, 0) = {} /\ \A i \in Lines(k, n) : i \in Nat /\ i < n + 1
<1>1. \A i : i \in 1..(n + 1) <=> i \in 1..n \/ i = n + 1
  OBVIOUS
<1>. QED BY <1>1 DEF Lines

(* Servers follow one another. *)
LEMMA ServersGrow ==
  ASSUME NEW n \in Nat
  PROVE  \A m \in 0..n : ServerOf(m) \in Nat /\ ServerOf(m) <= ServerOf(n)
<1>. DEFINE P == [i \in 0..n |-> {t \in Nat : \A m \in 0..i : ServerOf(m) <= t}]
<1>1. \A i \in 0..n : ServerOf(i) \in Nat
  BY DepthFacts
<1>2. ServerOf(0) \in P[0]
  BY <1>1
<1>3. ASSUME NEW i \in 1..n, ServerOf(i - 1) \in P[i - 1] PROVE ServerOf(i) \in P[i]
  <2>1. i - 1 \in Nat /\ i - 1 + 1 = i /\ i - 1 \in 0..n /\ i \in 0..n
    BY <1>3
  <2>2. ServerOf(i) = ServerOf(i - 1) + IF file[i] = Server THEN 1 ELSE 0
    BY <2>1, DepthFacts
  <2>3. ServerOf(i - 1) <= ServerOf(i) /\ ServerOf(i) \in Nat /\ ServerOf(i - 1) \in Nat
    BY <1>1, <2>1, <2>2
  <2>4. \A m \in 0..i : m \in 0..(i - 1) \/ m = i
    BY <2>1
  <2>5. \A m \in 0..(i - 1) : ServerOf(m) <= ServerOf(i - 1) /\ ServerOf(m) \in Nat
    BY <1>1, <1>3, <2>1
  <2>. QED BY <2>1, <2>3, <2>4, <2>5
<1>4. \A i \in 0..n : P[i] = {t \in Nat : \A m \in 0..i : ServerOf(m) <= t}
  OBVIOUS
<1>. HIDE DEF P
<1>. DEFINE acc == [i \in 0..n |-> ServerOf(i)]
<1>5. \A i \in 0..n : acc[i] = ServerOf(i)
  OBVIOUS
<1>. HIDE DEF acc
<1>6. acc[0] \in P[0] /\ \A i \in 1..n : acc[i - 1] \in P[i - 1] => acc[i] \in P[i]
  <2>1. 0 \in 0..n /\ \A i \in 1..n : i \in 0..n /\ i - 1 \in 0..n
    OBVIOUS
  <2>. QED BY <1>2, <1>3, <1>5, <2>1
<1>7. \A i \in 0..n : acc[i] \in P[i]
  BY <1>6, StepByStep
<1>8. n \in 0..n
  OBVIOUS
<1>9. ServerOf(n) \in P[n]
  BY <1>5, <1>7, <1>8
<1>. QED BY <1>1, <1>4, <1>8, <1>9

------------------------------------------------------------------------------
(* Reading: the labels of every server are its lines so far, and no location is within
   another. *)

Placed(n) ==
  /\ \A k \in 1..Len(Blocks) : Written(Blocks[k], Lines(k, n))
  /\ \A i \in 1..n : Depth(i) = 2 => ~IsLocation(file[i])

Origins ==
  pc \in Reader => /\ config = NewConfig
                   /\ AnyRefused(Blocks) \/ Placed(Seen)

LEMMA StillPlaced ==
  ASSUME file' = file,
         \A k \in 1..Len(Blocks') : Written(Blocks'[k], Lines(k, Seen')),
         \A i \in 1..Seen' : Depth(i) = 2 => ~IsLocation(file[i])
  PROVE  Placed(Seen)'
<1>1. (\A k \in 1..Len(Blocks) : Written(Blocks[k], Lines(k, Seen)))'
  BY FrozenLines
<1>2. (\A i \in 1..Seen : Depth(i) = 2 => ~IsLocation(file[i]))'
  BY Frozen DEF IsLocation
<1>. QED BY <1>1, <1>2 DEF Placed

LEMMA NoLabel ==
  ASSUME NEW n \in Nat,
         \/ IsComment(file[n + 1]) \/ file[n + 1] \in {Open, Close} \/ Depth(n + 1) \notin {1, 2}
  PROVE  \A k : ~LabelLine(k, n + 1) /\ Lines(k, n + 1) = Lines(k, n)
<1>1. \A k : ~LabelLine(k, n + 1)
  BY DEF LabelLine
<1>. QED BY <1>1, NextLines

LEMMA NewLabel ==
  ASSUME TypeInv, TypeInv', LinesOfFile, AsNested, pc \in {"server", "location"}, Placed(Seen),
         Seen + 1 \in 1..Len(file), file[Seen + 1] \notin {Open, Close, Server},
         ~IsComment(file[Seen + 1]),
         servers' = servers, labels' = Append(labels, LabelOf(Seen + 1))
  PROVE  \A k \in 1..Len(Blocks') : Written(Blocks'[k], Lines(k, Seen + 1))
<1>. DEFINE n == Seen
            l == LabelOf(n + 1)
            K == Len(servers) + 1
<1>1. n \in Nat /\ n + 1 \in Nat
  BY SeenFacts
<1>2. Depth(n + 1) \in {1, 2}
  BY Levels DEF AsNested
<1>3. ServerOf(n + 1) = K
  <2>1. ServerOf(n) = K /\ K \in Nat
    BY BlocksFacts DEF AsNested, InServer
  <2>2. ServerOf(n + 1) = ServerOf(n) + 0
    BY <1>1, DepthFacts
  <2>. QED BY <2>1, <2>2
<1>4. \A k \in 1..Len(Blocks) : Written(Blocks[k], Lines(k, n))
  BY DEF Placed
<1>5. Len(Blocks) = K /\ Len(Blocks') = K /\ Blocks[K] = labels /\ Blocks'[K] = labels'
      /\ Len(servers) \in Nat
  BY BlocksFacts, NextBlocks
<1>6. \A k \in 1..Len(servers) : Blocks'[k] = Blocks[k]
  BY BlocksFacts, NextBlocks
<1>. HIDE DEF n, l
<1>7. Written(labels', Lines(K, n + 1))
  <2>1. Lines(K, n + 1) = Lines(K, n) \cup {n + 1}
    BY <1>1, <1>2, <1>3, NextLines DEF LabelLine, n
  <2>2. Lines(K, n) \in SUBSET Nat /\ \A j \in Lines(K, n) : j < n + 1
    BY <1>1, NextLines
  <2>3. Written(labels, Lines(K, n)) /\ labels \in Seq(Label)
    BY <1>4, <1>5 DEF TypeInv
  <2>4. Written(Append(labels, l), Lines(K, n) \cup {n + 1})
    BY <1>1, <2>2, <2>3, WrittenMore DEF l
  <2>. QED BY <2>1, <2>4 DEF l, n
<1>8. \A k \in 1..Len(servers) : Lines(k, n + 1) = Lines(k, n)
  <2>1. \A k \in 1..Len(servers) : ~LabelLine(k, n + 1)
    BY <1>3, <1>5 DEF LabelLine
  <2>. QED BY <1>1, <2>1, NextLines
<1>9. \A k \in 1..K : k = K \/ k \in 1..Len(servers)
  BY <1>5
<1>10. ASSUME NEW k \in 1..K PROVE Written(Blocks'[k], Lines(k, n + 1))
  <2>1. CASE k = K
    BY <1>5, <1>7, <2>1
  <2>2. CASE k \in 1..Len(servers)
    <3>1. k \in 1..Len(Blocks)
      BY <1>5
    <3>. QED BY <1>4, <1>6, <1>8, <2>2, <3>1
  <2>. QED BY <1>9, <2>1, <2>2
<1>. QED BY <1>5, <1>10 DEF n

LEMMA OriginsStep ==
  ASSUME IInv, IInv', Origins, [Next]_vars PROVE Origins'
<1>. SUFFICES ASSUME pc' \in Reader
              PROVE  config' = NewConfig /\ (AnyRefused(Blocks') \/ Placed(Seen)')
  BY DEF Origins
<1>0. TypeInv /\ TypeInv' /\ LinesOfFile /\ Reads /\ Seen \in Nat
  BY SeenFacts DEF IInv
<1>1. CASE SkipComment
  <2>1. /\ pc \in Reader /\ lines # <<>> /\ lines' = Tail(lines) /\ file' = file
        /\ servers' = servers /\ labels' = labels /\ IsComment(Head(lines))
        /\ config' = config
    BY <1>1 DEF SkipComment, Reading, Reader
  <2>2. Blocks' = Blocks
    BY <2>1 DEF Blocks
  <2>3. SUFFICES ASSUME Placed(Seen) PROVE Placed(Seen)'
    BY <2>1, <2>2 DEF Origins
  <2>4. Seen' = Seen + 1 /\ IsComment(file[Seen + 1]) /\ ~IsLocation(file[Seen + 1])
    BY <1>0, <2>1, OneLine DEF IsComment, IsLocation
  <2>5. \A k : Lines(k, Seen + 1) = Lines(k, Seen)
    BY <1>0, <2>4, NoLabel
  <2>6. \A i \in 1..(Seen + 1) : i \in 1..Seen \/ i = Seen + 1
    BY <1>0
  <2>7. \A i \in 1..Seen' : Depth(i) = 2 => ~IsLocation(file[i])
    BY <2>3, <2>4, <2>6 DEF Placed
  <2>8. \A k \in 1..Len(Blocks') : Written(Blocks'[k], Lines(k, Seen'))
    BY <2>2, <2>3, <2>4, <2>5 DEF Placed
  <2>. QED BY <2>1, <2>7, <2>8, StillPlaced
<1>2. CASE OpenServer
  <2>1. /\ pc = "top" /\ lines # <<>> /\ lines' = SubSeq(lines, 3, Len(lines))
        /\ file' = file /\ servers' = servers /\ labels' = labels /\ config' = config
        /\ pc' \in IF Head(lines) = Server THEN Opened(Tail(lines), "server") ELSE {"refused"}
        /\ pc \in Reader
    BY <1>2 DEF OpenServer, Reading, Reader
  <2>2. Head(lines) = Server /\ pc' \in Opened(Tail(lines), "server")
    BY <2>1 DEF Reader
  <2>3. Tail(lines) # <<>> /\ Tail(lines)[1] = Open
    BY <2>2, OpenedFacts DEF Reader
  <2>4. Blocks' = Blocks
    BY <2>1 DEF Blocks
  <2>5. SUFFICES ASSUME Placed(Seen), ~AnyRefused(Blocks) PROVE Placed(Seen)'
    BY <2>1, <2>4 DEF Origins
  <2>6. Seen' = Seen + 2 /\ file[Seen + 1] = Server /\ file[Seen + 2] = Open
    BY <1>0, <2>1, <2>2, <2>3, TwoLines
  <2>7. Depth(Seen + 1) = 0
    BY <1>0, <2>1, <2>5, Levels DEF Reads, AsNested
  <2>8. \A k : Lines(k, Seen + 2) = Lines(k, Seen)
    <3>1. Seen + 1 \in Nat /\ Seen + 1 + 1 = Seen + 2
      BY <1>0
    <3>2. \A k : Lines(k, Seen + 1) = Lines(k, Seen)
      BY <1>0, <2>7, NoLabel
    <3>3. \A k : Lines(k, Seen + 1 + 1) = Lines(k, Seen + 1)
      BY <2>6, <3>1, NoLabel
    <3>. QED BY <3>1, <3>2, <3>3
  <2>9. \A i \in 1..(Seen + 2) : i \in 1..Seen \/ i = Seen + 1 \/ i = Seen + 2
    BY <1>0
  <2>10. \A i \in 1..Seen' : Depth(i) = 2 => ~IsLocation(file[i])
    BY <2>5, <2>6, <2>9, Kinds DEF Placed
  <2>11. \A k \in 1..Len(Blocks') : Written(Blocks'[k], Lines(k, Seen'))
    BY <2>4, <2>5, <2>6, <2>8 DEF Placed
  <2>. QED BY <2>1, <2>10, <2>11, StillPlaced
<1>3. CASE OpenLocation
  <2>1. /\ pc = "server" /\ lines # <<>> /\ lines' = SubSeq(lines, 3, Len(lines))
        /\ file' = file /\ servers' = servers /\ labels' = Append(labels, Head(lines))
        /\ IsLocation(Head(lines)) /\ pc' \in Opened(Tail(lines), "location")
        /\ pc \in Reader /\ config' = config
    BY <1>3 DEF OpenLocation, Reading, Reader
  <2>2. Tail(lines) # <<>> /\ Tail(lines)[1] = Open
    BY <2>1, OpenedFacts DEF Reader
  <2>3. AnyRefused(Blocks) => AnyRefused(Blocks')
    BY <1>0, <2>1, Labelled, KeptFacts, BlocksFacts, NextBlocks
  <2>4. SUFFICES ASSUME Placed(Seen), ~AnyRefused(Blocks) PROVE Placed(Seen)'
    BY <2>1, <2>3 DEF Origins
  <2>5. /\ Seen' = Seen + 2 /\ file[Seen + 1] = Head(lines) /\ file[Seen + 2] = Open
        /\ Seen + 1 \in 1..Len(file)
    BY <1>0, <2>1, <2>2, TwoLines
  <2>6. AsNested /\ Depth(Seen + 1) = 1
    BY <1>0, <2>1, <2>4, Levels DEF Reads, AsNested
  <2>7. /\ file[Seen + 1] \notin {Open, Close, Server} /\ ~IsComment(file[Seen + 1])
        /\ LabelOf(Seen + 1) = Head(lines)
    BY <2>1, <2>5, <2>6, Kinds DEF LabelOf, IsLocation, IsComment
  <2>8. \A k \in 1..Len(Blocks') : Written(Blocks'[k], Lines(k, Seen + 1))
    BY <1>0, <2>1, <2>4, <2>5, <2>6, <2>7, NewLabel
  <2>9. \A k : Lines(k, Seen + 2) = Lines(k, Seen + 1)
    <3>1. Seen + 1 \in Nat /\ Seen + 1 + 1 = Seen + 2
      BY <1>0
    <3>2. \A k : Lines(k, Seen + 1 + 1) = Lines(k, Seen + 1)
      BY <2>5, <3>1, NoLabel
    <3>. QED BY <3>1, <3>2
  <2>10. \A i \in 1..(Seen + 2) : i \in 1..Seen \/ i = Seen + 1 \/ i = Seen + 2
    BY <1>0
  <2>11. \A i \in 1..Seen' : Depth(i) = 2 => ~IsLocation(file[i])
    BY <2>4, <2>5, <2>6, <2>10, Kinds DEF Placed
  <2>12. \A k \in 1..Len(Blocks') : Written(Blocks'[k], Lines(k, Seen'))
    BY <2>5, <2>8, <2>9
  <2>. QED BY <2>1, <2>11, <2>12, StillPlaced
<1>4. CASE ServerLine
  <2>1. /\ pc = "server" /\ lines # <<>> /\ lines' = Tail(lines)
        /\ file' = file /\ servers' = servers /\ labels' = Append(labels, Head(lines))
        /\ ~IsComment(Head(lines)) /\ ~IsLocation(Head(lines)) /\ Head(lines) # Close
        /\ pc \in Reader /\ config' = config
    BY <1>4 DEF ServerLine, Reading, Reader
  <2>2. (AnyRefused(Blocks) => AnyRefused(Blocks'))
        /\ (Refused(Head(lines)) => AnyRefused(Blocks'))
    BY <1>0, <2>1, Labelled, KeptFacts, BlocksFacts, NextBlocks
  <2>3. SUFFICES ASSUME Placed(Seen), ~AnyRefused(Blocks') PROVE Placed(Seen)'
    BY <2>1, <2>2 DEF Origins
  <2>4. Head(lines) # Open /\ Head(lines) # Server
    BY <2>2, <2>3, PlainFacts DEF Refused, Open, Server
  <2>5. Seen' = Seen + 1 /\ file[Seen + 1] = Head(lines) /\ Seen + 1 \in 1..Len(file)
    BY <1>0, <2>1, OneLine
  <2>6. AsNested /\ Depth(Seen + 1) = 1
    BY <1>0, <2>1, <2>2, <2>3, Levels DEF Reads, AsNested
  <2>7. LabelOf(Seen + 1) = Head(lines)
    BY <2>5, <2>6 DEF LabelOf
  <2>8. \A k \in 1..Len(Blocks') : Written(Blocks'[k], Lines(k, Seen + 1))
    BY <1>0, <2>1, <2>3, <2>4, <2>5, <2>6, <2>7, NewLabel
  <2>9. \A i \in 1..(Seen + 1) : i \in 1..Seen \/ i = Seen + 1
    BY <1>0
  <2>10. \A i \in 1..Seen' : Depth(i) = 2 => ~IsLocation(file[i])
    BY <2>3, <2>5, <2>6, <2>9 DEF Placed
  <2>. QED BY <2>1, <2>5, <2>8, <2>10, StillPlaced
<1>5. CASE CloseServer
  <2>1. /\ pc = "server" /\ lines # <<>> /\ lines' = Tail(lines)
        /\ file' = file /\ servers' = Append(servers, labels) /\ labels' = <<>>
        /\ Head(lines) = Close /\ pc \in Reader /\ config' = config
    BY <1>5 DEF CloseServer, Reading, Reader
  <2>2. AnyRefused(Blocks) => AnyRefused(Blocks')
    BY <1>0, <1>5, Closed, KeptFacts, BlocksFacts, NextBlocks
  <2>3. SUFFICES ASSUME Placed(Seen), ~AnyRefused(Blocks) PROVE Placed(Seen)'
    BY <2>1, <2>2 DEF Origins
  <2>4. Seen' = Seen + 1 /\ file[Seen + 1] = Close
    BY <1>0, <2>1, OneLine
  <2>5. \A k : Lines(k, Seen + 1) = Lines(k, Seen)
    BY <1>0, <2>4, NoLabel
  <2>6. \A i \in 1..(Seen + 1) : i \in 1..Seen \/ i = Seen + 1
    BY <1>0
  <2>7. \A i \in 1..Seen' : Depth(i) = 2 => ~IsLocation(file[i])
    BY <2>3, <2>4, <2>6, Kinds DEF Placed
  <2>. DEFINE K == Len(Blocks)
  <2>8. K \in Nat /\ Len(Blocks') = K + 1 /\ Blocks'[K + 1] = <<>>
        /\ \A k \in 1..K : Blocks'[k] = Blocks[k]
    <3>1. servers' = Blocks
      BY <2>1 DEF Blocks
    <3>. QED BY <1>0, <2>1, <3>1, BlocksFacts, NextBlocks
  <2>9. Lines(K + 1, Seen) = {}
    <3>1. ServerOf(Seen) = K /\ K + 1 > K
      BY <1>0, <2>1, <2>3, <2>8, BlocksFacts DEF Reads, AsNested, InServer
    <3>2. \A i \in 1..Seen : i \in 0..Seen
      BY <1>0
    <3>3. \A i \in 1..Seen : ServerOf(i) \in Nat /\ ServerOf(i) <= ServerOf(Seen)
      BY <1>0, <3>2, ServersGrow
    <3>4. \A i \in 1..Seen : ServerOf(i) # K + 1
      BY <2>8, <3>1, <3>3
    <3>. QED BY <3>4 DEF Lines, LabelLine
  <2>. HIDE DEF K
  <2>10. ASSUME NEW k \in 1..(K + 1) PROVE Written(Blocks'[k], Lines(k, Seen'))
    <3>1. CASE k = K + 1
      <4>1. Lines(k, Seen') = {} /\ Blocks'[k] = <<>>
        BY <2>4, <2>5, <2>8, <2>9, <3>1
      <4>. QED BY <4>1, WrittenNone
    <3>2. CASE k # K + 1
      <4>1. k \in 1..K
        BY <2>8, <3>2
      <4>2. Written(Blocks[k], Lines(k, Seen))
        BY <2>3, <4>1 DEF Placed, K
      <4>. QED BY <2>4, <2>5, <2>8, <4>1, <4>2
    <3>. QED BY <3>1, <3>2
  <2>. QED BY <2>1, <2>7, <2>8, <2>10, StillPlaced
<1>6. CASE LocationLine
  <2>. DEFINE l == Head(lines)
  <2>1. /\ pc = "location" /\ lines # <<>> /\ lines' = Tail(lines)
        /\ file' = file /\ servers' = servers /\ labels' = Append(labels, InLocation(l))
        /\ ~IsComment(l) /\ l # Close /\ pc \in Reader /\ config' = config /\ l \in Label
    BY <1>0, <1>6, HeadFacts DEF LocationLine, Reading, Reader, TypeInv
  <2>2. /\ AnyRefused(Blocks) => AnyRefused(Blocks')
        /\ Refused(InLocation(l)) => AnyRefused(Blocks')
    BY <1>0, <2>1, Labelled, KeptFacts, BlocksFacts, NextBlocks
  <2>3. SUFFICES ASSUME Placed(Seen), ~AnyRefused(Blocks') PROVE Placed(Seen)'
    BY <2>1, <2>2 DEF Origins
  <2>4. l # Open /\ l # Server /\ ~IsLocation(l)
    BY <2>1, <2>2, <2>3, InLocationRefused
  <2>5. Seen' = Seen + 1 /\ file[Seen + 1] = l /\ Seen + 1 \in 1..Len(file)
    BY <1>0, <2>1, OneLine
  <2>6. AsNested /\ Depth(Seen + 1) = 2
    BY <1>0, <2>1, <2>2, <2>3, Levels DEF Reads, AsNested
  <2>. HIDE DEF l
  <2>7. LabelOf(Seen + 1) = InLocation(l)
    BY <2>5, <2>6 DEF LabelOf
  <2>8. \A k \in 1..Len(Blocks') : Written(Blocks'[k], Lines(k, Seen + 1))
    BY <1>0, <2>1, <2>3, <2>4, <2>5, <2>6, <2>7, NewLabel
  <2>9. \A i \in 1..(Seen + 1) : i \in 1..Seen \/ i = Seen + 1
    BY <1>0
  <2>10. \A i \in 1..Seen' : Depth(i) = 2 => ~IsLocation(file[i])
    BY <2>3, <2>4, <2>5, <2>9 DEF Placed
  <2>. QED BY <2>1, <2>5, <2>8, <2>10, StillPlaced
<1>7. CASE CloseLocation
  <2>1. /\ pc \in Reader /\ lines # <<>> /\ lines' = Tail(lines) /\ file' = file
        /\ servers' = servers /\ labels' = labels /\ Head(lines) = Close
        /\ config' = config
    BY <1>7 DEF CloseLocation, Reading, Reader
  <2>2. Blocks' = Blocks
    BY <2>1 DEF Blocks
  <2>3. SUFFICES ASSUME Placed(Seen) PROVE Placed(Seen)'
    BY <2>1, <2>2 DEF Origins
  <2>4. Seen' = Seen + 1 /\ file[Seen + 1] = Close
    BY <1>0, <2>1, OneLine
  <2>5. \A k : Lines(k, Seen + 1) = Lines(k, Seen)
    BY <1>0, <2>4, NoLabel
  <2>6. \A i \in 1..(Seen + 1) : i \in 1..Seen \/ i = Seen + 1
    BY <1>0
  <2>7. \A i \in 1..Seen' : Depth(i) = 2 => ~IsLocation(file[i])
    BY <2>3, <2>4, <2>6, Kinds DEF Placed
  <2>8. \A k \in 1..Len(Blocks') : Written(Blocks'[k], Lines(k, Seen'))
    BY <2>2, <2>3, <2>4, <2>5 DEF Placed
  <2>. QED BY <2>1, <2>7, <2>8, StillPlaced
<1>8. CASE UNCHANGED vars
  <2>1. /\ pc \in Reader /\ file' = file /\ Seen' = Seen /\ Blocks' = Blocks
        /\ config' = config
    BY <1>8 DEF vars, Seen, Blocks
  <2>2. SUFFICES ASSUME Placed(Seen) PROVE Placed(Seen)'
    BY <2>1 DEF Origins
  <2>3. /\ \A k \in 1..Len(Blocks') : Written(Blocks'[k], Lines(k, Seen'))
        /\ \A i \in 1..Seen' : Depth(i) = 2 => ~IsLocation(file[i])
    BY <2>1, <2>2 DEF Placed
  <2>. QED BY <2>1, <2>3, StillPlaced
<1>9. CASE EndOfFile \/ AddLabel \/ FinishServer \/ Finish \/ StartServer \/ EnterLoop
  <2>1. pc' \notin Reader
    <3>1. CASE EndOfFile
      BY <3>1 DEF EndOfFile, Reader
    <3>2. CASE AddLabel
      BY <1>0, <3>2, AddEnds DEF Reader
    <3>3. CASE FinishServer \/ Finish
      BY <3>3 DEF FinishServer, Finish, Reader
    <3>4. CASE StartServer
      <4>1. pc = "accepted" /\ (pc' = pc \/ pc' \in {"failed", "unable"})
        BY <3>4 DEF StartServer, Starting
      <4>. QED BY <4>1 DEF Reader
    <3>5. CASE EnterLoop
      BY <3>5 DEF EnterLoop, Reader
    <3>. QED BY <1>9, <3>1, <3>2, <3>3, <3>4, <3>5
  <2>. QED BY <2>1
<1>. QED BY <1>1, <1>2, <1>3, <1>4, <1>5, <1>6, <1>7, <1>8, <1>9
         DEF Next, GetLabels, Terminated

------------------------------------------------------------------------------
(* What a Config holds once the lines D have been added. *)

SettingsWritten(c, D) ==
  /\ ServerAsWritten(c, D)
  /\ Len(c.locations) = Cardinality(ServerLines(D, "location"))
  /\ \A n \in 1..Len(c.locations) : LocationAsWritten(c.locations[n], D, n)

NumbersWritten(c, D) ==
  LET p == Latest(ServerLines(D, "port"))
      m == Latest(ServerLines(D, "client_max_body_size"))
  IN /\ p = 0 => c.port = 8080
     /\ p # 0 => IF file[p].value = <<>> THEN c.port \in Garbage
                 ELSE c.port = Number[file[p].value[1]]
     /\ m = 0 => c.clientBodySize = Kilo * Kilo
     /\ m # 0 /\ SizeOf(file[m].value) \in Sizes => c.clientBodySize = SizeOf(file[m].value)

MethodsWritten(c, D) ==
  \A n \in 1..Len(c.locations) :
    LET i == Latest(LocationLines(D, n, "http_methods"))
        methods == ToSet(c.locations[n].http_methods)
    IN IF i = 0 THEN methods = Methods
       ELSE /\ methods = ToSet(file[i].value)
            /\ Latest(ServerLines(D, "allowed_methods")) < i =>
                 methods \subseteq ToSet(c.allowedMethods)

AsWritten(c, D) == SettingsWritten(c, D) /\ NumbersWritten(c, D) /\ MethodsWritten(c, D)

LEMMA MaxIs ==
  ASSUME NEW S \in SUBSET Int, NEW m \in S, \A y \in S : y <= m PROVE Max(S) = m
<1>1. \A y \in S : m >= y
  OBVIOUS
<1>2. ASSUME NEW x \in S, \A y \in S : x >= y PROVE x = m
  <2>1. x >= m /\ m >= x /\ x \in Int /\ m \in Int
    BY <1>1, <1>2
  <2>. QED BY <2>1
<1>. QED BY <1>1, <1>2, Zenon DEF Max

LEMMA LatestFacts ==
  ASSUME NEW n \in Nat, NEW I \in SUBSET (1..n)
  PROVE  /\ Latest({}) = 0 /\ Latest(I) \in Nat /\ Latest(I) \in {0} \cup I
         /\ \A i \in Nat \ {0} : (\A j \in I : j < i) => Latest(I \cup {i}) = i
<1>1. Latest({}) = 0
  <2>1. {0} \cup {} = {0}
    OBVIOUS
  <2>. QED BY <2>1, MaxIs DEF Latest
<1>2. \E m \in {0} \cup I : \A y \in {0} \cup I : y <= m
  <2>1. CASE I = {}
    BY <2>1
  <2>2. CASE I # {}
    <3>1. PICK m \in I : \A y \in I : y <= m
      BY <2>2, MaxFacts
    <3>2. m \in Nat /\ 0 <= m
      OBVIOUS
    <3>. QED BY <3>1, <3>2
  <2>. QED BY <2>1, <2>2
<1>3. PICK m \in {0} \cup I : \A y \in {0} \cup I : y <= m
  BY <1>2
<1>4. Latest(I) \in Nat /\ Latest(I) \in {0} \cup I
  <2>. DEFINE S == {0} \cup I
  <2>1. S \in SUBSET Int /\ S \in SUBSET Nat
    OBVIOUS
  <2>. HIDE DEF S
  <2>2. Max(S) = m
    BY <1>3, <2>1, MaxIs DEF S
  <2>. QED BY <1>3, <2>1, <2>2 DEF S, Latest
<1>5. ASSUME NEW i \in Nat \ {0}, \A j \in I : j < i PROVE Latest(I \cup {i}) = i
  <2>. DEFINE S == {0} \cup (I \cup {i})
  <2>1. S \in SUBSET Int /\ i \in S /\ \A y \in S : y <= i
    BY <1>5
  <2>. HIDE DEF S
  <2>2. Max(S) = i
    BY <2>1, MaxIs
  <2>. QED BY <2>2 DEF S, Latest
<1>. QED BY <1>1, <1>4, <1>5

LEMMA FiniteOf ==
  ASSUME NEW i \in Nat \ {0}, NEW D \in SUBSET (1..(i - 1)), NEW key
  PROVE  IsFiniteSet(ServerLines(D, key)) /\ i \notin ServerLines(D, key)
<1>1. i \notin 1..(i - 1)
  OBVIOUS
<1>3. ServerLines(D, key) \subseteq D
  BY DEF ServerLines
<1>2. IsFiniteSet(1..(i - 1))
  <2>1. 1 \in Int /\ i - 1 \in Int
    OBVIOUS
  <2>. QED BY <2>1, FS_Interval
<1>4. ServerLines(D, key) \subseteq 1..(i - 1)
  BY <1>3
<1>. QED BY <1>1, <1>2, <1>4, FS_Subset

LEMMA LatestOneMore ==
  ASSUME NEW i \in Nat \ {0}, NEW I \in SUBSET (1..(i - 1))
  PROVE  Latest(I \cup {i}) = i /\ Latest(I) \in 0..(i - 1)
<1>0. i - 1 \in Nat
  OBVIOUS
<1>1. \A j \in I : j < i
  OBVIOUS
<1>2. Latest(I \cup {i}) = i
  BY <1>0, <1>1, LatestFacts
<1>3. Latest(I) \in Nat /\ Latest(I) \in {0} \cup I
  BY <1>0, LatestFacts
<1>4. \A j \in {0} \cup I : j \in 0..(i - 1)
  OBVIOUS
<1>. QED BY <1>2, <1>3, <1>4

LEMMA OneMoreOf ==
  ASSUME NEW i \in Nat \ {0}, NEW D \in SUBSET (1..(i - 1)), NEW key
  PROVE  /\ OfServer(i, key) =>
              /\ ServerLines(D \cup {i}, key) = ServerLines(D, key) \cup {i}
              /\ Latest(ServerLines(D \cup {i}, key)) = i
         /\ ~OfServer(i, key) => ServerLines(D \cup {i}, key) = ServerLines(D, key)
         /\ Latest(ServerLines(D, key)) \in 0..(i - 1)
<1>1. ServerLines(D, key) \in SUBSET (1..(i - 1))
  BY DEF ServerLines
<1>2. OfServer(i, key) => ServerLines(D \cup {i}, key) = ServerLines(D, key) \cup {i}
  BY DEF ServerLines
<1>3. ~OfServer(i, key) => ServerLines(D \cup {i}, key) = ServerLines(D, key)
  BY DEF ServerLines
<1>4. Latest(ServerLines(D, key) \cup {i}) = i /\ Latest(ServerLines(D, key)) \in 0..(i - 1)
  BY <1>1, LatestOneMore
<1>. QED BY <1>2, <1>3, <1>4

LEMMA OneMoreIn ==
  ASSUME NEW i \in Nat \ {0}, NEW D \in SUBSET (1..(i - 1)), NEW key, NEW n
  PROVE  /\ LocationOf(i) = n /\ OfLocation(i, key) => Latest(LocationLines(D \cup {i}, n, key)) = i
         /\ ~(LocationOf(i) = n /\ OfLocation(i, key)) =>
              LocationLines(D \cup {i}, n, key) = LocationLines(D, n, key)
         /\ Latest(LocationLines(D, n, key)) \in 0..(i - 1)
<1>1. LocationLines(D, n, key) \in SUBSET (1..(i - 1))
  BY DEF LocationLines
<1>2. LocationOf(i) = n /\ OfLocation(i, key) =>
        LocationLines(D \cup {i}, n, key) = LocationLines(D, n, key) \cup {i}
  BY DEF LocationLines
<1>3. ~(LocationOf(i) = n /\ OfLocation(i, key)) =>
        LocationLines(D \cup {i}, n, key) = LocationLines(D, n, key)
  BY DEF LocationLines
<1>4. /\ Latest(LocationLines(D, n, key) \cup {i}) = i
      /\ Latest(LocationLines(D, n, key)) \in 0..(i - 1)
  BY <1>1, LatestOneMore
<1>. QED BY <1>2, <1>3, <1>4

LEMMA NewLocationAdded ==
  ASSUME NEW c \in Configs, NEW value
  PROVE  LET ls == Append(c.locations, NewLocation(value))
             n  == Len(c.locations)
         IN  /\ n \in Nat /\ Len(ls) = n + 1 /\ \A j \in 1..n : ls[j] = c.locations[j]
             /\ ls[n + 1] = NewLocation(value)
<1>. DEFINE l == NewLocation(value)
            ls == Append(c.locations, l)
            n == Len(c.locations)
            S == LocationRecords \cup {l}
<1>. HIDE DEF l
<1>1. c.locations \in Seq(S) /\ l \in S
  BY ConfigFields DEF LocationLists
<1>. HIDE DEF S
<1>2. n \in Nat /\ Len(ls) = n + 1 /\ ls[n + 1] = l /\ \A j \in 1..n : ls[j] = c.locations[j]
  BY <1>1
<1>. QED BY <1>2 DEF l

LEMMA AllMethods == ToSet(DefaultMethods) = Methods
<1>1. DOMAIN DefaultMethods = {1, 2, 3}
  BY DEF DefaultMethods
<1>2. DefaultMethods[1] = "GET" /\ DefaultMethods[2] = "POST" /\ DefaultMethods[3] = "DELETE"
  BY DEF DefaultMethods
<1>. QED BY <1>1, <1>2 DEF ToSet, Methods

LEMMA NoneLatest == Latest({}) = 0
<1>1. 0 \in Nat /\ {} \in SUBSET (1..0)
  OBVIOUS
<1>. QED BY <1>1, LatestFacts

(* What the lines give, one line later. *)
LEMMA GivenMore ==
  ASSUME NEW i \in Nat \ {0}, NEW I \in SUBSET (1..(i - 1)), NEW default
  PROVE  Given(I \cup {i}, default) = file[i].value
<1>1. Latest(I \cup {i}) = i /\ i # 0
  BY LatestOneMore
<1>. QED BY <1>1 DEF Given

(* A server whose next line sets one of its fields. *)
LEMMA ServerFieldsWritten ==
  ASSUME NEW c \in Configs, NEW d, NEW i \in Nat \ {0}, NEW D \in SUBSET (1..(i - 1)),
         ServerAsWritten(c, D), ServerSets(c, d, file[i].key, file[i].value),
         \A key : OfServer(i, key) <=> key = file[i].key
  PROVE  ServerAsWritten(d, D \cup {i})
<1>. DEFINE key == file[i].key
            value == file[i].value
            E == D \cup {i}
<1>1. ASSUME NEW k
      PROVE  /\ k = key => ServerLines(E, k) = ServerLines(D, k) \cup {i}
             /\ k # key => ServerLines(E, k) = ServerLines(D, k)
             /\ ServerLines(D, k) \in SUBSET (1..(i - 1))
  <2>1. OfServer(i, k) <=> k = key
    OBVIOUS
  <2>. QED BY <2>1 DEF ServerLines
<1>2. ASSUME NEW k, NEW default
      PROVE  Given(ServerLines(E, k), default) =
               IF k = key THEN value ELSE Given(ServerLines(D, k), default)
  <2>. HIDE DEF E, key
  <2>. DEFINE I == ServerLines(D, k)
  <2>1. I \in SUBSET (1..(i - 1))
    BY <1>1
  <2>. HIDE DEF I
  <2>2. Given(I \cup {i}, default) = value
    BY <2>1, GivenMore
  <2>. QED BY <1>1, <2>2 DEF I
<1>3. \A code : PagesFor(E, code) =
        IF key = "error_page" /\ Number[value[1]] = code THEN PagesFor(D, code) \cup {i}
        ELSE PagesFor(D, code)
  BY <1>1 DEF PagesFor
<1>4. \A code : PagesFor(D, code) \in SUBSET (1..(i - 1))
  BY <1>1 DEF PagesFor
<1>. HIDE DEF key, E
<1>5. d.mainRoot = Given(ServerLines(E, "root"), <<".">>)
  BY <1>2 DEF ServerSets, ServerAsWritten, key
<1>6. d.uploadPath = Given(ServerLines(E, "upload_path"), <<"/uploads">>)
  BY <1>2 DEF ServerSets, ServerAsWritten, key
<1>7. d.serverNames = Given(ServerLines(E, "server_name"), <<>>)
  BY <1>2 DEF ServerSets, ServerAsWritten, key
<1>8. d.index = ToSet(Given(ServerLines(E, "index"), <<"index.html">>))
  BY <1>2 DEF ServerSets, ServerAsWritten, key
<1>9. ToSet(d.allowedMethods) = ToSet(Given(ServerLines(E, "allowed_methods"), DefaultMethods))
  <2>1. CASE key = "allowed_methods"
    BY <1>2, <2>1 DEF ServerSets, key
  <2>2. CASE key # "allowed_methods"
    BY <1>2, <2>2 DEF ServerSets, ServerAsWritten, key
  <2>. QED BY <2>1, <2>2
<1>10. ASSUME NEW code \in 400..599
       PROVE  /\ code \in DOMAIN d.errorPages <=> PagesFor(E, code) # {}
              /\ code \in DOMAIN d.errorPages =>
                   d.errorPages[code] = PageOf(file[Latest(PagesFor(E, code))].value)
  <2>0. /\ code \in DOMAIN c.errorPages <=> PagesFor(D, code) # {}
        /\ code \in DOMAIN c.errorPages =>
             c.errorPages[code] = PageOf(file[Latest(PagesFor(D, code))].value)
    BY DEF ServerAsWritten, PagesAsWritten
  <2>1. CASE key = "error_page" /\ Number[value[1]] = code
    <3>1. code \in DOMAIN d.errorPages /\ d.errorPages[code] = PageOf(value)
      BY <2>1 DEF ServerSets, WithPage, key
    <3>2. Latest(PagesFor(D, code) \cup {i}) = i
      BY <1>4, LatestOneMore
    <3>. QED BY <1>3, <2>1, <3>1, <3>2
  <2>2. CASE key = "error_page" /\ Number[value[1]] # code
    <3>1. /\ code \in DOMAIN d.errorPages <=> code \in DOMAIN c.errorPages
          /\ code \in DOMAIN d.errorPages => d.errorPages[code] = c.errorPages[code]
      BY <2>2 DEF ServerSets, WithPage, key
    <3>. QED BY <1>3, <2>0, <2>2, <3>1
  <2>3. CASE key # "error_page"
    <3>1. d.errorPages = c.errorPages
      BY <2>3 DEF ServerSets, key
    <3>. QED BY <1>3, <2>0, <2>3, <3>1
  <2>. QED BY <2>1, <2>2, <2>3
<1>. QED BY <1>5, <1>6, <1>7, <1>8, <1>9, <1>10 DEF ServerAsWritten, PagesAsWritten, E

(* A server of which no line is the next one. *)
LEMMA ServerFieldsKept ==
  ASSUME NEW c, NEW d, NEW D, NEW E, ServerAsWritten(c, D), Same(c, d, "locations"),
         \A key : ServerLines(E, key) = ServerLines(D, key)
  PROVE  ServerAsWritten(d, E)
<1>1. \A code : PagesFor(E, code) = PagesFor(D, code)
  BY DEF PagesFor
<1>2. /\ d.mainRoot = c.mainRoot /\ d.uploadPath = c.uploadPath /\ d.index = c.index
      /\ d.serverNames = c.serverNames /\ d.allowedMethods = c.allowedMethods
      /\ d.errorPages = c.errorPages
  BY DEF Same
<1>. QED BY <1>1, <1>2 DEF ServerAsWritten, PagesAsWritten

(* A location that is new. *)
LEMMA NewLocationWritten ==
  ASSUME NEW i, NEW D, NEW n, i \in ServerLines(D, "location"), LocationOf(i) = n,
         \A key : LocationLines(D, n, key) = {}
  PROVE  LocationAsWritten(NewLocation(file[i].value), D, n)
<1>. DEFINE l == NewLocation(file[i].value)
<1>1. Codes(D, n) = {} /\ Targets(D, n) = {}
  BY DEF Codes, Targets
<1>2. \A key : Given(LocationLines(D, n, key), <<>>) = <<>>
  BY NoneLatest DEF Given
<1>3. /\ l.location = file[i].value /\ l.root = <<>> /\ l.directory_listing = <<>>
      /\ l.response_is_dir = <<>> /\ l.http_redirection.code = 0
      /\ l.http_redirection.target = "" /\ l.cgi_pass = {} /\ l.required_cookie = {}
      /\ l.set_cookie = <<>>
  BY DEF NewLocation
<1>4. ToSet(<<>>) = {}
  BY DEF ToSet
<1>. HIDE DEF l
<1>5. l.cgi_pass = UNION {ToSet(file[j].value) : j \in LocationLines(D, n, "cgi_pass")}
  BY <1>3
<1>6. l.required_cookie =
        UNION {Names(file[j].value) : j \in LocationLines(D, n, "required_cookie")}
  BY <1>3
<1>7. ToSet(l.set_cookie) = {CookieOf(file[j].value) : j \in LocationLines(D, n, "set_cookie")}
  BY <1>3, <1>4
<1>8. \E j \in ServerLines(D, "location") : LocationOf(j) = n /\ l.location = file[j].value
  BY <1>3
<1>9. RedirectionAsWritten(l.http_redirection, D, n)
  BY <1>1, <1>3 DEF RedirectionAsWritten
<1>. QED BY <1>2, <1>3, <1>5, <1>6, <1>7, <1>8, <1>9 DEF LocationAsWritten, l

(* A location of which no line is the next one. *)
LEMMA LocationKept ==
  ASSUME NEW l, NEW D, NEW E, NEW n, LocationAsWritten(l, D, n),
         ServerLines(D, "location") \subseteq ServerLines(E, "location"),
         \A key : LocationLines(E, n, key) = LocationLines(D, n, key)
  PROVE  LocationAsWritten(l, E, n)
<1>1. Codes(E, n) = Codes(D, n) /\ Targets(E, n) = Targets(D, n)
  BY DEF Codes, Targets
<1>2. \E i \in ServerLines(E, "location") : LocationOf(i) = n /\ l.location = file[i].value
  BY DEF LocationAsWritten
<1>. QED BY <1>1, <1>2 DEF LocationAsWritten, RedirectionAsWritten

(* A location whose next line this is. *)
LEMMA LocationFieldsWritten ==
  ASSUME NEW old, NEW new, NEW methods, NEW n, NEW i \in Nat \ {0},
         NEW D \in SUBSET (1..(i - 1)), LocationAsWritten(old, D, n),
         LocationSet(old, new, file[i].key, file[i].value, methods),
         \A key : ~OfServer(i, key), LocationOf(i) = n,
         \A key : OfLocation(i, key) <=> key = file[i].key
  PROVE  LocationAsWritten(new, D \cup {i}, n)
<1>. DEFINE key == file[i].key
            value == file[i].value
            E == D \cup {i}
            Adds(k) == LocationLines(D, n, k) \cup {i}
<1>1. ASSUME NEW k
      PROVE  /\ LocationLines(E, n, k) = IF k = key THEN Adds(k) ELSE LocationLines(D, n, k)
             /\ LocationLines(D, n, k) \in SUBSET (1..(i - 1))
  <2>1. OfLocation(i, k) <=> k = key
    OBVIOUS
  <2>. QED BY <2>1 DEF LocationLines
<1>2. ASSUME NEW k
      PROVE  Given(LocationLines(E, n, k), <<>>) =
               IF k = key THEN value ELSE Given(LocationLines(D, n, k), <<>>)
  <2>. HIDE DEF E, key
  <2>. DEFINE I == LocationLines(D, n, k)
  <2>1. I \in SUBSET (1..(i - 1))
    BY <1>1
  <2>. HIDE DEF I
  <2>2. Given(I \cup {i}, <<>>) = value
    BY <2>1, GivenMore
  <2>. QED BY <1>1, <2>2 DEF I
<1>3. ServerLines(E, "location") = ServerLines(D, "location")
  BY DEF ServerLines
<1>4. Codes(E, n) = IF key = "http_redirection" /\ value # <<>> THEN Codes(D, n) \cup {i}
                    ELSE Codes(D, n)
  BY <1>1 DEF Codes
<1>5. Targets(E, n) = IF key = "http_redirection" /\ value # <<>> /\ Rest(value) # <<>>
                      THEN Targets(D, n) \cup {i} ELSE Targets(D, n)
  BY <1>4 DEF Targets
<1>6. Codes(D, n) \in SUBSET (1..(i - 1)) /\ Targets(D, n) \in SUBSET (1..(i - 1))
  BY <1>1 DEF Codes, Targets
<1>. HIDE DEF key, E
<1>7. \E j \in ServerLines(E, "location") : LocationOf(j) = n /\ new.location = file[j].value
  BY <1>3 DEF LocationSet, LocationAsWritten
<1>8. /\ new.root = Given(LocationLines(E, n, "root"), <<>>)
      /\ new.directory_listing = Given(LocationLines(E, n, "directory_listing"), <<>>)
      /\ new.response_is_dir = Given(LocationLines(E, n, "response_is_dir"), <<>>)
  BY <1>2 DEF LocationSet, LocationAsWritten, key
<1>9. new.http_redirection.code =
        IF Codes(E, n) = {} THEN 0 ELSE Number[file[Latest(Codes(E, n))].value[1]]
  <2>1. CASE key = "http_redirection" /\ value # <<>>
    <3>1. new.http_redirection.code = Number[value[1]]
      BY <2>1 DEF LocationSet, key
    <3>2. Latest(Codes(D, n) \cup {i}) = i
      BY <1>6, LatestOneMore
    <3>. QED BY <1>4, <2>1, <3>1, <3>2
  <2>2. CASE ~(key = "http_redirection" /\ value # <<>>)
    <3>1. new.http_redirection.code = old.http_redirection.code
      BY <2>2 DEF LocationSet, key
    <3>2. Codes(E, n) = Codes(D, n)
      BY <1>4, <2>2
    <3>. QED BY <3>1, <3>2 DEF LocationAsWritten, RedirectionAsWritten
  <2>. QED BY <2>1, <2>2
<1>10. new.http_redirection.target =
         IF Targets(E, n) = {} THEN "" ELSE Rest(file[Latest(Targets(E, n))].value)[1]
  <2>1. CASE key = "http_redirection" /\ value # <<>> /\ Rest(value) # <<>>
    <3>1. new.http_redirection.target = Rest(value)[1]
      BY <2>1 DEF LocationSet, key
    <3>2. Latest(Targets(D, n) \cup {i}) = i
      BY <1>6, LatestOneMore
    <3>. QED BY <1>5, <2>1, <3>1, <3>2
  <2>2. CASE ~(key = "http_redirection" /\ value # <<>> /\ Rest(value) # <<>>)
    <3>1. new.http_redirection.target = old.http_redirection.target
      BY <2>2 DEF LocationSet, key
    <3>2. Targets(E, n) = Targets(D, n)
      BY <1>5, <2>2
    <3>. QED BY <3>1, <3>2 DEF LocationAsWritten, RedirectionAsWritten
  <2>. QED BY <2>1, <2>2
<1>11. new.cgi_pass = UNION {ToSet(file[j].value) : j \in LocationLines(E, n, "cgi_pass")}
  <2>. DEFINE I == LocationLines(D, n, "cgi_pass")
  <2>1. old.cgi_pass = UNION {ToSet(file[j].value) : j \in I}
    BY DEF LocationAsWritten
  <2>2. CASE key = "cgi_pass"
    <3>1. new.cgi_pass = old.cgi_pass \cup ToSet(value)
      BY <2>2 DEF LocationSet, key
    <3>2. LocationLines(E, n, "cgi_pass") = I \cup {i}
      BY <1>1, <2>2
    <3>. HIDE DEF I
    <3>. QED BY <2>1, <3>1, <3>2
  <2>3. CASE key # "cgi_pass"
    <3>1. new.cgi_pass = old.cgi_pass /\ LocationLines(E, n, "cgi_pass") = I
      BY <1>1, <2>3 DEF LocationSet, key
    <3>. QED BY <2>1, <3>1
  <2>. QED BY <2>2, <2>3
<1>12. new.required_cookie =
         UNION {Names(file[j].value) : j \in LocationLines(E, n, "required_cookie")}
  <2>. DEFINE I == LocationLines(D, n, "required_cookie")
  <2>1. old.required_cookie = UNION {Names(file[j].value) : j \in I}
    BY DEF LocationAsWritten
  <2>2. CASE key = "required_cookie"
    <3>1. new.required_cookie = old.required_cookie \cup Names(value)
      BY <2>2 DEF LocationSet, Names, key
    <3>2. LocationLines(E, n, "required_cookie") = I \cup {i}
      BY <1>1, <2>2
    <3>. HIDE DEF I
    <3>. QED BY <2>1, <3>1, <3>2
  <2>3. CASE key # "required_cookie"
    <3>1. new.required_cookie = old.required_cookie /\ LocationLines(E, n, "required_cookie") = I
      BY <1>1, <2>3 DEF LocationSet, key
    <3>. QED BY <2>1, <3>1
  <2>. QED BY <2>2, <2>3
<1>13. ToSet(new.set_cookie) =
         {CookieOf(file[j].value) : j \in LocationLines(E, n, "set_cookie")}
  <2>. DEFINE I == LocationLines(D, n, "set_cookie")
  <2>1. ToSet(old.set_cookie) = {CookieOf(file[j].value) : j \in I}
    BY DEF LocationAsWritten
  <2>2. CASE key = "set_cookie"
    <3>1. ToSet(new.set_cookie) = ToSet(old.set_cookie) \cup {CookieOf(value)}
      BY <2>2 DEF LocationSet, key
    <3>2. LocationLines(E, n, "set_cookie") = I \cup {i}
      BY <1>1, <2>2
    <3>. HIDE DEF I
    <3>. QED BY <2>1, <3>1, <3>2
  <2>3. CASE key # "set_cookie"
    <3>1. ToSet(new.set_cookie) = ToSet(old.set_cookie) /\ LocationLines(E, n, "set_cookie") = I
      BY <1>1, <2>3 DEF LocationSet, key
    <3>. QED BY <2>1, <3>1
  <2>. QED BY <2>2, <2>3
<1>14. RedirectionAsWritten(new.http_redirection, E, n)
  BY <1>9, <1>10 DEF RedirectionAsWritten
<1>. QED BY <1>7, <1>8, <1>11, <1>12, <1>13, <1>14 DEF LocationAsWritten, E

LEMMA ServerWritten ==
  ASSUME NEW c \in Configs, NEW d, NEW i \in Nat \ {0}, NEW D \in SUBSET (1..(i - 1)),
         AsWritten(c, D), ServerSets(c, d, file[i].key, file[i].value),
         \A key : OfServer(i, key) <=> key = file[i].key,
         \A key : ~OfLocation(i, key),
         \A j \in D : LocationOf(j) # Cardinality(ServerLines(D, "location")) + 1,
         file[i].key = "location" => LocationOf(i) = Cardinality(ServerLines(D, "location")) + 1
  PROVE  AsWritten(d, D \cup {i})
<1>. DEFINE key == file[i].key
            value == file[i].value
            E == D \cup {i}
            n == Len(c.locations)
<1>1. ASSUME NEW k
      PROVE  /\ k = key => /\ ServerLines(E, k) = ServerLines(D, k) \cup {i}
                           /\ Latest(ServerLines(E, k)) = i
             /\ k # key => ServerLines(E, k) = ServerLines(D, k)
             /\ \A m : LocationLines(E, m, k) = LocationLines(D, m, k)
             /\ \A m : Latest(LocationLines(D, m, k)) \in 0..(i - 1)
  <2>1. (OfServer(i, k) <=> k = key) /\ ~OfLocation(i, k)
    OBVIOUS
  <2>. HIDE DEF key
  <2>2. /\ OfServer(i, k) => /\ ServerLines(E, k) = ServerLines(D, k) \cup {i}
                             /\ Latest(ServerLines(E, k)) = i
        /\ ~OfServer(i, k) => ServerLines(E, k) = ServerLines(D, k)
    BY OneMoreOf, Zenon
  <2>3. ASSUME NEW m
        PROVE  /\ LocationLines(E, m, k) = LocationLines(D, m, k)
               /\ Latest(LocationLines(D, m, k)) \in 0..(i - 1)
    <3>1. ~(LocationOf(i) = m /\ OfLocation(i, k))
      BY <2>1
    <3>2. LocationLines(E, m, k) = LocationLines(D, m, k)
      BY <3>1 DEF LocationLines
    <3>3. Latest(LocationLines(D, m, k)) \in 0..(i - 1)
      BY OneMoreIn
    <3>. QED BY <3>2, <3>3
  <2>. QED BY <2>1, <2>2, <2>3
<1>2. n \in Nat
  BY ConfigFields DEF LocationLists
<1>3. Cardinality(ServerLines(D, "location")) = n
  BY DEF AsWritten, SettingsWritten
<1>4. \A k : LocationLines(D, n + 1, k) = {}
  BY <1>3 DEF LocationLines
<1>5. i # 0 /\ Latest({}) = 0
  BY NoneLatest
<1>6. /\ Len(d.locations) = IF key = "location" THEN n + 1 ELSE n
      /\ \A j \in 1..n : d.locations[j] = c.locations[j]
      /\ key = "location" => d.locations[n + 1] = NewLocation(value)
  <2>1. CASE key = "location"
    <3>1. d.locations = Append(c.locations, NewLocation(value))
      BY <2>1 DEF ServerSets
    <3>. QED BY <2>1, <3>1, NewLocationAdded
  <2>2. CASE key # "location"
    BY <2>2 DEF ServerSets
  <2>. QED BY <2>1, <2>2
<1>7. \A j \in 1..Len(d.locations) : j \in 1..n \/ (key = "location" /\ j = n + 1)
  BY <1>2, <1>6
<1>8. Cardinality(ServerLines(E, "location")) = Len(d.locations)
  <2>1. CASE key = "location"
    <3>. DEFINE L == ServerLines(D, "location")
    <3>1. IsFiniteSet(L) /\ i \notin L
      BY FiniteOf
    <3>2. ServerLines(E, "location") = L \cup {i}
      BY <1>1, <2>1
    <3>. HIDE DEF L
    <3>3. Cardinality(L \cup {i}) = Cardinality(L) + 1
      BY <3>1, FS_AddElement
    <3>. QED BY <1>3, <1>6, <2>1, <3>2, <3>3 DEF L
  <2>2. CASE key # "location"
    BY <1>1, <1>3, <1>6, <2>2
  <2>. QED BY <2>1, <2>2
<1>. HIDE DEF key, E, n
<1>9. SettingsWritten(d, E)
  <2>1. ServerAsWritten(d, E)
    <3>1. ServerAsWritten(c, D) /\ \A k : OfServer(i, k) <=> k = file[i].key
      BY DEF AsWritten, SettingsWritten
    <3>. QED BY <3>1, ServerFieldsWritten DEF E
  <2>2. ServerLines(D, "location") \subseteq ServerLines(E, "location")
    BY DEF ServerLines, E
  <2>3. ASSUME NEW m \in 1..Len(d.locations) PROVE LocationAsWritten(d.locations[m], E, m)
    <3>1. CASE m \in 1..n
      <4>1. LocationAsWritten(c.locations[m], D, m) /\ d.locations[m] = c.locations[m]
        BY <1>6, <3>1 DEF AsWritten, SettingsWritten, n
      <4>2. \A k : LocationLines(E, m, k) = LocationLines(D, m, k)
        BY <1>1
      <4>. QED BY <2>2, <4>1, <4>2, LocationKept
    <3>2. CASE key = "location" /\ m = n + 1
      <4>1. i \in ServerLines(E, "location")
        BY <1>1, <3>2
      <4>2. LocationOf(i) = m
        BY <1>3, <3>2 DEF key
      <4>3. \A k : LocationLines(E, m, k) = {}
        BY <1>1, <1>4, <3>2
      <4>. QED BY <1>6, <3>2, <4>1, <4>2, <4>3, NewLocationWritten
    <3>. QED BY <1>7, <3>1, <3>2
  <2>. QED BY <1>8, <2>1, <2>3 DEF SettingsWritten
<1>10. NumbersWritten(d, E)
  <2>. DEFINE p == Latest(ServerLines(E, "port"))
              m == Latest(ServerLines(E, "client_max_body_size"))
  <2>1. /\ p = 0 => d.port = 8080
        /\ p # 0 => IF file[p].value = <<>> THEN d.port \in Garbage
                    ELSE d.port = Number[file[p].value[1]]
    <3>1. CASE key = "port"
      BY <1>1, <1>5, <3>1 DEF ServerSets, key
    <3>2. CASE key # "port"
      <4>1. d.port = c.port /\ ServerLines(E, "port") = ServerLines(D, "port")
        BY <1>1, <3>2 DEF ServerSets, key
      <4>. QED BY <4>1 DEF AsWritten, NumbersWritten
    <3>. QED BY <3>1, <3>2
  <2>2. /\ m = 0 => d.clientBodySize = Kilo * Kilo
        /\ m # 0 /\ SizeOf(file[m].value) \in Sizes => d.clientBodySize = SizeOf(file[m].value)
    <3>1. CASE key = "client_max_body_size"
      <4>1. m = i
        BY <1>1, <3>1
      <4>2. SizeOf(value) \in Sizes => d.clientBodySize = SizeOf(value)
        BY <3>1 DEF ServerSets, key
      <4>. QED BY <1>5, <4>1, <4>2
    <3>2. CASE key # "client_max_body_size"
      <4>1. d.clientBodySize = c.clientBodySize
            /\ ServerLines(E, "client_max_body_size") = ServerLines(D, "client_max_body_size")
        BY <1>1, <3>2 DEF ServerSets, key
      <4>. QED BY <4>1 DEF AsWritten, NumbersWritten
    <3>. QED BY <3>1, <3>2
  <2>. QED BY <2>1, <2>2 DEF NumbersWritten
<1>11. MethodsWritten(d, E)
  <2>1. ASSUME NEW m \in 1..Len(d.locations)
        PROVE  LET r == Latest(LocationLines(E, m, "http_methods"))
                   methods == ToSet(d.locations[m].http_methods)
               IN IF r = 0 THEN methods = Methods
                  ELSE /\ methods = ToSet(file[r].value)
                       /\ Latest(ServerLines(E, "allowed_methods")) < r =>
                            methods \subseteq ToSet(d.allowedMethods)
    <3>. DEFINE r == Latest(LocationLines(E, m, "http_methods"))
    <3>1. /\ LocationLines(E, m, "http_methods") = LocationLines(D, m, "http_methods")
          /\ r \in 0..(i - 1)
      BY <1>1
    <3>2. CASE m \in 1..n
      <4>1. d.locations[m] = c.locations[m]
        BY <1>6, <3>2
      <4>2. Latest(ServerLines(E, "allowed_methods")) < r =>
              /\ ServerLines(E, "allowed_methods") = ServerLines(D, "allowed_methods")
              /\ d.allowedMethods = c.allowedMethods
        <5>1. CASE key = "allowed_methods"
          <6>1. Latest(ServerLines(E, "allowed_methods")) = i
            BY <1>1, <5>1
          <6>2. ~(i < r)
            BY <3>1
          <6>. QED BY <6>1, <6>2
        <5>2. CASE key # "allowed_methods"
          BY <1>1, <5>2 DEF ServerSets, key
        <5>. QED BY <5>1, <5>2
      <4>3. LET methods == ToSet(c.locations[m].http_methods)
            IN IF r = 0 THEN methods = Methods
               ELSE /\ methods = ToSet(file[r].value)
                    /\ Latest(ServerLines(D, "allowed_methods")) < r =>
                         methods \subseteq ToSet(c.allowedMethods)
        BY <3>1, <3>2 DEF AsWritten, MethodsWritten, n
      <4>. HIDE DEF r
      <4>4. LET methods == ToSet(c.locations[m].http_methods)
            IN IF r = 0 THEN methods = Methods
               ELSE /\ methods = ToSet(file[r].value)
                    /\ Latest(ServerLines(E, "allowed_methods")) < r =>
                         methods \subseteq ToSet(d.allowedMethods)
        BY <4>2, <4>3
      <4>. QED BY <4>1, <4>4 DEF r
    <3>3. CASE key = "location" /\ m = n + 1
      <4>1. \A path : NewLocation(path).http_methods = DefaultMethods
        BY DEF NewLocation
      <4>2. r = 0 /\ ToSet(d.locations[m].http_methods) = Methods
        BY <1>4, <1>5, <1>6, <3>1, <3>3, <4>1, AllMethods
      <4>. QED BY <4>2
    <3>. QED BY <1>7, <3>2, <3>3
  <2>. QED BY <2>1 DEF MethodsWritten
<1>. QED BY <1>9, <1>10, <1>11 DEF AsWritten, E

LEMMA LocationWritten ==
  ASSUME NEW c \in Configs, NEW d, NEW i \in Nat \ {0}, NEW D \in SUBSET (1..(i - 1)),
         AsWritten(c, D), LocationSets(c, d, file[i].key, file[i].value),
         \A key : ~OfServer(i, key),
         \A key : OfLocation(i, key) <=> key = file[i].key,
         LocationOf(i) = Cardinality(ServerLines(D, "location"))
  PROVE  AsWritten(d, D \cup {i})
<1>. DEFINE key == file[i].key
            value == file[i].value
            E == D \cup {i}
            n == Len(c.locations)
<1>1. n \in Nat /\ i # 0
  BY ConfigFields DEF LocationLists
<1>2. LocationOf(i) = n
  BY DEF AsWritten, SettingsWritten
<1>3. ASSUME NEW k
      PROVE  /\ ServerLines(E, k) = ServerLines(D, k) /\ Latest(ServerLines(D, k)) \in 0..(i - 1)
             /\ k = key => Latest(LocationLines(E, n, k)) = i
             /\ \A m : k # key \/ m # n => LocationLines(E, m, k) = LocationLines(D, m, k)
  <2>1. ~OfServer(i, k) /\ (OfLocation(i, k) <=> k = key)
    OBVIOUS
  <2>. HIDE DEF key, n
  <2>2. ServerLines(E, k) = ServerLines(D, k) /\ Latest(ServerLines(D, k)) \in 0..(i - 1)
    BY <2>1, OneMoreOf, Zenon
  <2>3. OfLocation(i, k) => Latest(LocationLines(E, n, k)) = i
    BY <1>2, OneMoreIn, Zenon
  <2>4. ASSUME NEW m, ~(OfLocation(i, k) /\ m = n)
        PROVE  LocationLines(E, m, k) = LocationLines(D, m, k)
    <3>1. ~(LocationOf(i) = m /\ OfLocation(i, k))
      BY <1>2, <2>4
    <3>. QED BY <3>1 DEF LocationLines
  <2>. QED BY <2>1, <2>2, <2>3, <2>4
<1>4. /\ d.port = c.port /\ d.clientBodySize = c.clientBodySize
      /\ d.allowedMethods = c.allowedMethods /\ Len(d.locations) = n
  BY DEF LocationSets, Same
<1>5. ASSUME NEW m \in 1..n
      PROVE  /\ m = n => LocationSet(c.locations[n], d.locations[n], key, value,
                                    ToSet(c.allowedMethods))
             /\ m # n => d.locations[m] = c.locations[m]
             /\ LocationAsWritten(c.locations[m], D, m)
  BY DEF LocationSets, AsWritten, SettingsWritten
<1>. HIDE DEF key, E, n
<1>6. SettingsWritten(d, E)
  <2>1. ServerAsWritten(d, E)
    BY <1>3, ServerFieldsKept DEF LocationSets, AsWritten, SettingsWritten
  <2>2. ASSUME NEW m \in 1..n PROVE LocationAsWritten(d.locations[m], E, m)
    <3>1. CASE m = n
      <4>1. /\ LocationAsWritten(c.locations[n], D, n)
            /\ LocationSet(c.locations[n], d.locations[n], file[i].key, file[i].value,
                           ToSet(c.allowedMethods))
        BY <1>5, <3>1 DEF key
      <4>2. \A k : ~OfServer(i, k)
        OBVIOUS
      <4>3. \A k : OfLocation(i, k) <=> k = file[i].key
        OBVIOUS
      <4>. QED BY <1>2, <3>1, <4>1, <4>2, <4>3, LocationFieldsWritten DEF E
    <3>2. CASE m # n
      <4>1. LocationAsWritten(c.locations[m], D, m) /\ d.locations[m] = c.locations[m]
        BY <1>5, <3>2
      <4>2. /\ \A k : LocationLines(E, m, k) = LocationLines(D, m, k)
            /\ ServerLines(E, "location") = ServerLines(D, "location")
        BY <1>3, <3>2
      <4>. QED BY <4>1, <4>2, LocationKept
    <3>. QED BY <3>1, <3>2
  <2>3. Len(d.locations) = Cardinality(ServerLines(E, "location"))
    BY <1>3, <1>4 DEF AsWritten, SettingsWritten, n
  <2>. QED BY <1>4, <2>1, <2>2, <2>3 DEF SettingsWritten
<1>7. NumbersWritten(d, E)
  BY <1>3, <1>4 DEF AsWritten, NumbersWritten
<1>8. MethodsWritten(d, E)
  <2>1. ASSUME NEW m \in 1..n
        PROVE  LET r == Latest(LocationLines(E, m, "http_methods"))
                   methods == ToSet(d.locations[m].http_methods)
               IN IF r = 0 THEN methods = Methods
                  ELSE /\ methods = ToSet(file[r].value)
                       /\ Latest(ServerLines(E, "allowed_methods")) < r =>
                            methods \subseteq ToSet(d.allowedMethods)
    <3>1. CASE m = n /\ key = "http_methods"
      <4>1. Latest(LocationLines(E, m, "http_methods")) = i
        BY <1>3, <3>1
      <4>2. ToSet(d.locations[m].http_methods) = ToSet(value)
            /\ ToSet(value) \subseteq ToSet(c.allowedMethods)
        BY <1>5, <3>1 DEF LocationSet
      <4>. QED BY <1>1, <1>4, <4>1, <4>2
    <3>2. CASE ~(m = n /\ key = "http_methods")
      <4>1. /\ LocationLines(E, m, "http_methods") = LocationLines(D, m, "http_methods")
            /\ d.locations[m].http_methods = c.locations[m].http_methods
            /\ ServerLines(E, "allowed_methods") = ServerLines(D, "allowed_methods")
        BY <1>3, <1>5, <3>2 DEF LocationSet
      <4>. QED BY <1>4, <4>1 DEF AsWritten, MethodsWritten, n
    <3>. QED BY <3>1, <3>2
  <2>. QED BY <1>4, <2>1 DEF MethodsWritten
<1>. QED BY <1>6, <1>7, <1>8 DEF AsWritten, E

------------------------------------------------------------------------------
(* The location a line belongs to is the last one its server has so far. *)

OneLevel(n) == \A i \in 1..n : IsAt(file[i]) => OfServer(i, "location")

LEMMA SameHeader ==
  ASSUME NEW i \in Nat \ {0}, ServerOf(i) # 0
  PROVE  \E h \in 1..i : /\ h = Max({1} \cup {j \in 1..i : file[j] = Server})
                         /\ \A l \in 1..i : l \in h..i <=> ServerOf(l) = ServerOf(i)
<1>. DEFINE H == {j \in 1..i : file[j] = Server}
<1>0. \A n \in Nat : ServerOf(n) = Cardinality({j \in 1..n : file[j] = Server})
  BY DEF ServerOf, Count
<1>1. H # {}
  <2>1. ASSUME H = {} PROVE ServerOf(i) = 0
    <3>1. ServerOf(i) = Cardinality({})
      BY <1>0, <2>1
    <3>. QED BY <3>1, FS_EmptySet
  <2>. QED BY <2>1
<1>2. PICK h \in H : \A j \in H : j <= h
  BY <1>1, MaxFacts
<1>3. h \in 1..i /\ file[h] = Server
  OBVIOUS
<1>4. Max({1} \cup H) = h
  <2>1. {1} \cup H \in SUBSET Int /\ h \in {1} \cup H /\ \A j \in {1} \cup H : j <= h
    BY <1>2
  <2>. HIDE DEF H
  <2>. QED BY <2>1, MaxIs
<1>5. ASSUME NEW l \in h..i PROVE ServerOf(l) = ServerOf(i)
  <2>1. l \in Nat /\ {j \in 1..l : file[j] = Server} = {j \in 1..i : file[j] = Server}
    BY <1>2, <1>3
  <2>. QED BY <1>0, <2>1
<1>6. ASSUME NEW l \in 1..(h - 1) PROVE ServerOf(l) # ServerOf(i)
  <2>1. h - 1 \in Nat /\ l \in 0..(h - 1) /\ h - 1 + 1 = h
    BY <1>3
  <2>2. ServerOf(l) \in Nat /\ ServerOf(l) <= ServerOf(h - 1)
    BY <2>1, ServersGrow
  <2>3. ServerOf(h) = ServerOf(h - 1) + 1 /\ ServerOf(h - 1) \in Nat
    BY <1>3, <2>1, DepthFacts
  <2>4. ServerOf(h) = ServerOf(i)
    BY <1>3, <1>5
  <2>. QED BY <2>2, <2>3, <2>4
<1>7. \A l \in 1..i : l \in h..i \/ l \in 1..(h - 1)
  BY <1>3
<1>. QED BY <1>3, <1>4, <1>5, <1>6, <1>7

LEMMA LocationAt ==
  ASSUME NEW i \in Nat \ {0}, ServerOf(i) # 0, OneLevel(i)
  PROVE  LocationOf(i) = Cardinality(ServerLines(Lines(ServerOf(i), i), "location"))
<1>1. PICK h \in 1..i : /\ h = Max({1} \cup {j \in 1..i : file[j] = Server})
                        /\ \A l \in 1..i : l \in h..i <=> ServerOf(l) = ServerOf(i)
  BY SameHeader
<1>2. LocationOf(i) = Cardinality({l \in h..i : IsAt(file[l])})
  BY <1>1 DEF LocationOf, Count
<1>3. \A l \in h..i : l \in 1..i
  OBVIOUS
<1>4. {l \in h..i : IsAt(file[l])} = {l \in 1..i : ServerOf(l) = ServerOf(i) /\ IsAt(file[l])}
  BY <1>1, <1>3
<1>5. \A l \in 1..i : IsAt(file[l]) => LabelLine(ServerOf(l), l) /\ OfServer(l, "location")
  <2>1. ~IsAt(Open) /\ ~IsAt(Close)
    BY AtIsLocation, Kinds
  <2>. QED BY <2>1 DEF OneLevel, LabelLine, OfServer
<1>6. \A l \in 1..i : OfServer(l, "location") => IsAt(file[l])
  BY DEF OfServer, IsAt
<1>7. \A l \in 1..i : LabelLine(ServerOf(i), l) => ServerOf(l) = ServerOf(i)
  BY DEF LabelLine
<1>8. {l \in 1..i : ServerOf(l) = ServerOf(i) /\ IsAt(file[l])}
        = ServerLines(Lines(ServerOf(i), i), "location")
  BY <1>5, <1>6, <1>7 DEF ServerLines, Lines
<1>. QED BY <1>2, <1>4, <1>8

LEMMA OneLevelOf ==
  ASSUME Nested, \A i \in 1..Len(file) : Depth(i) = 2 => ~IsLocation(file[i])
  PROVE  OneLevel(Len(file))
<1>. SUFFICES ASSUME NEW i \in 1..Len(file), IsAt(file[i]) PROVE OfServer(i, "location")
  BY DEF OneLevel
<1>1. IsLocation(file[i]) /\ ~IsComment(file[i])
  BY AtIsLocation
<1>2. Depth(i) \in 0..2 /\ (Depth(i) = 0 => file[i] \in {Server, Open})
  BY <1>1 DEF Nested
<1>3. Depth(i) = 1
  BY <1>1, <1>2, Kinds
<1>. QED BY <1>1, <1>3 DEF OfServer, IsAt

(* Adding the label of the next line of a server makes its Config say what the lines up
   to this one do. *)
LEMMA LineWritten ==
  ASSUME NEW c \in Configs, file \in Seq(Label), NEW k \in Nat \ {0}, NEW n \in Nat,
         NEW i \in (n + 1)..Len(file), LabelLine(k, i),
         \A j \in (n + 1)..(i - 1) : ~LabelLine(k, j),
         OneLevel(Len(file)), \A j \in 1..Len(file) : Depth(j) = 2 => ~IsLocation(file[j]),
         AsWritten(c, Lines(k, n)), NEW o \in Add(c, LabelOf(i)), o.end = "ok"
  PROVE  AsWritten(o.config, Lines(k, i))
<1>. DEFINE D == Lines(k, n)
            L == ServerLines(D, "location")
<1>0. Len(file) \in Nat /\ i \in Nat \ {0} /\ i \in 1..Len(file) /\ n < i
  OBVIOUS
<1>1. D \in SUBSET (1..(i - 1)) /\ Lines(k, i) = D \cup {i}
  <2>1. \A j : j \in 1..i <=> j \in 1..n \/ j \in (n + 1)..(i - 1) \/ j = i
    OBVIOUS
  <2>2. \A j \in 1..n : j \in 1..(i - 1)
    OBVIOUS
  <2>. QED BY <2>1, <2>2 DEF Lines
<1>2. /\ ServerOf(i) = k /\ Depth(i) \in {1, 2} /\ ~IsComment(file[i])
      /\ \A j \in D : ServerOf(j) = k /\ j \in 1..n
  BY DEF LabelLine, Lines
<1>3. /\ file[i] \in Label /\ file[i].prefixed \in BOOLEAN /\ file[i].value \in Values
      /\ file[i].key \in Keys
  <2>1. file[i] \in Label
    BY <1>0
  <2>. QED BY <2>1, LabelFacts DEF Values
<1>4. \A j \in 1..Len(file) : OneLevel(j)
  <2>1. \A j \in 1..Len(file) : \A l \in 1..j : l \in 1..Len(file)
    BY <1>0
  <2>. QED BY <2>1 DEF OneLevel
<1>5. IsFiniteSet(L) /\ Cardinality(L) \in Nat
  <2>1. IsFiniteSet(L)
    BY <1>0, <1>1, FiniteOf
  <2>. QED BY <2>1, FS_CardinalityType
<1>6. ASSUME NEW j \in D PROVE LocationOf(j) # Cardinality(L) + 1
  <2>1. j \in Nat \ {0} /\ j \in 1..Len(file) /\ ServerOf(j) = k /\ j <= n
    BY <1>0, <1>2
  <2>2. LocationOf(j) = Cardinality(ServerLines(Lines(k, j), "location"))
    BY <1>4, <2>1, LocationAt
  <2>3. ServerLines(Lines(k, j), "location") \subseteq L
    <3>1. \A l \in 1..j : l \in 1..n
      BY <2>1
    <3>. QED BY <3>1 DEF ServerLines, Lines
  <2>. HIDE DEF L
  <2>4. Cardinality(ServerLines(Lines(k, j), "location")) <= Cardinality(L)
        /\ Cardinality(ServerLines(Lines(k, j), "location")) \in Nat
    BY <1>5, <2>3, FS_Subset, FS_CardinalityType
  <2>. QED BY <1>5, <2>2, <2>4
<1>7. LocationOf(i) = Cardinality(ServerLines(D \cup {i}, "location"))
  BY <1>0, <1>1, <1>2, <1>4, LocationAt
<1>8. AsWritten(c, D) /\ \A j \in D : LocationOf(j) # Cardinality(ServerLines(D, "location")) + 1
  BY <1>6
<1>9. CASE Depth(i) = 1 /\ ~file[i].prefixed
  <2>1. o \in AddToServer(c, file[i].key, file[i].value)
    BY <1>9 DEF Add, LabelOf
  <2>2. ServerSets(c, o.config, file[i].key, file[i].value)
    BY <1>3, <2>1, ServerSetting
  <2>3. \A key : (OfServer(i, key) <=> key = file[i].key) /\ ~OfLocation(i, key)
    BY <1>2, <1>9 DEF OfServer, OfLocation
  <2>4. AsWritten(o.config, D \cup {i})
    <3>1. i \in Nat \ {0} /\ D \in SUBSET (1..(i - 1))
      BY <1>0, <1>1
    <3>2. \A key : OfServer(i, key) <=> key = file[i].key
      BY <2>3
    <3>3. \A key : ~OfLocation(i, key)
      BY <2>3
    <3>4. file[i].key = "location" =>
            LocationOf(i) = Cardinality(ServerLines(D, "location")) + 1
      <4>1. SUFFICES ASSUME file[i].key = "location"
                     PROVE  LocationOf(i) = Cardinality(L) + 1
        OBVIOUS
      <4>2. ServerLines(D \cup {i}, "location") = L \cup {i} /\ i \notin L
        BY <2>3, <3>1, <4>1, OneMoreOf, FiniteOf
      <4>. HIDE DEF L, D
      <4>. QED BY <1>5, <1>7, <4>2, FS_AddElement
    <3>. HIDE DEF D
    <3>. QED BY <1>8, <2>2, <3>1, <3>2, <3>3, <3>4, ServerWritten
  <2>. QED BY <1>1, <2>4
<1>10. CASE ~(Depth(i) = 1 /\ ~file[i].prefixed)
  <2>1. o \in AddToLocation(c, file[i].key, file[i].value)
    <3>1. CASE Depth(i) = 1
      BY <1>10, <3>1 DEF Add, LabelOf
    <3>2. CASE Depth(i) = 2
      <4>1. ~IsLocation(file[i])
        BY <1>0, <3>2
      <4>. DEFINE l == [file[i] EXCEPT !.prefixed = TRUE]
      <4>2. LabelOf(i) = l
        BY <3>2, <4>1 DEF LabelOf, InLocation
      <4>3. l.prefixed /\ l.key = file[i].key /\ l.value = file[i].value
        BY <1>3 DEF Label
      <4>. HIDE DEF l
      <4>. QED BY <4>2, <4>3 DEF Add
    <3>. QED BY <1>2, <3>1, <3>2
  <2>2. LocationSets(c, o.config, file[i].key, file[i].value)
    BY <1>3, <2>1, LocationSetting
  <2>3. \A key : ~OfServer(i, key) /\ (OfLocation(i, key) <=> key = file[i].key)
    <3>1. Depth(i) = 2 => ~file[i].prefixed
      BY <1>0 DEF IsLocation
    <3>. QED BY <1>2, <1>10, <3>1 DEF OfServer, OfLocation
  <2>4. LocationOf(i) = Cardinality(L)
    <3>1. ServerLines(D \cup {i}, "location") = ServerLines(D, "location")
      BY <2>3 DEF ServerLines
    <3>. QED BY <1>7, <3>1
  <2>5. AsWritten(o.config, D \cup {i})
    <3>1. i \in Nat \ {0} /\ D \in SUBSET (1..(i - 1))
      BY <1>0, <1>1
    <3>2. \A key : ~OfServer(i, key)
      BY <2>3
    <3>3. \A key : OfLocation(i, key) <=> key = file[i].key
      BY <2>3
    <3>. HIDE DEF D
    <3>. QED BY <1>8, <2>2, <2>4, <3>1, <3>2, <3>3, LocationWritten
  <2>. QED BY <1>1, <2>5
<1>. QED BY <1>9, <1>10

LEMMA NewConfigWritten == AsWritten(NewConfig, {})
<1>1. /\ NewConfig.mainRoot = <<".">> /\ NewConfig.locations = <<>> /\ NewConfig.port = 8080
      /\ NewConfig.clientBodySize = Kilo * Kilo /\ NewConfig.uploadPath = <<"/uploads">>
      /\ NewConfig.serverNames = <<>> /\ NewConfig.index = {"index.html"}
      /\ NewConfig.allowedMethods = DefaultMethods /\ NewConfig.errorPages = <<>>
  BY DEF NewConfig
<1>2. \A key : ServerLines({}, key) = {}
  BY DEF ServerLines
<1>3. \A key, default : Given(ServerLines({}, key), default) = default
  BY <1>2, NoneLatest DEF Given
<1>4. Len(NewConfig.locations) = 0 /\ Cardinality({}) = 0 /\ 1..0 = {}
  BY <1>1, FS_EmptySet
<1>5. ServerAsWritten(NewConfig, {})
  <2>1. ToSet(<<"index.html">>) = {"index.html"}
    BY DEF ToSet
  <2>2. \A code : PagesFor({}, code) = {}
    BY <1>2 DEF PagesFor
  <2>3. DOMAIN NewConfig.errorPages = {}
    BY <1>1
  <2>4. /\ Given(ServerLines({}, "root"), <<".">>) = <<".">>
        /\ Given(ServerLines({}, "upload_path"), <<"/uploads">>) = <<"/uploads">>
        /\ Given(ServerLines({}, "server_name"), <<>>) = <<>>
    BY <1>3
  <2>5. Given(ServerLines({}, "index"), <<"index.html">>) = <<"index.html">>
    BY <1>3
  <2>6. Given(ServerLines({}, "allowed_methods"), DefaultMethods) = DefaultMethods
    BY <1>3
  <2>7. \A code : code \notin DOMAIN NewConfig.errorPages
    BY <2>3
  <2>8. PagesAsWritten(NewConfig.errorPages, {})
    BY <2>2, <2>7 DEF PagesAsWritten
  <2>9. /\ NewConfig.mainRoot = Given(ServerLines({}, "root"), <<".">>)
        /\ NewConfig.uploadPath = Given(ServerLines({}, "upload_path"), <<"/uploads">>)
        /\ NewConfig.serverNames = Given(ServerLines({}, "server_name"), <<>>)
    BY <1>1, <2>4
  <2>10. NewConfig.index = ToSet(Given(ServerLines({}, "index"), <<"index.html">>))
    BY <1>1, <2>1, <2>5
  <2>11. ToSet(NewConfig.allowedMethods) =
           ToSet(Given(ServerLines({}, "allowed_methods"), DefaultMethods))
    BY <1>1, <2>6
  <2>. QED BY <2>8, <2>9, <2>10, <2>11, Zenon DEF ServerAsWritten
<1>6. SettingsWritten(NewConfig, {})
  BY <1>2, <1>4, <1>5 DEF SettingsWritten
<1>7. /\ Latest(ServerLines({}, "port")) = 0
      /\ Latest(ServerLines({}, "client_max_body_size")) = 0
  BY <1>2, NoneLatest, Zenon
<1>8. NumbersWritten(NewConfig, {})
  BY <1>1, <1>7 DEF NumbersWritten
<1>9. MethodsWritten(NewConfig, {})
  BY <1>4 DEF MethodsWritten
<1>. QED BY <1>6, <1>8, <1>9 DEF AsWritten

LEMMA FrozenSettings ==
  ASSUME file' = file
  PROVE  /\ \A c, D : AsWritten(c, D)' = AsWritten(c, D)
         /\ \A i, key : /\ OfServer(i, key)' = OfServer(i, key)
                        /\ OfLocation(i, key)' = OfLocation(i, key)
<1>1. \A i : Depth(i)' = Depth(i) /\ LocationOf(i)' = LocationOf(i)
  BY DEF Depth, LocationOf, Count
<1>2. \A i, key : OfServer(i, key)' = OfServer(i, key) /\ OfLocation(i, key)' = OfLocation(i, key)
  BY <1>1 DEF OfServer, OfLocation
<1>3. /\ \A D, key : ServerLines(D, key)' = ServerLines(D, key)
      /\ \A D, n, key : LocationLines(D, n, key)' = LocationLines(D, n, key)
  BY <1>1, <1>2 DEF ServerLines, LocationLines
<1>4. \A c, D : SettingsWritten(c, D)' = SettingsWritten(c, D)
  <2>1. \A c, D : ServerAsWritten(c, D)' = ServerAsWritten(c, D)
    <3>1. \A I, x : Latest(I)' = Latest(I) /\ Given(I, x)' = Given(I, x)
      BY DEF Latest, Given
    <3>2. \A D, code : PagesFor(D, code)' = PagesFor(D, code)
      BY <1>3 DEF PagesFor
    <3>3. \A D, key, x : Given(ServerLines(D, key), x)' = Given(ServerLines(D, key), x)
      BY <1>3, <3>1
    <3>4. ASSUME NEW c, NEW D
          PROVE  PagesAsWritten(c.errorPages, D)' <=> PagesAsWritten(c.errorPages, D)
      BY <3>1, <3>2 DEF PagesAsWritten
    <3>5. ASSUME NEW c, NEW D PROVE ServerAsWritten(c, D)' <=> ServerAsWritten(c, D)
      <4>1. /\ Given(ServerLines(D, "root"), <<".">>)' = Given(ServerLines(D, "root"), <<".">>)
            /\ Given(ServerLines(D, "upload_path"), <<"/uploads">>)'
                 = Given(ServerLines(D, "upload_path"), <<"/uploads">>)
            /\ Given(ServerLines(D, "server_name"), <<>>)'
                 = Given(ServerLines(D, "server_name"), <<>>)
        BY <3>3
      <4>2. ToSet(Given(ServerLines(D, "index"), <<"index.html">>))'
              = ToSet(Given(ServerLines(D, "index"), <<"index.html">>))
        BY <3>3
      <4>3. ToSet(Given(ServerLines(D, "allowed_methods"), DefaultMethods))'
              = ToSet(Given(ServerLines(D, "allowed_methods"), DefaultMethods))
        BY <3>3
      <4>. QED BY <3>4, <4>1, <4>2, <4>3 DEF ServerAsWritten
    <3>. QED BY <3>5, Zenon
  <2>2. \A D, n : Codes(D, n)' = Codes(D, n) /\ Targets(D, n)' = Targets(D, n)
    BY <1>3 DEF Codes, Targets
  <2>3. \A l, D, n : LocationAsWritten(l, D, n)' = LocationAsWritten(l, D, n)
    <3>1. \A I, x : Latest(I)' = Latest(I) /\ Given(I, x)' = Given(I, x)
      BY DEF Latest, Given
    <3>2. ASSUME NEW l, NEW D, NEW n
          PROVE  RedirectionAsWritten(l.http_redirection, D, n)'
                   <=> RedirectionAsWritten(l.http_redirection, D, n)
      BY <2>2, <3>1 DEF RedirectionAsWritten
    <3>3. ASSUME NEW l, NEW D, NEW n
          PROVE  LocationAsWritten(l, D, n)' <=> LocationAsWritten(l, D, n)
      <4>1. (\E i \in ServerLines(D, "location") : LocationOf(i) = n /\ l.location = file[i].value)'
              <=> \E i \in ServerLines(D, "location") :
                     LocationOf(i) = n /\ l.location = file[i].value
        BY <1>1, <1>3
      <4>2. \A key : Given(LocationLines(D, n, key), <<>>)' = Given(LocationLines(D, n, key), <<>>)
        BY <1>3, <3>1
      <4>3. \A key : UNION {ToSet(file[i].value) : i \in LocationLines(D, n, key)}'
                       = UNION {ToSet(file[i].value) : i \in LocationLines(D, n, key)}
        BY <1>3
      <4>4. \A key : UNION {Names(file[i].value) : i \in LocationLines(D, n, key)}'
                       = UNION {Names(file[i].value) : i \in LocationLines(D, n, key)}
        BY <1>3
      <4>5. \A key : {CookieOf(file[i].value) : i \in LocationLines(D, n, key)}'
                       = {CookieOf(file[i].value) : i \in LocationLines(D, n, key)}
        BY <1>3
      <4>. QED BY <3>2, <4>1, <4>2, <4>3, <4>4, <4>5 DEF LocationAsWritten
    <3>. QED BY <3>3, Zenon
  <2>. QED BY <1>3, <2>1, <2>3 DEF SettingsWritten
<1>5. \A c, D : NumbersWritten(c, D)' = NumbersWritten(c, D)
  BY <1>3 DEF NumbersWritten
<1>6. \A c, D : MethodsWritten(c, D)' = MethodsWritten(c, D)
  BY <1>3 DEF MethodsWritten
<1>. QED BY <1>2, <1>4, <1>5, <1>6 DEF AsWritten

------------------------------------------------------------------------------
(* Configuring: every Config says what the lines of its server do; the one being filled in
   says what those up to a line n do, and the labels left are the lines behind it. *)

Half(c, b, k) == \E n \in 0..Len(file) : AsWritten(c, Lines(k, n)) /\ Written(b, LinesFrom(k, n))

Filling ==
  /\ \A i \in 1..Len(file) : Depth(i) = 2 => ~IsLocation(file[i])
  /\ \A k \in 1..Len(data) : AsWritten(data[k], Lines(k, Len(file)))
  /\ servers # <<>> => Half(config, servers[1], Len(data) + 1)
  /\ \A j \in 2..Len(servers) : Written(servers[j], Lines(Len(data) + j, Len(file)))

Fills == pc \in Added => AnyRefused(Blocks) \/ Filling

LEMMA StillFilling ==
  ASSUME file' = file,
         \A i \in 1..Len(file) : Depth(i) = 2 => ~IsLocation(file[i]),
         \A k \in 1..Len(data') : AsWritten(data'[k], Lines(k, Len(file))),
         servers' # <<>> => Half(config', servers'[1], Len(data') + 1),
         \A j \in 2..Len(servers') : Written(servers'[j], Lines(Len(data') + j, Len(file)))
  PROVE  Filling'
<1>1. (\A i \in 1..Len(file) : Depth(i) = 2 => ~IsLocation(file[i]))'
  BY Frozen DEF IsLocation
<1>2. (\A k \in 1..Len(data) : AsWritten(data[k], Lines(k, Len(file))))'
  BY FrozenLines, FrozenSettings
<1>3. \A c, b, k : Half(c, b, k)' = Half(c, b, k)
  BY FrozenLines, FrozenSettings DEF Half
<1>4. (servers # <<>> => Half(config, servers[1], Len(data) + 1))'
  BY <1>3
<1>5. (\A j \in 2..Len(servers) : Written(servers[j], Lines(Len(data) + j, Len(file))))'
  BY FrozenLines
<1>. QED BY <1>1, <1>2, <1>4, <1>5 DEF Filling

LEMMA FirstHalf ==
  ASSUME Len(file) \in Nat, NEW b, NEW k, Written(b, Lines(k, Len(file)))
  PROVE  Half(NewConfig, b, k)
<1>1. Lines(k, 0) = {} /\ LinesFrom(k, 0) = Lines(k, Len(file)) /\ 0 \in 0..Len(file)
  BY DEF Lines, LinesFrom
<1>. QED BY <1>1, NewConfigWritten DEF Half

LEMMA LastHalf ==
  ASSUME Len(file) \in Nat, NEW c, NEW k, Half(c, <<>>, k) PROVE AsWritten(c, Lines(k, Len(file)))
<1>1. PICK n \in 0..Len(file) : AsWritten(c, Lines(k, n)) /\ Written(<<>>, LinesFrom(k, n))
  BY DEF Half
<1>2. LinesFrom(k, n) = {}
  BY <1>1, WrittenNone
<1>3. \A i : i \in 1..Len(file) <=> i \in 1..n \/ i \in (n + 1)..Len(file)
  OBVIOUS
<1>4. Lines(k, n) = Lines(k, Len(file))
  BY <1>2, <1>3 DEF Lines, LinesFrom
<1>. QED BY <1>1, <1>4

LEMMA NextHalf ==
  ASSUME NEW c \in Configs, file \in Seq(Label), NEW k \in Nat \ {0},
         NEW b \in Seq(Label), b # <<>>,
         Half(c, b, k), NEW o \in Add(c, b[1]), o.end = "ok",
         OneLevel(Len(file)), \A j \in 1..Len(file) : Depth(j) = 2 => ~IsLocation(file[j])
  PROVE  Half(o.config, Tail(b), k)
<1>1. PICK n \in 0..Len(file) : AsWritten(c, Lines(k, n)) /\ Written(b, LinesFrom(k, n))
  BY DEF Half
<1>2. Len(file) \in Nat /\ n \in Nat /\ LinesFrom(k, n) \in SUBSET Nat
  BY DEF LinesFrom
<1>3. PICK i \in LinesFrom(k, n) :
        /\ b[1] = LabelOf(i) /\ \A j \in LinesFrom(k, n) \ {i} : i < j
        /\ Written(Tail(b), LinesFrom(k, n) \ {i})
  <2>. DEFINE I == LinesFrom(k, n)
  <2>1. I \in SUBSET Nat /\ Written(b, I)
    BY <1>1, <1>2
  <2>. HIDE DEF I
  <2>2. \E i \in I : /\ b[1] = LabelOf(i) /\ \A j \in I \ {i} : i < j
                    /\ Written(Tail(b), I \ {i})
    BY <2>1, WrittenFirst
  <2>. QED BY <2>2 DEF I
<1>4. i \in (n + 1)..Len(file) /\ i \in Nat /\ LabelLine(k, i)
  BY <1>2 DEF LinesFrom
<1>5. ASSUME NEW j \in (n + 1)..(i - 1) PROVE ~LabelLine(k, j)
  <2>1. j \in (n + 1)..Len(file) /\ j # i /\ ~(i < j)
    BY <1>2, <1>4
  <2>. QED BY <1>3, <2>1 DEF LinesFrom
<1>6. AsWritten(o.config, Lines(k, i))
  <2>1. o \in Add(c, LabelOf(i))
    BY <1>3
  <2>. QED BY <1>1, <1>2, <1>4, <1>5, <2>1, LineWritten
<1>7. LinesFrom(k, n) \ {i} = LinesFrom(k, i)
  <2>1. \A j : j \in (n + 1)..Len(file)
                 <=> j \in (n + 1)..(i - 1) \/ j = i \/ j \in (i + 1)..Len(file)
    BY <1>2, <1>4
  <2>2. i \notin (i + 1)..Len(file)
    BY <1>4
  <2>. QED BY <1>5, <2>1, <2>2 DEF LinesFrom
<1>8. i \in 0..Len(file)
  BY <1>2, <1>4
<1>. QED BY <1>3, <1>6, <1>7, <1>8 DEF Half

LEMMA FillsStep ==
  ASSUME IInv, IInv', Origins, Fills, [Next]_vars PROVE Fills'
<1>0. /\ TypeInv /\ TypeInv' /\ LinesOfFile /\ Parses
      /\ Len(file) \in Nat /\ Len(data) \in Nat /\ Len(servers) \in Nat
  <2>1. TypeInv /\ TypeInv' /\ LinesOfFile /\ Parses
    BY DEF IInv
  <2>. QED BY <2>1, BlocksFacts DEF TypeInv
<1>1. CASE GetLabels /\ ~EndOfFile
  <2>1. pc' \notin Added
    <3>1. CASE OpenServer
      <4>1. pc' \in {"server", "refused", "crashed"}
        BY <3>1, OpenedFacts DEF OpenServer
      <4>. QED BY <4>1 DEF Added
    <3>2. CASE OpenLocation
      <4>1. pc' \in {"location", "refused", "crashed"}
        BY <3>2, OpenedFacts DEF OpenLocation
      <4>. QED BY <4>1 DEF Added
    <3>3. CASE SkipComment \/ ServerLine \/ CloseServer \/ LocationLine \/ CloseLocation
      BY <3>3 DEF SkipComment, ServerLine, CloseServer, LocationLine, CloseLocation,
                  Reading, Added
    <3>. QED BY <1>1, <3>1, <3>2, <3>3 DEF GetLabels
  <2>. QED BY <2>1 DEF Fills
<1>2. CASE EndOfFile
  <2>1. /\ pc \in Reader /\ lines = <<>> /\ file' = file /\ labels' = labels
        /\ servers' = servers /\ data' = data /\ config' = config /\ data = <<>>
        /\ pc' = IF pc = "top" THEN "add" ELSE "refused"
    BY <1>0, <1>2 DEF EndOfFile, Reader, Parses
  <2>2. SUFFICES ASSUME Placed(Seen) PROVE Filling'
    <3>1. Blocks' = Blocks
      BY <2>1 DEF Blocks
    <3>. QED BY <2>1, <3>1 DEF Origins, Fills
  <2>3. config = NewConfig /\ Seen = Len(file) /\ Len(data) = 0
    BY <1>0, <2>1 DEF Origins, Seen
  <2>4. \A k \in 1..Len(servers) : Written(servers[k], Lines(k, Len(file)))
    <3>1. Len(Blocks) = Len(servers) + 1 /\ \A k \in 1..Len(servers) : Blocks[k] = servers[k]
      BY <1>0, BlocksFacts
    <3>2. \A k \in 1..Len(servers) : k \in 1..Len(Blocks)
      BY <1>0, <3>1
    <3>. QED BY <2>2, <2>3, <3>1, <3>2 DEF Placed
  <2>5. servers # <<>> => Half(config, servers[1], Len(data) + 1)
    <3>1. servers # <<>> => 1 \in 1..Len(servers)
      BY <1>0, EmptySeq DEF TypeInv
    <3>2. servers # <<>> => Half(NewConfig, servers[1], 1)
      BY <1>0, <2>4, <3>1, FirstHalf
    <3>. QED BY <2>3, <3>2
  <2>6. \A j \in 2..Len(servers) : Written(servers[j], Lines(Len(data) + j, Len(file)))
    <3>1. \A j \in 2..Len(servers) : j \in 1..Len(servers) /\ Len(data) + j = j
      BY <2>3
    <3>. QED BY <2>4, <3>1
  <2>7. \A i \in 1..Len(file) : Depth(i) = 2 => ~IsLocation(file[i])
    BY <2>2, <2>3 DEF Placed
  <2>8. \A k \in 1..Len(data') : AsWritten(data'[k], Lines(k, Len(file)))
    BY <2>1, <2>3
  <2>. QED BY <2>1, <2>5, <2>6, <2>7, <2>8, StillFilling
<1>3. CASE AddLabel
  <2>1. pc = "add" /\ file' = file /\ data' = data /\ servers' = [servers EXCEPT ![1] = Tail(@)]
        /\ pc' \in {"add", "refused", "crashed"}
    BY <1>0, <1>3, AddEnds DEF AddLabel
  <2>2. SUFFICES ASSUME pc' = "add", Filling, ~AnyRefused(Blocks) PROVE Filling'
    <3>1. pc' = "add" => (AnyRefused(Blocks) => AnyRefused(Blocks'))
      BY <1>0, <1>3, StillRefused
    <3>. QED BY <2>1, <3>1 DEF Fills, Added
  <2>3. Nested
    BY <1>0, <2>1, <2>2 DEF Parses, Added
  <2>4. OneLevel(Len(file)) /\ \A i \in 1..Len(file) : Depth(i) = 2 => ~IsLocation(file[i])
    BY <2>2, <2>3, OneLevelOf DEF Filling
  <2>5. /\ servers # <<>> /\ servers[1] \in Seq(Label) /\ servers[1] # <<>>
        /\ \E o \in Add(config, servers[1][1]) : config' = o.config /\ o.end = "ok"
    BY <1>0, <1>3, <2>2, AddEnds
  <2>6. PICK o \in Add(config, servers[1][1]) : config' = o.config /\ o.end = "ok"
    BY <2>5
  <2>7. /\ Len(servers') = Len(servers) /\ servers'[1] = Tail(servers[1])
        /\ \A j \in 2..Len(servers) : servers'[j] = servers[j]
    <3>. DEFINE L == Seq(Label)
                t == Tail(servers[1])
    <3>1. servers \in Seq(L) /\ t \in L /\ servers' = [servers EXCEPT ![1] = t]
      BY <1>0, <2>1, <2>5, HeadFacts DEF TypeInv
    <3>. HIDE DEF L, t
    <3>2. /\ Len(servers') = Len(servers) /\ servers'[1] = t
          /\ \A j \in 2..Len(servers) : servers'[j] = servers[j]
      BY <2>5, <3>1, ExceptFacts
    <3>. QED BY <3>2 DEF t
  <2>8. Half(config', servers'[1], Len(data') + 1)
    <3>. DEFINE b == servers[1]
                k == Len(data) + 1
    <3>1. config \in Configs /\ file \in Seq(Label) /\ k \in Nat \ {0}
      BY <1>0 DEF TypeInv
    <3>2. Half(config, b, k) /\ b \in Seq(Label) /\ b # <<>> /\ o \in Add(config, b[1])
      BY <2>2, <2>5 DEF Filling
    <3>. HIDE DEF b, k
    <3>3. Half(o.config, Tail(b), k)
      BY <2>4, <2>6, <3>1, <3>2, NextHalf
    <3>. QED BY <2>1, <2>6, <2>7, <3>3 DEF b, k
  <2>9. \A j \in 2..Len(servers') : Written(servers'[j], Lines(Len(data') + j, Len(file)))
    BY <2>1, <2>2, <2>7 DEF Filling
  <2>10. \A k \in 1..Len(data') : AsWritten(data'[k], Lines(k, Len(file)))
    BY <2>1, <2>2 DEF Filling
  <2>. QED BY <2>1, <2>4, <2>8, <2>9, <2>10, StillFilling
<1>4. CASE FinishServer
  <2>1. /\ pc = "add" /\ pc' = pc /\ file' = file /\ data' = Append(data, config)
        /\ config' = NewConfig /\ servers # <<>> /\ servers[1] = <<>>
        /\ servers' = Tail(servers)
    BY <1>4 DEF FinishServer
  <2>2. SUFFICES ASSUME Filling, ~AnyRefused(Blocks) PROVE Filling'
    <3>1. AnyRefused(Blocks) => AnyRefused(Blocks')
      BY <1>0, <1>4, StillRefused
    <3>. QED BY <2>1, <3>1 DEF Fills, Added
  <2>3. /\ Len(data') = Len(data) + 1 /\ data'[Len(data) + 1] = config
        /\ \A k \in 1..Len(data) : data'[k] = data[k]
    <3>1. data \in Seq(Configs) /\ config \in Configs
      BY <1>0 DEF TypeInv
    <3>. QED BY <2>1, <3>1
  <2>4. /\ Len(servers) \in Nat \ {0} /\ Len(servers') = Len(servers) - 1
        /\ (servers' = <<>> <=> Len(servers) = 1)
        /\ \A j \in 1..(Len(servers) - 1) : servers'[j] = servers[j + 1]
    <3>. DEFINE L == Seq(Label)
    <3>1. servers \in Seq(L)
      BY <1>0 DEF TypeInv
    <3>. HIDE DEF L
    <3>. QED BY <2>1, <3>1, HeadFacts
  <2>5. AsWritten(config, Lines(Len(data) + 1, Len(file)))
    <3>1. Half(config, <<>>, Len(data) + 1)
      BY <2>1, <2>2 DEF Filling
    <3>. QED BY <1>0, <3>1, LastHalf
  <2>6. \A k \in 1..Len(data') : AsWritten(data'[k], Lines(k, Len(file)))
    <3>1. \A k \in 1..Len(data') : k \in 1..Len(data) \/ k = Len(data) + 1
      BY <1>0, <2>3
    <3>. QED BY <2>2, <2>3, <2>5, <3>1 DEF Filling
  <2>7. \A j \in 1..(Len(servers) - 1) : Written(servers'[j], Lines(Len(data') + j, Len(file)))
    <3>. TAKE j \in 1..(Len(servers) - 1)
    <3>1. j + 1 \in 2..Len(servers) /\ Len(data) + (j + 1) = Len(data') + j
      BY <1>0, <2>3, <2>4
    <3>2. Written(servers[j + 1], Lines(Len(data) + (j + 1), Len(file)))
      BY <2>2, <3>1 DEF Filling
    <3>. QED BY <2>4, <3>1, <3>2
  <2>8. servers' # <<>> => Half(config', servers'[1], Len(data') + 1)
    <3>1. servers' # <<>> => 1 \in 1..(Len(servers) - 1)
      BY <2>4
    <3>. QED BY <1>0, <2>1, <2>7, <3>1, FirstHalf
  <2>9. \A j \in 2..Len(servers') : Written(servers'[j], Lines(Len(data') + j, Len(file)))
    BY <2>4, <2>7
  <2>10. \A i \in 1..Len(file) : Depth(i) = 2 => ~IsLocation(file[i])
    BY <2>2 DEF Filling
  <2>. QED BY <2>1, <2>6, <2>8, <2>9, <2>10, StillFilling
<1>5. CASE Finish \/ StartServer \/ EnterLoop \/ UNCHANGED vars
  <2>1. /\ file' = file /\ servers' = servers /\ labels' = labels /\ data' = data
        /\ config' = config
        /\ pc' \in Added => pc \in Added
    BY <1>5 DEF Finish, StartServer, Starting, EnterLoop, vars, Added
  <2>2. Blocks' = Blocks
    BY <2>1 DEF Blocks
  <2>3. SUFFICES ASSUME Filling PROVE Filling'
    BY <2>1, <2>2 DEF Fills
  <2>. QED BY <2>1, <2>3, StillFilling DEF Filling
<1>. QED BY <1>1, <1>2, <1>3, <1>4, <1>5 DEF Next, Terminated

------------------------------------------------------------------------------
(* What holds of every file that is accepted. *)

LEMMA AtFirst == ASSUME Init PROVE Origins /\ Fills
<1>1. pc = "top" /\ lines = file /\ labels = <<>> /\ servers = <<>> /\ config = NewConfig
  BY DEF Init
<1>2. TypeInv /\ Seen = 0
  <2>1. TypeInv
    BY TypeInit
  <2>. QED BY <1>1, <2>1 DEF Seen, TypeInv
<1>3. Len(Blocks) = 1 /\ Blocks[1] = <<>>
  <2>1. Len(servers) = 0
    BY <1>1
  <2>. QED BY <1>1, <1>2, <2>1, BlocksFacts
<1>4. Lines(1, 0) = {} /\ 1..0 = {}
  BY DEF Lines
<1>5. Placed(Seen)
  <2>1. \A k \in 1..Len(Blocks) : Written(Blocks[k], Lines(k, Seen))
    <3>1. \A k \in 1..Len(Blocks) : k = 1
      BY <1>3
    <3>. QED BY <1>2, <1>3, <1>4, <3>1, WrittenNone
  <2>. QED BY <1>2, <1>4, <2>1 DEF Placed
<1>. QED BY <1>1, <1>5 DEF Origins, Fills, Added

SInv == IInv /\ Origins /\ Fills

LEMMA Configured ==
  ASSUME IInv, Fills, pc = "accepted"
  PROVE  /\ ServerOf(Len(file)) = Len(data)
         /\ \A k \in 1..Len(data) : AsWritten(data[k], Lines(k, Len(file)))
<1>1. /\ TypeInv /\ LabelsOfServer /\ servers = <<>> /\ ServerOf(Len(file)) = Len(data)
      /\ pc \in Added
  BY AllAdded DEF IInv, Added
<1>2. labels = <<>>
  BY <1>1 DEF LabelsOfServer
<1>3. ~AnyRefused(Blocks)
  <2>1. Len(servers) = 0 /\ Len(labels) = 0
    BY <1>1, <1>2
  <2>2. Len(Blocks) = 1 /\ Blocks[1] = labels
    BY <1>1, <2>1, BlocksFacts
  <2>3. \A k \in 1..Len(Blocks) : Len(Blocks[k]) = 0
    BY <2>1, <2>2
  <2>. QED BY <2>3 DEF AnyRefused
<1>. QED BY <1>1, <1>3 DEF Fills, Filling

LEMMA InLocations ==
  \A i, key : OfLocation(i, key) => Depth(i) \in {1, 2} /\ file[i].key = key
<1>1. \A d \in 1..2 : d \in {1, 2}
  OBVIOUS
<1>. QED BY <1>1, Zenon DEF OfLocation

(* A setting of a block is one of its labels. *)
LEMMA LastLines ==
  ASSUME NEW k, NEW key, key \notin {"#", "{", "}"}
  PROVE  /\ ServerLines(BlockOf(k), key) = ServerLines(Lines(k, Len(file)), key)
         /\ \A n : LocationLines(BlockOf(k), n, key) = LocationLines(Lines(k, Len(file)), n, key)
<1>. DEFINE N == Len(file)
<1>1. Open.key = "{" /\ Close.key = "}"
  BY PlainFacts DEF Open, Close
<1>2. ASSUME NEW i, file[i].key = key
      PROVE  ~IsComment(file[i]) /\ file[i] # Open /\ file[i] # Close
  BY <1>1, <1>2 DEF IsComment
<1>3. ASSUME NEW i
      PROVE  /\ OfServer(i, key) => (i \in BlockOf(k) <=> i \in Lines(k, N))
             /\ OfLocation(i, key) => (i \in BlockOf(k) <=> i \in Lines(k, N))
  <2>1. OfServer(i, key) => Depth(i) \in {1, 2} /\ file[i].key = key
    BY DEF OfServer
  <2>2. OfLocation(i, key) => Depth(i) \in {1, 2} /\ file[i].key = key
    BY InLocations
  <2>. QED BY <1>2, <2>1, <2>2 DEF Lines, LabelLine, BlockOf
<1>. HIDE DEF N
<1>4. ServerLines(BlockOf(k), key) = ServerLines(Lines(k, N), key)
  BY <1>3 DEF ServerLines
<1>5. \A n : LocationLines(BlockOf(k), n, key) = LocationLines(Lines(k, N), n, key)
  BY <1>3 DEF LocationLines
<1>. QED BY <1>4, <1>5 DEF N

LEMMA SameSettings ==
  ASSUME NEW D, NEW E,
         \A key : key \notin {"#", "{", "}"} =>
           /\ ServerLines(E, key) = ServerLines(D, key)
           /\ \A n : LocationLines(E, n, key) = LocationLines(D, n, key)
  PROVE  /\ \A c : ServerAsWritten(c, D) => ServerAsWritten(c, E)
         /\ \A l, n : LocationAsWritten(l, D, n) => LocationAsWritten(l, E, n)
<1>1. /\ ServerLines(E, "root") = ServerLines(D, "root")
      /\ ServerLines(E, "upload_path") = ServerLines(D, "upload_path")
      /\ ServerLines(E, "server_name") = ServerLines(D, "server_name")
      /\ ServerLines(E, "index") = ServerLines(D, "index")
      /\ ServerLines(E, "allowed_methods") = ServerLines(D, "allowed_methods")
      /\ ServerLines(E, "error_page") = ServerLines(D, "error_page")
      /\ ServerLines(E, "location") = ServerLines(D, "location")
  OBVIOUS
<1>2. \A n : /\ LocationLines(E, n, "root") = LocationLines(D, n, "root")
             /\ LocationLines(E, n, "directory_listing") = LocationLines(D, n, "directory_listing")
             /\ LocationLines(E, n, "response_is_dir") = LocationLines(D, n, "response_is_dir")
             /\ LocationLines(E, n, "http_redirection") = LocationLines(D, n, "http_redirection")
             /\ LocationLines(E, n, "cgi_pass") = LocationLines(D, n, "cgi_pass")
             /\ LocationLines(E, n, "required_cookie") = LocationLines(D, n, "required_cookie")
             /\ LocationLines(E, n, "set_cookie") = LocationLines(D, n, "set_cookie")
  OBVIOUS
<1>3. \A code : PagesFor(E, code) = PagesFor(D, code)
  BY <1>1 DEF PagesFor
<1>4. \A n : Codes(E, n) = Codes(D, n) /\ Targets(E, n) = Targets(D, n)
  BY <1>2 DEF Codes, Targets
<1>5. \A c : ServerAsWritten(c, D) => ServerAsWritten(c, E)
  BY <1>1, <1>3 DEF ServerAsWritten, PagesAsWritten
<1>6. \A l, n : LocationAsWritten(l, D, n) => LocationAsWritten(l, E, n)
  BY <1>1, <1>2, <1>4 DEF LocationAsWritten, RedirectionAsWritten
<1>. QED BY <1>5, <1>6

LEMMA SettingsOK == ASSUME IInv, Fills PROVE SettingsStayInTheirBlock
<1>. SUFFICES ASSUME pc = "accepted"
              PROVE  /\ Len(data) = Count(1, Len(file), LAMBDA l : l = Server)
                     /\ \A k \in 1..Len(data) :
                          /\ ServerAsWritten(data[k], BlockOf(k))
                          /\ Len(data[k].locations) =
                               Cardinality(ServerLines(BlockOf(k), "location"))
                          /\ \A n \in 1..Len(data[k].locations) :
                               LocationAsWritten(data[k].locations[n], BlockOf(k), n)
  BY DEF SettingsStayInTheirBlock
<1>1. Len(data) = Count(1, Len(file), LAMBDA l : l = Server)
  BY Configured DEF ServerOf
<1>2. ASSUME NEW k \in 1..Len(data)
      PROVE  /\ ServerAsWritten(data[k], BlockOf(k))
             /\ Len(data[k].locations) = Cardinality(ServerLines(BlockOf(k), "location"))
             /\ \A n \in 1..Len(data[k].locations) :
                  LocationAsWritten(data[k].locations[n], BlockOf(k), n)
  <2>. DEFINE D == Lines(k, Len(file))
              E == BlockOf(k)
  <2>1. SettingsWritten(data[k], D)
    BY Configured DEF AsWritten
  <2>2. \A key : key \notin {"#", "{", "}"} =>
          /\ ServerLines(E, key) = ServerLines(D, key)
          /\ \A n : LocationLines(E, n, key) = LocationLines(D, n, key)
    BY LastLines
  <2>. HIDE DEF D, E
  <2>3. /\ \A c : ServerAsWritten(c, D) => ServerAsWritten(c, E)
        /\ \A l, n : LocationAsWritten(l, D, n) => LocationAsWritten(l, E, n)
    BY <2>2, SameSettings
  <2>4. ServerLines(E, "location") = ServerLines(D, "location")
    BY <2>2
  <2>. QED BY <2>1, <2>3, <2>4 DEF SettingsWritten, E
<1>. QED BY <1>1, <1>2

LEMMA NumbersOK == ASSUME IInv, Fills PROVE NumbersAsWritten
<1>. SUFFICES ASSUME pc = "accepted", NEW k \in 1..Len(data)
              PROVE  LET p == LastOf(k, "port")
                         m == LastOf(k, "client_max_body_size")
                     IN /\ p = 0 => data[k].port = 8080
                        /\ p # 0 => IF file[p].value = <<>> THEN data[k].port \in Garbage
                                    ELSE data[k].port = Number[file[p].value[1]]
                        /\ m = 0 => data[k].clientBodySize = Kilo * Kilo
                        /\ m # 0 /\ SizeOf(file[m].value) \in Sizes =>
                             data[k].clientBodySize = SizeOf(file[m].value)
  BY DEF NumbersAsWritten, SizeOf, Sizes
<1>1. NumbersWritten(data[k], Lines(k, Len(file)))
  BY Configured DEF AsWritten
<1>2. /\ LastOf(k, "port") = Latest(ServerLines(Lines(k, Len(file)), "port"))
      /\ LastOf(k, "client_max_body_size")
           = Latest(ServerLines(Lines(k, Len(file)), "client_max_body_size"))
  BY LastLines DEF LastOf
<1>. QED BY <1>1, <1>2 DEF NumbersWritten

LEMMA MethodsOK == ASSUME IInv, Fills PROVE MethodsNarrow
<1>. SUFFICES ASSUME pc = "accepted", NEW k \in 1..Len(data),
                     NEW n \in 1..Len(data[k].locations)
              PROVE  LET i == LastIn(k, n, "http_methods")
                         methods == ToSet(data[k].locations[n].http_methods)
                     IN IF i = 0 THEN methods = Methods
                        ELSE /\ methods = ToSet(file[i].value)
                             /\ LastOf(k, "allowed_methods") < i =>
                                  methods \subseteq ToSet(data[k].allowedMethods)
  BY DEF MethodsNarrow
<1>1. MethodsWritten(data[k], Lines(k, Len(file)))
  BY Configured DEF AsWritten
<1>2. /\ LastOf(k, "allowed_methods")
           = Latest(ServerLines(Lines(k, Len(file)), "allowed_methods"))
      /\ LastIn(k, n, "http_methods")
           = Latest(LocationLines(Lines(k, Len(file)), n, "http_methods"))
  BY LastLines DEF LastOf, LastIn
<1>. QED BY <1>1, <1>2 DEF MethodsWritten

(* The invariant of what the labels come from and the Configs are filled with: the labels of
   every server are its lines, in their order, and a Config says what the lines added so far
   do. *)
THEOREM SettingsInvariance == Spec => []SInv
<1>1. Init => SInv
  BY Initially, AtFirst DEF SInv
<1>2. SInv /\ [Next]_vars => SInv'
  BY Inductive, OriginsStep, FillsStep DEF SInv
<1>. QED BY <1>1, <1>2, PTL DEF Spec

(* parseConfig gives every setting to the server and the location in whose block it stands;
   the last one counts, one that is not given keeps its default, and there are as many
   Configs and locations as the file has blocks for them. *)
THEOREM SettingsInTheirBlock == Spec => []SettingsStayInTheirBlock
<1>1. SInv => SettingsStayInTheirBlock
  BY SettingsOK DEF SInv
<1>. QED BY <1>1, SettingsInvariance, PTL

(* _setPort and _setClientBodySize: the port and the limit of a server are those of the last
   line that gives them, the limit never a product of two lines; an empty port line gives
   what the variable happened to hold. *)
THEOREM NumbersCorrect == Spec => []NumbersAsWritten
<1>1. SInv => NumbersAsWritten
  BY NumbersOK DEF SInv
<1>. QED BY <1>1, SettingsInvariance, PTL

(* _setHttpMethods: the methods of a location are those of its last line that gives any, all
   of them allowed by the server unless it allows other methods only behind that line. *)
THEOREM MethodsCorrect == Spec => []MethodsNarrow
<1>1. SInv => MethodsNarrow
  BY MethodsOK DEF SInv
<1>. QED BY <1>1, SettingsInvariance, PTL
==============================================================================
