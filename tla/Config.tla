-------------------------------- MODULE Config --------------------------------
(***************************************************************************)
(* Config: the settings of one server, and Config::add, which sets one of  *)
(* them or appends to the last location.                                   *)
(*                                                                         *)
(* A value is the sequence of its words.  What the setters read out of a   *)
(* word is given by the constants: the number it begins with and what      *)
(* follows it, the unit it ends with, the cookie attribute it stands for.  *)
(* A setter returns the set of its outcomes: it succeeds, fails, which     *)
(* does not undo what it has already done, or touches a location that does *)
(* not exist, which crashes the process.                                   *)
(***************************************************************************)
EXTENDS Integers, Sequences, SequencesExt

CONSTANTS Words,       \* the words of values
          Number,      \* of the words that begin with a number: the number
          After,       \* of the words that begin with a number: the rest, "" if none
          Kilos,       \* the words that end with K
          Megas,       \* the words that end with M
          Attribute,   \* of the attributes of set_cookie: [field, text]
          Garbage,     \* what an int on the stack may hold
          Modulus,     \* 2^64: the values of a size_t
          Kilo         \* 1024

ASSUME WordsAssumption ==
  /\ DOMAIN Number \subseteq Words /\ DOMAIN After = DOMAIN Number
  /\ \A w \in DOMAIN Number : Number[w] \in Int
  /\ Kilos \cup Megas \subseteq Words /\ Kilos \cap Megas = {}
  /\ Garbage \subseteq Int
ASSUME WidthAssumption ==
  Modulus \in Nat \ {0} /\ Kilo \in Nat \ {0} /\ Kilo * Kilo < Modulus

(* 1024 to 49151. *)
Ports == 1024..(48 * 1024 - 1)

Methods == {"GET", "POST", "DELETE"}
DefaultMethods == <<"GET", "POST", "DELETE">>

NewConfig ==
  [port |-> 8080, serverNames |-> <<>>, errorPages |-> <<>>,
   clientBodySize |-> Kilo * Kilo, locations |-> <<>>, mainRoot |-> <<".">>,
   index |-> {"index.html"}, allowedMethods |-> DefaultMethods,
   uploadPath |-> <<"/uploads">>]

NewLocation(path) ==
  [location |-> path, http_methods |-> DefaultMethods,
   http_redirection |-> [code |-> 0, target |-> ""], root |-> <<>>,
   directory_listing |-> <<>>, response_is_dir |-> <<>>, cgi_pass |-> {},
   required_cookie |-> {}, set_cookie |-> <<>>]

NewCookie == [name |-> "", value |-> "", expires |-> "", samesite |-> "",
              sessionValue |-> FALSE, secure |-> FALSE, httpOnly |-> FALSE]

ASSUME AttributeAssumption ==
  \A w \in DOMAIN Attribute : Attribute[w].field \in DOMAIN NewCookie

------------------------------------------------------------------------------
Ends(end, config) == {[end |-> end, config |-> config]}
Done(config)   == Ends("ok", config)
Failed(config) == Ends("failed", config)

HasNumber(value) == value # <<>> /\ value[1] \in DOMAIN Number

(* The text behind the number that a value begins with, as words. *)
Rest(value) == LET tail == After[value[1]]
               IN IF tail = "" THEN Tail(value) ELSE <<tail>> \o Tail(value)

(* Setters of the last location.  Those that ask for one first fail without it;
   the others use back() of an empty vector. *)
WithLocation(config, location) ==
  Done([config EXCEPT !.locations = Front(@) \o <<location>>])

Checked(config, location) ==
  IF config.locations = <<>> THEN Failed(config) ELSE WithLocation(config, location)

Unchecked(config, location) ==
  IF config.locations = <<>> THEN Ends("crashed", config) ELSE WithLocation(config, location)

------------------------------------------------------------------------------
\* Mutant of SetPort: the value is stored before it is looked at.
SetPortUnchecked(config, value) ==
  IF HasNumber(value) /\ Rest(value) = <<>>
  THEN Done([config EXCEPT !.port = Number[value[1]]]) ELSE Failed(config)

(* _setPort: the number of an empty value is never read, so that the range is tested
   on, and the port becomes, whatever the variable holds; no number reads as 0. *)
SetPort(config, value) ==
  LET read == CASE value = <<>>     -> Garbage
                [] HasNumber(value) -> {Number[value[1]]}
                [] OTHER            -> {0}
  IN UNION {IF port \in Ports /\ (value = <<>> \/ Rest(value) = <<>>)
            THEN Done([config EXCEPT !.port = port]) ELSE Failed(config) : port \in read}

SetServerName(config, value) ==
  IF config.serverNames # <<>> \/ value = <<>> THEN Failed(config)
  ELSE Done([config EXCEPT !.serverNames = value])

(* _setErrorPage: a code, then at most one word. *)
PageOf(value) == IF Rest(value) = <<>> THEN "" ELSE Rest(value)[1]

SetErrorPage(config, value) ==
  IF HasNumber(value) /\ Len(Rest(value)) <= 1 /\ Number[value[1]] \in 400..599
  THEN Done([config EXCEPT !.errorPages =
               [code \in DOMAIN @ \cup {Number[value[1]]} |->
                  IF code = Number[value[1]] THEN PageOf(value) ELSE @[code]]])
  ELSE Failed(config)

(* operator>> of a size_t: the largest value for a number that does not fit, and a
   negative number counts from the top. *)
AsSize(n) == IF n \in (1 - Modulus)..(Modulus - 1) THEN n % Modulus ELSE Modulus - 1

\* Mutant of SetClientBodySize: the units are swapped.
SetClientBodySizeSwapped(config, value) ==
  LET size == IF HasNumber(value) THEN AsSize(Number[value[1]]) ELSE 0
      times(n) == Done([config EXCEPT !.clientBodySize = (size * n) % Modulus])
  IN CASE size = 0 -> Failed(config)
       [] size # 0 /\ Last(value) \in Kilos -> times(Kilo * Kilo)
       [] size # 0 /\ Last(value) \in Megas -> times(Kilo)
       [] OTHER -> Failed(config)

(* _setClientBodySize: the number of the first word, the unit of the last, and their
   product without a test for overflow. *)
SetClientBodySize(config, value) ==
  LET size == IF HasNumber(value) THEN AsSize(Number[value[1]]) ELSE 0
      stored == IF value = <<>> THEN config ELSE [config EXCEPT !.clientBodySize = size]
      times(n) == Done([config EXCEPT !.clientBodySize = (size * n) % Modulus])
  IN CASE size = 0 -> Failed(stored)
       [] size # 0 /\ Last(value) \in Megas -> times(Kilo * Kilo)
       [] size # 0 /\ Last(value) \in Kilos -> times(Kilo)
       [] OTHER -> Failed(stored)

(* The words of a value without those that have come before. *)
Distinct(words) ==
  FoldLeft(LAMBDA seen, w : IF Contains(seen, w) THEN seen ELSE Append(seen, w), <<>>, words)

SetAllowedMethods(config, value) ==
  IF value # <<>> /\ ToSet(value) \subseteq Methods
  THEN Done([config EXCEPT !.allowedMethods = Distinct(value)]) ELSE Failed(config)

\* Mutant of SetHttpMethods: the methods of the server are not looked at.
SetHttpMethodsUnrestricted(config, location, value) ==
  IF value = <<>> \/ ~ToSet(value) \subseteq Methods THEN Failed(config)
  ELSE Unchecked(config, [location EXCEPT !.http_methods = Distinct(value)])

(* _setHttpMethods: only methods of the server, as it is configured so far. *)
SetHttpMethods(config, location, value) ==
  IF value = <<>> THEN Failed(config)
  ELSE IF ToSet(value) \subseteq Methods \cap ToSet(config.allowedMethods)
  THEN Unchecked(config, [location EXCEPT !.http_methods = Distinct(value)])
  ELSE {[o EXCEPT !.end = IF @ = "ok" THEN "failed" ELSE @] :
          o \in Unchecked(config, [location EXCEPT !.http_methods = <<>>])}

(* _setHttpRedirection: what the value does not give stays what it was. *)
SetHttpRedirection(config, location, value) ==
  LET old == location.http_redirection
      code == CASE value = <<>>     -> old.code
                [] HasNumber(value) -> Number[value[1]]
                [] OTHER            -> 0
      target == IF code \in 300..399 /\ HasNumber(value) /\ Rest(value) # <<>>
                THEN Rest(value)[1] ELSE old.target
      end == IF code \in 300..399 THEN "ok" ELSE "failed"
  IN IF config.locations = <<>> THEN Failed(config)
     ELSE {[o EXCEPT !.end = end] :
             o \in WithLocation(config, [location EXCEPT !.http_redirection =
                                           [code |-> code, target |-> target]])}

(* _setSetCookie: every attribute is read before the location is looked for. *)
CookieOf(value) ==
  FoldLeft(LAMBDA c, w : [c EXCEPT ![Attribute[w].field] = Attribute[w].text], NewCookie, value)

SetSetCookie(config, location, value) ==
  IF ~ToSet(value) \subseteq DOMAIN Attribute \/ CookieOf(value).name = "" THEN Failed(config)
  ELSE Unchecked(config, [location EXCEPT !.set_cookie = Append(@, CookieOf(value))])

------------------------------------------------------------------------------
(* Config::add for the labels of a server, and for those with location_ in front. *)

AddToServer(config, key, value) ==
  CASE key = "port"                 -> SetPort(config, value)
    [] key = "server_name"          -> SetServerName(config, value)
    [] key = "error_page"           -> SetErrorPage(config, value)
    [] key = "client_max_body_size" -> SetClientBodySize(config, value)
    [] key = "root"                 -> Done([config EXCEPT !.mainRoot = value])
    [] key = "index"                -> Done([config EXCEPT !.index = ToSet(value)])
    [] key = "upload_path"          -> Done([config EXCEPT !.uploadPath = value])
    [] key = "allowed_methods"      -> SetAllowedMethods(config, value)
    [] key = "location"             ->
         Done([config EXCEPT !.locations = Append(@, NewLocation(value))])
    [] OTHER                        -> Failed(config)

AddToLocation(config, key, value) ==
  LET location == IF config.locations = <<>> THEN NewLocation(<<>>)   \* not used
                  ELSE Last(config.locations)
      words == ToSet(value)
  IN CASE key = "http_methods"      -> SetHttpMethods(config, location, value)
       [] key = "http_redirection"  -> SetHttpRedirection(config, location, value)
       [] key = "root"              -> Checked(config, [location EXCEPT !.root = value])
       [] key = "directory_listing" ->
            Checked(config, [location EXCEPT !.directory_listing = value])
       [] key = "response_is_dir"   ->
            Checked(config, [location EXCEPT !.response_is_dir = value])
       [] key = "cgi_pass"          ->
            IF value = <<>> THEN Done(config)
            ELSE Unchecked(config, [location EXCEPT !.cgi_pass = @ \cup words])
       [] key = "required_cookie"   ->
            Unchecked(config, [location EXCEPT !.required_cookie =
                                 @ \cup IF value = <<>> THEN {""} ELSE words])
       [] key = "set_cookie"        -> SetSetCookie(config, location, value)
       [] OTHER                     -> Failed(config)

Add(config, label) ==
  IF label.prefixed THEN AddToLocation(config, label.key, label.value)
  ELSE AddToServer(config, label.key, label.value)
==============================================================================
