--------------------------- MODULE ConfigFileProofs ---------------------------
(***************************************************************************)
(* Proofs about Config and ConfigFile, for every set of words and every    *)
(* file.                                                                   *)
(***************************************************************************)
EXTENDS ConfigFile, Recursion, FiniteSetTheorems, SequenceTheorems

------------------------------------------------------------------------------
(* The type of a Config and of what is in it. *)

Sizes == 0..(Modulus - 1)
Values == Seq(Words)
MethodLists == Seq(Methods)

(* Words, and what the setters make of them. *)
Texts == Words \cup {After[w] : w \in DOMAIN After} \cup {""}

Errors == 400..599
Pages == UNION {[D -> Texts] : D \in SUBSET Errors}

(* What an attribute of a cookie may hold. *)
Held == {"", FALSE} \cup {Attribute[w].text : w \in DOMAIN Attribute}

CookieRecords ==
  [name : Held, value : Held, expires : Held, samesite : Held,
   sessionValue : Held, secure : Held, httpOnly : Held]

CookieLists == Seq(CookieRecords)

Redirections == [code : Int, target : Texts]
Scripts == SUBSET Words
CookieNames == SUBSET (Words \cup {""})

LocationRecords ==
  [location : Values, http_methods : MethodLists, http_redirection : Redirections,
   root : Values, directory_listing : Values, response_is_dir : Values,
   cgi_pass : Scripts, required_cookie : CookieNames, set_cookie : CookieLists]

LocationLists == Seq(LocationRecords)

Roots == Seq(Words \cup {"."})
Uploads == Seq(Words \cup {"/uploads"})
Indexes == SUBSET (Words \cup {"index.html"})

Configs ==
  [port : Ports, serverNames : Values, errorPages : Pages, clientBodySize : Sizes,
   locations : LocationLists, mainRoot : Roots, index : Indexes,
   allowedMethods : MethodLists, uploadPath : Uploads]

Results == [end : {"ok", "failed", "crashed"}, config : Configs]

LEMMA ConfigFields ==
  ASSUME NEW c \in Configs
  PROVE  /\ c.port \in Ports /\ c.serverNames \in Values /\ c.errorPages \in Pages
         /\ c.clientBodySize \in Sizes /\ c.locations \in LocationLists
         /\ c.mainRoot \in Roots /\ c.index \in Indexes
         /\ c.allowedMethods \in MethodLists /\ c.uploadPath \in Uploads
BY DEF Configs

LEMMA LocationFields ==
  ASSUME NEW l \in LocationRecords
  PROVE  /\ l.location \in Values /\ l.http_methods \in MethodLists
         /\ l.http_redirection \in Redirections /\ l.root \in Values
         /\ l.directory_listing \in Values /\ l.response_is_dir \in Values
         /\ l.cgi_pass \in Scripts /\ l.required_cookie \in CookieNames
         /\ l.set_cookie \in CookieLists
BY DEF LocationRecords

LEMMA MethodsOf == ASSUME NEW s \in MethodLists PROVE ToSet(s) \subseteq Methods
BY DEF MethodLists, ToSet

LEMMA UnionFacts ==
  ASSUME NEW U, NEW T
  PROVE  /\ \A f \in UNION {[D -> T] : D \in U} : \E D \in U : f \in [D -> T]
         /\ \A D \in U : \A f \in [D -> T] : f \in UNION {[E -> T] : E \in U}
OBVIOUS

LEMMA PagesOf ==
  ASSUME NEW c \in Configs
  PROVE  \E D \in SUBSET Errors : c.errorPages \in [D -> Texts]
<1>1. c.errorPages \in Pages
  BY ConfigFields
<1>. DEFINE U == SUBSET Errors
<1>2. Pages = UNION {[D -> Texts] : D \in U}
  BY DEF Pages
<1>. HIDE DEF U
<1>3. \E D \in U : c.errorPages \in [D -> Texts]
  BY <1>1, <1>2, UnionFacts
<1>. QED BY <1>3 DEF U

LEMMA PagesFrom ==
  ASSUME NEW D \in SUBSET Errors, NEW f \in [D -> Texts] PROVE f \in Pages
<1>. DEFINE U == SUBSET Errors
<1>1. Pages = UNION {[E -> Texts] : E \in U} /\ D \in U
  BY DEF Pages
<1>. HIDE DEF U
<1>. QED BY <1>1, UnionFacts

(* Only the ranges of TypeOK, of a Config that is one. *)
LEMMA ConfigRanges == ASSUME NEW c \in Configs PROVE ConfigOK(c)
<1>1. c.port \in Ports /\ c.clientBodySize \in 0..(Modulus - 1)
  BY ConfigFields DEF Sizes
<1>2. DOMAIN c.errorPages \subseteq 400..599
  <2>1. PICK D \in SUBSET Errors : c.errorPages \in [D -> Texts]
    BY PagesOf
  <2>2. DOMAIN c.errorPages = D
    BY <2>1
  <2>. QED BY <2>2 DEF Errors
<1>3. ToSet(c.allowedMethods) \subseteq Methods
  BY ConfigFields, MethodsOf
<1>4. ASSUME NEW i \in 1..Len(c.locations)
      PROVE  ToSet(c.locations[i].http_methods) \subseteq Methods
  <2>1. c.locations \in LocationLists
    BY ConfigFields
  <2>2. c.locations[i] \in LocationRecords
    BY <2>1 DEF LocationLists
  <2>. QED BY <2>2, LocationFields, MethodsOf
<1>. QED BY <1>1, <1>2, <1>3, <1>4, Zenon DEF ConfigOK

LEMMA Defaults ==
  /\ <<>> \in Values /\ <<>> \in LocationLists /\ <<>> \in CookieLists
  /\ <<>> \in MethodLists /\ {} \in Scripts /\ {} \in CookieNames
  /\ DefaultMethods \in MethodLists
  /\ \A s \in Values : s \in Roots /\ s \in Uploads
<1>1. DefaultMethods \in MethodLists
  BY DEF DefaultMethods, Methods, MethodLists
<1>2. \A s \in Values : s \in Roots /\ s \in Uploads
  BY DEF Values, Roots, Uploads
<1>. QED BY <1>1, <1>2
         DEF Values, LocationLists, CookieLists, MethodLists, Scripts, CookieNames

LEMMA NewConfigType == NewConfig \in Configs
<1>1. Kilo * Kilo \in Sizes
  BY WidthAssumption DEF Sizes
<1>2. <<>> \in Pages
  <2>1. <<>> \in [{} -> Texts] /\ {} \in SUBSET Errors
    OBVIOUS
  <2>. QED BY <2>1, PagesFrom
<1>3. 8080 \in Ports /\ {"index.html"} \in Indexes
  BY DEF Ports, Indexes
<1>4. <<".">> \in Roots /\ <<"/uploads">> \in Uploads
  BY DEF Roots, Uploads
<1>. QED BY <1>1, <1>2, <1>3, <1>4, Defaults DEF NewConfig, Configs

LEMMA NewLocationType == ASSUME NEW path \in Values PROVE NewLocation(path) \in LocationRecords
<1>1. [code |-> 0, target |-> ""] \in Redirections
  BY DEF Texts, Redirections
<1>. QED BY <1>1, Defaults DEF NewLocation, LocationRecords

(* Assigning to one field. *)

LEMMA SetConfig ==
  ASSUME NEW c \in Configs
  PROVE  /\ \A x \in Ports : [c EXCEPT !.port = x] \in Configs
         /\ \A x \in Values : [c EXCEPT !.serverNames = x] \in Configs
         /\ \A x \in Pages : [c EXCEPT !.errorPages = x] \in Configs
         /\ \A x \in Sizes : [c EXCEPT !.clientBodySize = x] \in Configs
         /\ \A x \in LocationLists : [c EXCEPT !.locations = x] \in Configs
         /\ \A x \in Roots : [c EXCEPT !.mainRoot = x] \in Configs
         /\ \A x \in Indexes : [c EXCEPT !.index = x] \in Configs
         /\ \A x \in MethodLists : [c EXCEPT !.allowedMethods = x] \in Configs
         /\ \A x \in Uploads : [c EXCEPT !.uploadPath = x] \in Configs
<1>1. \A x \in Ports : [c EXCEPT !.port = x] \in Configs
  BY DEF Configs
<1>2. \A x \in Values : [c EXCEPT !.serverNames = x] \in Configs
  BY DEF Configs
<1>3. \A x \in Pages : [c EXCEPT !.errorPages = x] \in Configs
  BY DEF Configs
<1>4. \A x \in Sizes : [c EXCEPT !.clientBodySize = x] \in Configs
  BY DEF Configs
<1>5. \A x \in LocationLists : [c EXCEPT !.locations = x] \in Configs
  BY DEF Configs
<1>6. \A x \in Roots : [c EXCEPT !.mainRoot = x] \in Configs
  BY DEF Configs
<1>7. \A x \in Indexes : [c EXCEPT !.index = x] \in Configs
  BY DEF Configs
<1>8. \A x \in MethodLists : [c EXCEPT !.allowedMethods = x] \in Configs
  BY DEF Configs
<1>9. \A x \in Uploads : [c EXCEPT !.uploadPath = x] \in Configs
  BY DEF Configs
<1>. QED BY <1>1, <1>2, <1>3, <1>4, <1>5, <1>6, <1>7, <1>8, <1>9

LEMMA SetLocation ==
  ASSUME NEW l \in LocationRecords
  PROVE  /\ \A x \in MethodLists : [l EXCEPT !.http_methods = x] \in LocationRecords
         /\ \A x \in Redirections : [l EXCEPT !.http_redirection = x] \in LocationRecords
         /\ \A x \in Values : [l EXCEPT !.root = x] \in LocationRecords
         /\ \A x \in Values : [l EXCEPT !.directory_listing = x] \in LocationRecords
         /\ \A x \in Values : [l EXCEPT !.response_is_dir = x] \in LocationRecords
         /\ \A x \in Scripts : [l EXCEPT !.cgi_pass = x] \in LocationRecords
         /\ \A x \in CookieNames : [l EXCEPT !.required_cookie = x] \in LocationRecords
         /\ \A x \in CookieLists : [l EXCEPT !.set_cookie = x] \in LocationRecords
<1>1. \A x \in MethodLists : [l EXCEPT !.http_methods = x] \in LocationRecords
  BY DEF LocationRecords
<1>2. \A x \in Redirections : [l EXCEPT !.http_redirection = x] \in LocationRecords
  BY DEF LocationRecords
<1>3. \A x \in Values : [l EXCEPT !.root = x] \in LocationRecords
  BY DEF LocationRecords
<1>4. \A x \in Values : [l EXCEPT !.directory_listing = x] \in LocationRecords
  BY DEF LocationRecords
<1>5. \A x \in Values : [l EXCEPT !.response_is_dir = x] \in LocationRecords
  BY DEF LocationRecords
<1>6. \A x \in Scripts : [l EXCEPT !.cgi_pass = x] \in LocationRecords
  BY DEF LocationRecords
<1>7. \A x \in CookieNames : [l EXCEPT !.required_cookie = x] \in LocationRecords
  BY DEF LocationRecords
<1>8. \A x \in CookieLists : [l EXCEPT !.set_cookie = x] \in LocationRecords
  BY DEF LocationRecords
<1>. QED BY <1>1, <1>2, <1>3, <1>4, <1>5, <1>6, <1>7, <1>8

------------------------------------------------------------------------------
(* The outcomes of the setters. *)

LEMMA EndsType ==
  ASSUME NEW c \in Configs
  PROVE  Done(c) \subseteq Results /\ Failed(c) \subseteq Results
         /\ Ends("crashed", c) \subseteq Results
BY DEF Done, Failed, Ends, Results

LEMMA NumberFacts ==
  ASSUME NEW value \in Values, HasNumber(value)
  PROVE  Number[value[1]] \in Int /\ Rest(value) \in Seq(Texts)
<1>1. value[1] \in DOMAIN Number /\ value # <<>>
  BY DEF HasNumber
<1>2. Number[value[1]] \in Int /\ After[value[1]] \in Texts
  BY <1>1, WordsAssumption DEF Texts
<1>3. Tail(value) \in Seq(Texts)
  <2>1. Tail(value) \in Seq(Words)
    BY <1>1 DEF Values
  <2>2. Words \subseteq Texts
    BY DEF Texts
  <2>. QED BY <2>1, <2>2
<1>4. \A w \in Texts : <<w>> \o Tail(value) \in Seq(Texts)
  BY <1>3
<1>. QED BY <1>2, <1>3, <1>4 DEF Rest

LEMMA SetPortType ==
  ASSUME NEW c \in Configs, NEW value \in Values PROVE SetPort(c, value) \subseteq Results
<1>. SUFFICES ASSUME NEW o \in SetPort(c, value) PROVE o \in Results
  OBVIOUS
<1>1. \E port : \/ port \in Ports /\ o \in Done([c EXCEPT !.port = port])
                \/ o \in Failed(c)
  BY DEF SetPort
<1>. QED BY <1>1, SetConfig, EndsType

LEMMA SetServerNameType ==
  ASSUME NEW c \in Configs, NEW value \in Values PROVE SetServerName(c, value) \subseteq Results
BY SetConfig, EndsType DEF SetServerName

LEMMA FirstOf == ASSUME NEW S, NEW s \in Seq(S) PROVE s = <<>> \/ s[1] \in S
OBVIOUS

LEMMA SetErrorPageType ==
  ASSUME NEW c \in Configs, NEW value \in Values PROVE SetErrorPage(c, value) \subseteq Results
<1>. DEFINE page == PageOf(value)
            n == Number[value[1]]
            pages == [code \in DOMAIN c.errorPages \cup {n} |->
                        IF code = n THEN page ELSE c.errorPages[code]]
<1>1. CASE HasNumber(value) /\ n \in 400..599
  <2>1. page \in Texts
    <3>1. Rest(value) \in Seq(Texts)
      BY <1>1, NumberFacts
    <3>2. "" \in Texts
      BY DEF Texts
    <3>3. Rest(value) = <<>> \/ Rest(value)[1] \in Texts
      BY <3>1, FirstOf
    <3>. QED BY <3>2, <3>3 DEF PageOf
  <2>2. PICK D \in SUBSET Errors : c.errorPages \in [D -> Texts]
    BY PagesOf
  <2>. HIDE DEF page, n
  <2>3. pages \in [D \cup {n} -> Texts] /\ D \cup {n} \in SUBSET Errors
    <3>1. D \cup {n} \in SUBSET Errors
      BY <1>1 DEF Errors
    <3>2. DOMAIN c.errorPages = D /\ \A code \in D : c.errorPages[code] \in Texts
      BY <2>2
    <3>. QED BY <2>1, <3>1, <3>2
  <2>. HIDE DEF pages
  <2>4. pages \in Pages
    BY <2>3, PagesFrom
  <2>5. [c EXCEPT !.errorPages = pages] \in Configs
    BY <2>4, SetConfig
  <2>6. SetErrorPage(c, value) = Done([c EXCEPT !.errorPages = pages])
        \/ SetErrorPage(c, value) = Failed(c)
    <3>. DEFINE ok == HasNumber(value) /\ Len(Rest(value)) <= 1 /\ n \in 400..599
    <3>1. SetErrorPage(c, value) =
            IF ok THEN Done([c EXCEPT !.errorPages = pages]) ELSE Failed(c)
      BY Zenon DEF SetErrorPage, page, n, pages
    <3>. HIDE DEF ok
    <3>. QED BY <3>1, Zenon
  <2>. QED BY <2>5, <2>6, EndsType
<1>2. CASE ~(HasNumber(value) /\ n \in 400..599)
  <2>1. SetErrorPage(c, value) = Failed(c)
    BY <1>2, Zenon DEF SetErrorPage
  <2>. QED BY <2>1, EndsType
<1>. QED BY <1>1, <1>2

LEMMA Remainder == ASSUME NEW n \in Int PROVE n % Modulus \in Sizes
BY WidthAssumption DEF Sizes

LEMMA AsSizeType == ASSUME NEW n \in Int PROVE AsSize(n) \in Sizes
<1>1. Modulus - 1 \in Sizes
  BY WidthAssumption DEF Sizes
<1>. QED BY <1>1, Remainder DEF AsSize

LEMMA SetClientBodySizeType ==
  ASSUME NEW c \in Configs, NEW value \in Values
  PROVE  SetClientBodySize(c, value) \subseteq Results
<1>. DEFINE size == IF HasNumber(value) THEN AsSize(Number[value[1]]) ELSE 0
            stored == IF value = <<>> THEN c ELSE [c EXCEPT !.clientBodySize = size]
            times(n) == [c EXCEPT !.clientBodySize = (size * n) % Modulus]
<1>1. size \in Sizes
  <2>1. 0 \in Sizes
    BY WidthAssumption DEF Sizes
  <2>. QED BY <2>1, NumberFacts, AsSizeType
<1>2. size \in Int /\ Kilo \in Int /\ Kilo * Kilo \in Int
  BY <1>1, WidthAssumption DEF Sizes
<1>3. (size * Kilo) % Modulus \in Sizes /\ (size * (Kilo * Kilo)) % Modulus \in Sizes
  <2>1. size * Kilo \in Int /\ size * (Kilo * Kilo) \in Int
    BY <1>2
  <2>. QED BY <2>1, Remainder
<1>. HIDE DEF size
<1>4. stored \in Configs /\ times(Kilo) \in Configs /\ times(Kilo * Kilo) \in Configs
  BY <1>1, <1>3, SetConfig
<1>. HIDE DEF stored, times
<1>5. SetClientBodySize(c, value)
        \in {Failed(stored), Done(times(Kilo * Kilo)), Done(times(Kilo))}
  BY DEF SetClientBodySize, size, stored, times
<1>. QED BY <1>4, <1>5, EndsType

------------------------------------------------------------------------------
(* The folds of the setters. *)

LEMMA DistinctType == ASSUME NEW S, NEW words \in Seq(S) PROVE Distinct(words) \in Seq(S)
<1>. DEFINE n == Len(words)
            E(seen, w) == IF Contains(seen, w) THEN seen ELSE Append(seen, w)
            iter == CHOOSE iter : iter = [t \in SUBSET DOMAIN words |->
                      IF t = {} THEN <<>> ELSE E(iter[t \ {Max(t)}], words[Max(t)])]
            k == [i \in 1..n |-> [seen \in Seq(S) |-> E(seen, words[i])]]
<1>1. Distinct(words) = iter[DOMAIN words]
  BY DEF Distinct, FoldLeft, MapThenFoldSet
<1>2. n \in Nat /\ DOMAIN words = 1..n /\ \A i \in 1..n : words[i] \in S
  OBVIOUS
<1>3. <<>> \in Seq(S) /\ \A seen \in Seq(S) : \A w \in S : E(seen, w) \in Seq(S)
  OBVIOUS
<1>. HIDE DEF E
<1>4. \A i \in 1..n : \A seen \in Seq(S) : k[i][seen] = E(seen, words[i])
  OBVIOUS
<1>. HIDE DEF k, n
<1>5. CanFold(n, Seq(S), <<>>, k)
  BY <1>2, <1>3, <1>4 DEF CanFold
<1>6. \A t \in SUBSET (1..n) : t # {} => Max(t) \in 1..n
  BY <1>2, MaxFacts
<1>7. PICK f : IsFold(f, n, Seq(S), <<>>, k)
  BY <1>5, FoldExists
<1>8. \A t \in SUBSET (1..n) :
        f[t] = IF t = {} THEN <<>> ELSE E(f[t \ {Max(t)}], words[Max(t)])
  BY <1>4, <1>6, <1>7 DEF IsFold
<1>9. f = [t \in SUBSET DOMAIN words |->
             IF t = {} THEN <<>> ELSE E(f[t \ {Max(t)}], words[Max(t)])]
  BY <1>2, <1>7, <1>8 DEF IsFold
<1>10. iter = [t \in SUBSET DOMAIN words |->
                 IF t = {} THEN <<>> ELSE E(iter[t \ {Max(t)}], words[Max(t)])]
  BY <1>9
<1>. HIDE DEF iter
<1>11. ObeysFold(iter, n, Seq(S), <<>>, k)
  BY <1>2, <1>4, <1>6, <1>10 DEF ObeysFold
<1>12. iter[1..n] \in Seq(S)
  BY <1>2, <1>5, <1>11, FoldResult
<1>. QED BY <1>1, <1>2, <1>12

(* An attribute that is none of those known ends the setter, whatever the fold makes of
   it; the others leave a cookie that is one. *)
LEMMA NewCookieType == NewCookie \in CookieRecords
<1>1. "" \in Held /\ FALSE \in Held
  BY DEF Held
<1>2. \A v \in Held : [name |-> "", value |-> "", expires |-> "", samesite |-> "",
                       sessionValue |-> v, secure |-> v, httpOnly |-> v] \in CookieRecords
  BY <1>1 DEF CookieRecords
<1>. QED BY <1>1, <1>2, Zenon DEF NewCookie

LEMMA AttributeType ==
  ASSUME NEW c \in CookieRecords, NEW w \in DOMAIN Attribute
  PROVE  [c EXCEPT ![Attribute[w].field] = Attribute[w].text] \in CookieRecords
<1>1. Attribute[w].text \in Held
  BY DEF Held
<1>2. Attribute[w].field \in {"name", "value", "expires", "samesite", "sessionValue",
                              "secure", "httpOnly"}
  BY AttributeAssumption DEF NewCookie
<1>3. \A v \in Held :
        /\ [c EXCEPT !["name"] = v] \in CookieRecords
        /\ [c EXCEPT !["value"] = v] \in CookieRecords
        /\ [c EXCEPT !["expires"] = v] \in CookieRecords
        /\ [c EXCEPT !["samesite"] = v] \in CookieRecords
        /\ [c EXCEPT !["sessionValue"] = v] \in CookieRecords
        /\ [c EXCEPT !["secure"] = v] \in CookieRecords
        /\ [c EXCEPT !["httpOnly"] = v] \in CookieRecords
  BY DEF CookieRecords
<1>. QED BY <1>1, <1>2, <1>3

LEMMA CookieType ==
  ASSUME NEW words \in Seq(DOMAIN Attribute) PROVE CookieOf(words) \in CookieRecords
<1>. DEFINE n == Len(words)
            V == CookieRecords
            E(c, w) == [c EXCEPT ![Attribute[w].field] = Attribute[w].text]
            iter == CHOOSE iter : iter = [t \in SUBSET DOMAIN words |->
                      IF t = {} THEN NewCookie ELSE E(iter[t \ {Max(t)}], words[Max(t)])]
            k == [i \in 1..n |-> [c \in V |-> E(c, words[i])]]
<1>1. CookieOf(words) = iter[DOMAIN words]
  BY DEF CookieOf, FoldLeft, MapThenFoldSet
<1>2. n \in Nat /\ DOMAIN words = 1..n /\ \A i \in 1..n : words[i] \in DOMAIN Attribute
  OBVIOUS
<1>3. NewCookie \in V /\ \A c \in V : \A w \in DOMAIN Attribute : E(c, w) \in V
  BY NewCookieType, AttributeType
<1>. HIDE DEF E, V
<1>4. \A i \in 1..n : \A c \in V : k[i][c] = E(c, words[i])
  OBVIOUS
<1>. HIDE DEF k, n
<1>5. CanFold(n, V, NewCookie, k)
  BY <1>2, <1>3, <1>4 DEF CanFold
<1>6. \A t \in SUBSET (1..n) : t # {} => Max(t) \in 1..n
  BY <1>2, MaxFacts
<1>7. PICK f : IsFold(f, n, V, NewCookie, k)
  BY <1>5, FoldExists
<1>8. \A t \in SUBSET (1..n) :
        f[t] = IF t = {} THEN NewCookie ELSE E(f[t \ {Max(t)}], words[Max(t)])
  BY <1>4, <1>6, <1>7 DEF IsFold
<1>9. f = [t \in SUBSET DOMAIN words |->
             IF t = {} THEN NewCookie ELSE E(f[t \ {Max(t)}], words[Max(t)])]
  BY <1>2, <1>7, <1>8 DEF IsFold
<1>10. iter = [t \in SUBSET DOMAIN words |->
                 IF t = {} THEN NewCookie ELSE E(iter[t \ {Max(t)}], words[Max(t)])]
  BY <1>9
<1>. HIDE DEF iter
<1>11. ObeysFold(iter, n, V, NewCookie, k)
  BY <1>2, <1>4, <1>6, <1>10 DEF ObeysFold
<1>12. iter[1..n] \in V
  BY <1>2, <1>5, <1>11, FoldResult
<1>. QED BY <1>1, <1>2, <1>12 DEF V

------------------------------------------------------------------------------
(* The setters that need them, and Config::add. *)

LEMMA Within ==
  ASSUME NEW S, NEW T, NEW s \in Seq(S), ToSet(s) \subseteq T PROVE s \in Seq(T)
<1>1. \A i \in 1..Len(s) : s[i] \in T
  BY DEF ToSet
<1>. QED BY <1>1

LEMMA DistinctMethods ==
  ASSUME NEW value \in Values, ToSet(value) \subseteq Methods
  PROVE  Distinct(value) \in MethodLists
<1>1. value \in Seq(Methods)
  BY Within DEF Values
<1>. QED BY <1>1, DistinctType DEF MethodLists

LEMMA SetAllowedMethodsType ==
  ASSUME NEW c \in Configs, NEW value \in Values
  PROVE  SetAllowedMethods(c, value) \subseteq Results
<1>1. CASE value # <<>> /\ ToSet(value) \subseteq Methods
  <2>. DEFINE d == Distinct(value)
  <2>1. d \in MethodLists
    BY <1>1, DistinctMethods
  <2>. HIDE DEF d
  <2>2. [c EXCEPT !.allowedMethods = d] \in Configs
    BY <2>1, SetConfig
  <2>3. SetAllowedMethods(c, value) = Done([c EXCEPT !.allowedMethods = d])
    BY <1>1, Zenon DEF SetAllowedMethods, d
  <2>. QED BY <2>2, <2>3, EndsType
<1>2. CASE ~(value # <<>> /\ ToSet(value) \subseteq Methods)
  <2>1. SetAllowedMethods(c, value) = Failed(c)
    BY <1>2, Zenon DEF SetAllowedMethods
  <2>. QED BY <2>1, EndsType
<1>. QED BY <1>1, <1>2

LEMMA WithLocationType ==
  ASSUME NEW c \in Configs, c.locations # <<>>, NEW l \in LocationRecords
  PROVE  WithLocation(c, l) \subseteq Results
<1>. DEFINE ls == Front(c.locations) \o <<l>>
<1>1. c.locations \in Seq(LocationRecords)
  BY ConfigFields DEF LocationLists
<1>2. Front(c.locations) \in Seq(LocationRecords)
  BY <1>1 DEF Front
<1>3. ls \in LocationLists
  BY <1>2 DEF LocationLists
<1>. HIDE DEF ls
<1>4. [c EXCEPT !.locations = ls] \in Configs
  BY <1>3, SetConfig
<1>5. WithLocation(c, l) = Done([c EXCEPT !.locations = ls])
  BY DEF WithLocation, ls
<1>. QED BY <1>4, <1>5, EndsType

LEMMA InLocationType ==
  ASSUME NEW c \in Configs, NEW l \in LocationRecords
  PROVE  Checked(c, l) \subseteq Results /\ Unchecked(c, l) \subseteq Results
BY WithLocationType, EndsType DEF Checked, Unchecked

LEMMA OtherEnd ==
  ASSUME NEW o \in Results, NEW end \in {"ok", "failed", "crashed"}
  PROVE  [o EXCEPT !.end = end] \in Results
BY DEF Results

LEMMA SetHttpMethodsType ==
  ASSUME NEW c \in Configs, NEW l \in LocationRecords, NEW value \in Values
  PROVE  SetHttpMethods(c, l, value) \subseteq Results
<1>. DEFINE d == Distinct(value)
            kept == [l EXCEPT !.http_methods = d]
            none == [l EXCEPT !.http_methods = <<>>]
<1>1. CASE value = <<>>
  <2>1. SetHttpMethods(c, l, value) = Failed(c)
    BY <1>1, Zenon DEF SetHttpMethods
  <2>. QED BY <2>1, EndsType
<1>2. CASE value # <<>> /\ ToSet(value) \subseteq Methods \cap ToSet(c.allowedMethods)
  <2>1. d \in MethodLists
    BY <1>2, DistinctMethods
  <2>. HIDE DEF d
  <2>2. kept \in LocationRecords
    BY <2>1, SetLocation
  <2>. HIDE DEF kept
  <2>3. SetHttpMethods(c, l, value) = Unchecked(c, kept)
    BY <1>2, Zenon DEF SetHttpMethods, kept, d
  <2>. QED BY <2>2, <2>3, InLocationType
<1>3. CASE value # <<>> /\ ~(ToSet(value) \subseteq Methods \cap ToSet(c.allowedMethods))
  <2>1. none \in LocationRecords
    BY Defaults, SetLocation
  <2>. HIDE DEF none
  <2>2. Unchecked(c, none) \subseteq Results
    BY <2>1, InLocationType
  <2>3. SetHttpMethods(c, l, value)
          = {[o EXCEPT !.end = IF @ = "ok" THEN "failed" ELSE @] : o \in Unchecked(c, none)}
    BY <1>3, Zenon DEF SetHttpMethods, none
  <2>4. ASSUME NEW o \in Unchecked(c, none)
        PROVE  [o EXCEPT !.end = IF @ = "ok" THEN "failed" ELSE @] \in Results
    <3>1. o \in Results /\ o.end \in {"ok", "failed", "crashed"}
      BY <2>2 DEF Results
    <3>. DEFINE end == IF o.end = "ok" THEN "failed" ELSE o.end
    <3>2. end \in {"ok", "failed", "crashed"}
      BY <3>1
    <3>. HIDE DEF end
    <3>3. [o EXCEPT !.end = end] \in Results
      BY <3>1, <3>2, OtherEnd
    <3>. QED BY <3>3 DEF end
  <2>. QED BY <2>3, <2>4
<1>. QED BY <1>1, <1>2, <1>3

LEMMA SetHttpRedirectionType ==
  ASSUME NEW c \in Configs, NEW l \in LocationRecords, NEW value \in Values
  PROVE  SetHttpRedirection(c, l, value) \subseteq Results
<1>. DEFINE old == l.http_redirection
            code == CASE value = <<>>     -> old.code
                      [] HasNumber(value) -> Number[value[1]]
                      [] OTHER            -> 0
            target == IF code \in 300..399 /\ HasNumber(value) /\ Rest(value) # <<>>
                      THEN Rest(value)[1] ELSE old.target
            end == IF code \in 300..399 THEN "ok" ELSE "failed"
            new == [l EXCEPT !.http_redirection = [code |-> code, target |-> target]]
<1>1. CASE c.locations = <<>>
  <2>1. SetHttpRedirection(c, l, value) = Failed(c)
    BY <1>1, Zenon DEF SetHttpRedirection
  <2>. QED BY <2>1, EndsType
<1>2. CASE c.locations # <<>>
  <2>1. old.code \in Int /\ old.target \in Texts
    <3>1. old \in Redirections
      BY LocationFields
    <3>. QED BY <3>1 DEF Redirections
  <2>. HIDE DEF old
  <2>2. code \in Int
    <3>1. HasNumber(value) => value # <<>> /\ Number[value[1]] \in Int
      BY NumberFacts DEF HasNumber
    <3>. QED BY <2>1, <3>1
  <2>. HIDE DEF code
  <2>3. target \in Texts
    <3>1. HasNumber(value) /\ Rest(value) # <<>> => Rest(value)[1] \in Texts
      BY NumberFacts, FirstOf
    <3>. QED BY <2>1, <3>1, Zenon
  <2>. HIDE DEF target
  <2>4. end \in {"ok", "failed", "crashed"}
    OBVIOUS
  <2>. HIDE DEF end
  <2>5. new \in LocationRecords
    <3>1. [code |-> code, target |-> target] \in Redirections
      BY <2>2, <2>3 DEF Redirections
    <3>. QED BY <3>1, SetLocation
  <2>. HIDE DEF new
  <2>6. SetHttpRedirection(c, l, value)
          = {[o EXCEPT !.end = end] : o \in WithLocation(c, new)}
    BY <1>2, Zenon DEF SetHttpRedirection, old, code, target, end, new
  <2>. QED BY <1>2, <2>4, <2>5, <2>6, WithLocationType, OtherEnd
<1>. QED BY <1>1, <1>2

LEMMA SetSetCookieType ==
  ASSUME NEW c \in Configs, NEW l \in LocationRecords, NEW value \in Values
  PROVE  SetSetCookie(c, l, value) \subseteq Results
<1>. DEFINE cookie == CookieOf(value)
            list == Append(l.set_cookie, cookie)
            new == [l EXCEPT !.set_cookie = Append(@, cookie)]
<1>1. CASE ~ToSet(value) \subseteq DOMAIN Attribute \/ cookie.name = ""
  <2>1. SetSetCookie(c, l, value) = Failed(c)
    BY <1>1, Zenon DEF SetSetCookie, CookieOf
  <2>. QED BY <2>1, EndsType
<1>2. CASE ToSet(value) \subseteq DOMAIN Attribute /\ cookie.name # ""
  <2>1. cookie \in CookieRecords
    <3>1. value \in Seq(DOMAIN Attribute)
      BY <1>2, Within DEF Values
    <3>. QED BY <3>1, CookieType
  <2>2. SetSetCookie(c, l, value) = Unchecked(c, new)
    BY <1>2, Zenon DEF SetSetCookie, CookieOf
  <2>. HIDE DEF cookie
  <2>3. list \in CookieLists
    <3>1. l.set_cookie \in Seq(CookieRecords)
      BY LocationFields DEF CookieLists
    <3>. QED BY <2>1, <3>1 DEF CookieLists
  <2>4. new \in LocationRecords
    <3>1. new = [l EXCEPT !.set_cookie = list]
      BY DEF LocationRecords
    <3>. HIDE DEF new, list
    <3>. QED BY <2>3, <3>1, SetLocation
  <2>. HIDE DEF new
  <2>. QED BY <2>2, <2>4, InLocationType
<1>. QED BY <1>1, <1>2

LEMMA AddToServerType ==
  ASSUME NEW c \in Configs, NEW key, NEW value \in Values
  PROVE  AddToServer(c, key, value) \subseteq Results
<1>. DEFINE indices == ToSet(value)
            ls == Append(c.locations, NewLocation(value))
            located == [c EXCEPT !.locations = Append(@, NewLocation(value))]
<1>1. [c EXCEPT !.mainRoot = value] \in Configs /\ [c EXCEPT !.uploadPath = value] \in Configs
  BY Defaults, SetConfig
<1>2. [c EXCEPT !.index = indices] \in Configs
  <2>1. indices \in Indexes
    BY DEF Indexes, Values, ToSet
  <2>. HIDE DEF indices
  <2>. QED BY <2>1, SetConfig
<1>3. located \in Configs
  <2>1. ls \in LocationLists
    <3>1. c.locations \in Seq(LocationRecords)
      BY ConfigFields DEF LocationLists
    <3>. QED BY <3>1, NewLocationType DEF LocationLists
  <2>2. located = [c EXCEPT !.locations = ls]
    OBVIOUS
  <2>. HIDE DEF located, ls
  <2>. QED BY <2>1, <2>2, SetConfig
<1>. HIDE DEF located
<1>4. \/ AddToServer(c, key, value) \in
           {SetPort(c, value), SetServerName(c, value), SetErrorPage(c, value),
            SetClientBodySize(c, value), SetAllowedMethods(c, value), Failed(c)}
      \/ AddToServer(c, key, value) \in
           {Done([c EXCEPT !.mainRoot = value]), Done([c EXCEPT !.uploadPath = value]),
            Done([c EXCEPT !.index = indices]), Done(located)}
  BY DEF AddToServer, located
<1>. QED BY <1>1, <1>2, <1>3, <1>4, EndsType, SetPortType, SetServerNameType,
            SetErrorPageType, SetClientBodySizeType, SetAllowedMethodsType

LEMMA AddToLocationType ==
  ASSUME NEW c \in Configs, NEW key, NEW value \in Values
  PROVE  AddToLocation(c, key, value) \subseteq Results
<1>. DEFINE l == IF c.locations = <<>> THEN NewLocation(<<>>) ELSE Last(c.locations)
            words == ToSet(value)
            scripts == l.cgi_pass \cup words
            names == l.required_cookie \cup (IF value = <<>> THEN {""} ELSE words)
<1>1. l \in LocationRecords
  <2>1. c.locations \in Seq(LocationRecords)
    BY ConfigFields DEF LocationLists
  <2>2. c.locations # <<>> => Last(c.locations) \in LocationRecords
    BY <2>1 DEF Last
  <2>. QED BY <2>2, Defaults, NewLocationType
<1>2. words \subseteq Words
  BY DEF Values, ToSet
<1>3. AddToLocation(c, key, value) \in
        {SetHttpMethods(c, l, value), SetHttpRedirection(c, l, value),
         Checked(c, [l EXCEPT !.root = value]),
         Checked(c, [l EXCEPT !.directory_listing = value]),
         Checked(c, [l EXCEPT !.response_is_dir = value]),
         Done(c), Unchecked(c, [l EXCEPT !.cgi_pass = scripts]),
         Unchecked(c, [l EXCEPT !.required_cookie = names]),
         SetSetCookie(c, l, value), Failed(c)}
  BY <1>1 DEF AddToLocation, LocationRecords
<1>. HIDE DEF l, words
<1>4. scripts \in Scripts /\ names \in CookieNames
  <2>1. l.cgi_pass \in Scripts /\ l.required_cookie \in CookieNames
    BY <1>1, LocationFields
  <2>. QED BY <1>2, <2>1 DEF Scripts, CookieNames
<1>. HIDE DEF scripts, names
<1>5. /\ [l EXCEPT !.root = value] \in LocationRecords
      /\ [l EXCEPT !.directory_listing = value] \in LocationRecords
      /\ [l EXCEPT !.response_is_dir = value] \in LocationRecords
      /\ [l EXCEPT !.cgi_pass = scripts] \in LocationRecords
      /\ [l EXCEPT !.required_cookie = names] \in LocationRecords
  BY <1>1, <1>4, SetLocation
<1>6. /\ Checked(c, [l EXCEPT !.root = value]) \subseteq Results
      /\ Checked(c, [l EXCEPT !.directory_listing = value]) \subseteq Results
      /\ Checked(c, [l EXCEPT !.response_is_dir = value]) \subseteq Results
      /\ Unchecked(c, [l EXCEPT !.cgi_pass = scripts]) \subseteq Results
      /\ Unchecked(c, [l EXCEPT !.required_cookie = names]) \subseteq Results
  BY <1>5, InLocationType
<1>. QED BY <1>1, <1>3, <1>6, EndsType, SetHttpMethodsType, SetHttpRedirectionType,
            SetSetCookieType

LEMMA AddType ==
  ASSUME NEW c \in Configs, NEW label \in Label PROVE Add(c, label) \subseteq Results
<1>1. label.value \in Values
  BY DEF Label, Values
<1>. QED BY <1>1, AddToServerType, AddToLocationType DEF Add

------------------------------------------------------------------------------
(* The invariants. *)

TypeInv ==
  /\ file \in Seq(Label) /\ lines \in Seq(Label)
  /\ labels \in Seq(Label) /\ servers \in Seq(Seq(Label))
  /\ pc \in {"top", "server", "location", "add", "accepted", "serving", "stopped",
             "failed", "unable", "refused", "crashed"}
  /\ ports \in Seq(Ports)
  /\ config \in Configs /\ data \in Seq(Configs)

(* The lines that have been looked at, and the labels of each server, the last one being
   read. *)
Seen   == Len(file) - Len(lines)
Blocks == Append(servers, labels)

LinesOfFile ==
  /\ Len(lines) <= Len(file)
  /\ \A j \in 1..Len(lines) : lines[j] = file[Seen + j]

(* Labels that add refuses whatever has been added before: what a line that nests wrongly
   becomes. *)
Refused(l) == IF l.prefixed THEN l.key \in {"{", "server"}
              ELSE l.key \in {"{", "server", "location_location"}

AnyRefused(blocks) == \E k \in 1..Len(blocks) : \E p \in 1..Len(blocks[k]) : Refused(blocks[k][p])

(* In the order in which the labels are added. *)
RefusedBefore(blocks, k, p) ==
  \E j \in 1..Len(blocks) : \E q \in 1..Len(blocks[j]) :
    (j < k \/ (j = k /\ q < p)) /\ Refused(blocks[j][q])

(* What Nested says of one line. *)
RightLine(i) ==
  IsComment(file[i]) \/
    /\ Depth(i) \in 0..2
    /\ file[i] = Open <=> i > 1 /\ IsHeader(i - 1)
    /\ Depth(i) = 0 => file[i] \in {Server, Open}
    /\ IsHeader(i) => i < Len(file) /\ file[i + 1] = Open

Reader == {"top", "server", "location"}
Level == [s \in Reader |-> CASE s = "top" -> 0 [] s = "server" -> 1 [] s = "location" -> 2]
InServer == IF pc = "top" THEN 0 ELSE 1

HasLocation(ls) == \E q \in 1..Len(ls) : IsAt(ls[q])

(* The reader is in the block that counting braces tells, after right lines only; and the
   labels have every location since the header of the server. *)
AsNested ==
  /\ Depth(Seen + 1) = Level[pc]
  /\ \A i \in 1..Seen : RightLine(i)
  /\ Seen > 0 => ~IsHeader(Seen)
  /\ ServerOf(Seen) = Len(servers) + InServer
  /\ pc # "top" => \E h \in 1..Seen :
       /\ file[h] = Server
       /\ \A j \in (h + 1)..Seen : file[j] # Server /\ (IsAt(file[j]) => HasLocation(labels))

Reads == pc \in Reader => AnyRefused(Blocks) \/ AsNested

LabelsOfServer ==
  /\ pc \in {"top", "add", "accepted", "serving", "stopped", "failed", "unable"} => labels = <<>>
  /\ pc = "location" => \E q \in 1..Len(labels) : IsLocation(labels[q])

Added == {"add", "accepted", "serving", "stopped", "failed", "unable"}

Parses ==
  /\ pc \in Reader => data = <<>>
  /\ pc \in Added =>
       /\ lines = <<>>
       /\ AnyRefused(Blocks) \/
            /\ Nested
            /\ ServerOf(Len(file)) = Len(data) + Len(servers)
  /\ pc \in Added \ {"add"} => servers = <<>>

(* A label that crashes the process if it comes to be added first: its line, or the header
   of its block, has location_ in front before there is a location. *)
Homeless(i) == Depth(i) = 1 /\ file[i].prefixed /\ LocationOf(i) = 0

HasPlace(k, p) ==
  \/ \E q \in 1..(p - 1) : IsAt(Blocks[k][q])
  \/ k = 1 /\ config.locations # <<>>

Crashes ==
  pc \in Reader \cup {"add"} =>
    \A k \in 1..Len(Blocks) : \A p \in 1..Len(Blocks[k]) :
      Blocks[k][p].prefixed =>
        \/ HasPlace(k, p) \/ RefusedBefore(Blocks, k, p)
        \/ \E i \in 1..Len(file) : Homeless(i)

OnlyComments ==
  /\ pc \in {"top", "add", "accepted", "stopped"} /\ servers = <<>> /\ data = <<>> =>
       \A i \in 1..Seen : IsComment(file[i])
  /\ pc = "stopped" => data = <<>>

Listens ==
  /\ Len(ports) <= Len(data)
  /\ \A k \in 1..Len(ports) : ports[k] = data[k].port /\ ports[k] \notin Busy
  /\ \A j, k \in 1..Len(ports) : ports[j] = ports[k] => j = k
  /\ pc = "serving" => Len(ports) = Len(data)
  /\ pc = "failed" => \E k \in 1..Len(data) :
       data[k].port \in Busy \/ \E j \in 1..(k - 1) : data[j].port = data[k].port

(* Labels that add takes if there is a location for them. *)
HarmlessLabel(l) ==
  \/ ~l.prefixed /\ l.key \in {"root", "index", "upload_path", "location"}
  \/ /\ ~l.prefixed /\ l.key = "port" /\ Len(l.value) = 1 /\ HasNumber(l.value)
     /\ Rest(l.value) = <<>> /\ Number[l.value[1]] \in Ports
  \/ l.prefixed /\ l.key \in {"root", "directory_listing", "cgi_pass"}

HarmlessFile == Nested /\ \A i \in 1..Len(file) : Harmless(i)

AcceptsHarmless ==
  HarmlessFile =>
    /\ pc \notin {"refused", "crashed"}
    /\ \A k \in 1..Len(Blocks) : \A p \in 1..Len(Blocks[k]) :
         HarmlessLabel(Blocks[k][p]) /\ (Blocks[k][p].prefixed => HasPlace(k, p))
    /\ pc = "location" => HasLocation(labels)

IInv == /\ TypeInv /\ LinesOfFile /\ Reads /\ LabelsOfServer /\ Parses /\ Crashes
        /\ CrashesAsKnown /\ OnlyComments /\ Listens /\ AcceptsHarmless
------------------------------------------------------------------------------
(* The file and what is read from it. *)

LEMMA FlattenType ==
  ASSUME NEW S, NEW seqs \in Seq(Seq(S)) PROVE FlattenSeq(seqs) \in Seq(S)
<1>. DEFINE n == Len(seqs)
            V == Seq(S)
            I == 1..n
            flatten == CHOOSE flatten : flatten =
                         [i \in I |-> IF i = 1 THEN seqs[i] ELSE flatten[i - 1] \o seqs[i]]
            m == [i \in I |-> i]
            next == [i \in I |-> i - 1]
            k == [i \in I |-> [v \in V |-> v \o seqs[i]]]
            x == [i \in 0..n |-> IF i = 0 THEN <<>> ELSE flatten[i]]
            P == [i \in 0..n |-> V]
<1>1. CASE n = 0
  <2>1. seqs = <<>> /\ <<>> \in Seq(S)
    BY <1>1
  <2>. QED BY <1>1, <2>1 DEF FlattenSeq
<1>2. CASE n # 0
  <2>1. FlattenSeq(seqs) = flatten[n]
    BY <1>2 DEF FlattenSeq
  <2>2. n \in Nat /\ n \in I /\ \A i \in I : seqs[i] \in V
    BY <1>2
  <2>3. \A v \in V : \A i \in I : v \o seqs[i] \in V
    BY <2>2
  <2>4. \A i \in I : \A v \in V : k[i][v] = v \o seqs[i]
    OBVIOUS
  <2>5. Descends(m, I, V, {1}, next, seqs, k)
    <3>1. m \in [I -> Nat] /\ \A i \in I : i \in {1} => seqs[i] \in V
      BY <2>2
    <3>2. \A i \in I : i \notin {1} => next[i] \in I /\ m[next[i]] < m[i]
      BY <2>2
    <3>3. \A i \in I : \A v \in V : k[i][v] \in V
      BY <2>3, <2>4
    <3>. HIDE DEF m, next, k, I, V
    <3>. QED BY <3>1, <3>2, <3>3 DEF Descends
  <2>6. PICK f : IsRecursive(f, I, V, {1}, next, seqs, k)
    <3>. HIDE DEF m, next, k, I, V
    <3>. QED BY <2>5, RecursionExists
  <2>7. \A i \in I : i # 1 => next[i] = i - 1 /\ i - 1 \in I
    BY <2>2
  <2>8. f = [i \in I |-> IF i = 1 THEN seqs[i] ELSE f[i - 1] \o seqs[i]]
    <3>1. f \in [I -> V] /\ \A i \in I : f[i] = IF i \in {1} THEN seqs[i] ELSE k[i][f[next[i]]]
      BY <2>6 DEF IsRecursive
    <3>. HIDE DEF k, next, I, V
    <3>2. ASSUME NEW i \in I PROVE f[i] = IF i = 1 THEN seqs[i] ELSE f[i - 1] \o seqs[i]
      <4>1. CASE i = 1
        BY <3>1, <4>1
      <4>2. CASE i # 1
        <5>1. f[i] = k[i][f[i - 1]] /\ f[i - 1] \in V
          BY <2>7, <3>1, <4>2
        <5>. QED BY <2>4, <4>2, <5>1
      <4>. QED BY <4>1, <4>2
    <3>. QED BY <3>1, <3>2
  <2>9. flatten = [i \in I |-> IF i = 1 THEN seqs[i] ELSE flatten[i - 1] \o seqs[i]]
    BY <2>8
  <2>. HIDE DEF flatten
  <2>10. \A i \in I : flatten[i] = IF i = 1 THEN seqs[i] ELSE flatten[i - 1] \o seqs[i]
    BY <2>9
  <2>11. /\ \A i \in 0..n : P[i] = V
         /\ \A i \in I : i \in 0..n /\ i - 1 \in 0..n
         /\ 0 \in 0..n /\ x[0] = <<>> /\ <<>> \in V
    BY <2>2
  <2>12. ASSUME NEW i \in 1..n, x[i - 1] \in P[i - 1] PROVE x[i] \in P[i]
    <3>1. CASE i = 1
      BY <2>2, <2>10, <2>11, <3>1
    <3>2. CASE i # 1
      <4>1. x[i - 1] = flatten[i - 1] /\ x[i] = flatten[i]
        BY <2>11, <3>2
      <4>. HIDE DEF x, P, V
      <4>2. flatten[i - 1] \in V
        BY <2>11, <2>12, <4>1
      <4>3. flatten[i] = flatten[i - 1] \o seqs[i]
        BY <2>10, <3>2
      <4>4. flatten[i] \in V
        BY <2>3, <4>2, <4>3
      <4>5. P[i] = V
        BY <2>11
      <4>. QED BY <4>1, <4>4, <4>5
    <3>. QED BY <3>1, <3>2
  <2>. HIDE DEF P, x
  <2>13. x[0] \in P[0]
    BY <2>11
  <2>. HIDE DEF I, V
  <2>14. \A i \in 0..n : x[i] \in P[i]
    BY <2>2, <2>12, <2>13, StepByStep
  <2>15. n \in 0..n
    BY <2>2
  <2>16. x[n] \in V
    BY <2>11, <2>14, <2>15
  <2>. QED BY <1>2, <2>1, <2>15, <2>16 DEF x, V
<1>. QED BY <1>1, <1>2

LEMMA LabelFacts ==
  ASSUME NEW l \in Label
  PROVE  l.prefixed \in BOOLEAN /\ l.key \in Keys /\ l.value \in Seq(Words)
BY DEF Label

LEMMA PlainType == ASSUME NEW key \in Keys PROVE Plain(key) \in Label
<1>1. \A v \in BOOLEAN : [prefixed |-> v, key |-> key, value |-> <<>>] \in Label
  BY DEF Label
<1>2. FALSE \in BOOLEAN
  OBVIOUS
<1>. QED BY <1>1, <1>2, Zenon DEF Plain

LEMMA InLocationLabel == ASSUME NEW l \in Label PROVE InLocation(l) \in Label
<1>1. \A v \in BOOLEAN : [l EXCEPT !.prefixed = v] \in Label
  BY DEF Label
<1>2. "location_location" \in Keys
  BY KeysAssumption
<1>3. TRUE \in BOOLEAN
  OBVIOUS
<1>4. [l EXCEPT !.prefixed = TRUE] \in Label
  BY <1>1, <1>3, Zenon
<1>. QED BY <1>2, <1>4, PlainType, Zenon DEF InLocation

LEMMA SplitType == ASSUME NEW f \in Files PROVE Split(f) \in Seq(Label)
<1>. DEFINE piece(i) == IF f[i].text = Plain("") THEN <<>>
                        ELSE IF f[i].brace THEN <<f[i].text, Open>> ELSE <<f[i].text>>
<1>1. /\ Len(f) \in Nat
      /\ \A i \in 1..Len(f) : f[i].text \in Label
  <2>1. \A line \in [text : Label, brace : BOOLEAN] : line.text \in Label
    OBVIOUS
  <2>. DEFINE L == [text : Label, brace : BOOLEAN]
  <2>2. f \in Seq(L)
    BY FilesAssumption
  <2>. HIDE DEF L
  <2>3. Len(f) \in Nat /\ \A i \in 1..Len(f) : f[i] \in L
    BY <2>2
  <2>. QED BY <2>1, <2>3 DEF L
<1>0. Open \in Label
  <2>1. "{" \in Keys
    BY KeysAssumption
  <2>. QED BY <2>1, PlainType, Zenon DEF Open
<1>2. ASSUME NEW i \in 1..Len(f) PROVE piece(i) \in Seq(Label)
  <2>1. f[i].text \in Label
    BY <1>1
  <2>2. \A a, b \in Label : <<a, b>> \in Seq(Label) /\ <<a>> \in Seq(Label)
    OBVIOUS
  <2>3. <<>> \in Seq(Label)
    OBVIOUS
  <2>. HIDE DEF Open
  <2>. QED BY <1>0, <2>1, <2>2, <2>3, Zenon
<1>. HIDE DEF piece
<1>3. [i \in 1..Len(f) |-> piece(i)] \in Seq(Seq(Label))
  BY <1>1, <1>2
<1>4. FlattenSeq([i \in 1..Len(f) |-> piece(i)]) \in Seq(Label)
  BY <1>3, FlattenType
<1>. QED BY <1>4 DEF Split, piece

LEMMA HeadFacts ==
  ASSUME NEW S, NEW s \in Seq(S), s # <<>>
  PROVE  /\ Len(s) \in Nat \ {0} /\ Head(s) \in S /\ Head(s) = s[1]
         /\ Tail(s) \in Seq(S) /\ Len(Tail(s)) = Len(s) - 1
         /\ Tail(s) = <<>> <=> Len(s) = 1
         /\ \A j \in 1..(Len(s) - 1) : Tail(s)[j] = s[j + 1]
<1>1. /\ Len(s) \in Nat \ {0} /\ Head(s) \in S /\ Head(s) = s[1]
      /\ Tail(s) \in Seq(S) /\ Len(Tail(s)) = Len(s) - 1
      /\ \A j \in 1..(Len(s) - 1) : Tail(s)[j] = s[j + 1]
  OBVIOUS
<1>2. Tail(s) = <<>> <=> Len(s) = 1
  <2>. DEFINE t == Tail(s)
  <2>1. t \in Seq(S) /\ Len(t) = Len(s) - 1 /\ Len(s) \in Nat
    BY <1>1
  <2>. HIDE DEF t
  <2>2. t = <<>> <=> Len(t) = 0
    <3>1. t # <<>> => Len(t) \in Nat \ {0}
      BY <2>1, EmptySeq
    <3>2. Len(<<>>) = 0
      OBVIOUS
    <3>. QED BY <3>1, <3>2
  <2>3. t = <<>> <=> Len(s) = 1
    BY <2>1, <2>2
  <2>. QED BY <2>3 DEF t
<1>. QED BY <1>1, <1>2

LEMMA SkipFacts ==
  ASSUME NEW S, NEW s \in Seq(S), s # <<>>
  PROVE  /\ SubSeq(s, 3, Len(s)) \in Seq(S)
         /\ Len(SubSeq(s, 3, Len(s))) = IF Len(s) = 1 THEN 0 ELSE Len(s) - 2
         /\ \A j \in 1..(Len(s) - 2) : SubSeq(s, 3, Len(s))[j] = s[j + 2]
<1>. DEFINE n == Len(s)
            m == 3
            t == SubSeq(s, m, n)
<1>1. n \in Nat \ {0} /\ m \in Int /\ n \in Int /\ \A i \in m..n : s[i] \in S
  OBVIOUS
<1>. HIDE DEF n, m
<1>2. /\ t \in Seq(S)
      /\ Len(t) = IF m <= n THEN n - m + 1 ELSE 0
      /\ \A i \in 1..(n - m + 1) : t[i] = s[m + i - 1]
  BY <1>1, SubSeqProperties
<1>. HIDE DEF t
<1>. USE DEF m
<1>3. \A j \in 1..(n - 2) : j \in 1..(n - m + 1) /\ m + j - 1 = j + 2
  BY <1>1
<1>4. \A j \in 1..(n - 2) : t[j] = s[j + 2]
  BY <1>2, <1>3
<1>5. Len(t) = IF n = 1 THEN 0 ELSE n - 2
  BY <1>1, <1>2
<1>. QED BY <1>2, <1>4, <1>5 DEF t, n

LEMMA ExceptFacts ==
  ASSUME NEW S, NEW s \in Seq(S), s # <<>>, NEW t \in S
  PROVE  /\ [s EXCEPT ![1] = t] \in Seq(S) /\ Len([s EXCEPT ![1] = t]) = Len(s)
         /\ [s EXCEPT ![1] = t][1] = t
         /\ \A j \in 2..Len(s) : [s EXCEPT ![1] = t][j] = s[j]
<1>1. Len(s) \in Nat \ {0} /\ DOMAIN s = 1..Len(s) /\ \A i \in 1..Len(s) : s[i] \in S
  OBVIOUS
<1>. DEFINE e == [s EXCEPT ![1] = t]
<1>2. e \in [1..Len(s) -> S]
  BY <1>1
<1>3. e \in Seq(S) /\ Len(e) = Len(s)
  <2>. HIDE DEF e
  <2>1. DOMAIN e = 1..Len(s) /\ \A i \in 1..Len(s) : e[i] \in S
    BY <1>2
  <2>. QED BY <1>1, <1>2, <2>1
<1>. QED BY <1>1, <1>3

LEMMA OpenedFacts ==
  ASSUME NEW rest, NEW block, NEW next \in Opened(rest, block)
  PROVE  \/ next = block /\ rest # <<>> /\ rest[1] = Open
         \/ next = "refused" /\ (rest = <<>> \/ rest[1] # Open)
         \/ next = "crashed" /\ rest = <<>>
BY DEF Opened

LEMMA TypeStep == ASSUME TypeInv, [Next]_vars PROVE TypeInv'
<1>. USE DEF TypeInv
<1>1. CASE SkipComment
  <2>1. Tail(lines) \in Seq(Label)
    BY <1>1, HeadFacts DEF SkipComment, Reading
  <2>. QED BY <1>1, <2>1 DEF SkipComment
<1>2. CASE OpenServer
  <2>1. pc' \in {"server", "refused", "crashed"}
    BY <1>2, OpenedFacts DEF OpenServer
  <2>2. lines' \in Seq(Label)
    BY <1>2, SkipFacts DEF OpenServer, Reading
  <2>. QED BY <1>2, <2>1, <2>2 DEF OpenServer
<1>3. CASE OpenLocation
  <2>1. pc' \in {"location", "refused", "crashed"}
    BY <1>3, OpenedFacts DEF OpenLocation
  <2>2. lines' \in Seq(Label) /\ Head(lines) \in Label
    BY <1>3, SkipFacts, HeadFacts DEF OpenLocation, Reading
  <2>3. labels' \in Seq(Label)
    BY <1>3, <2>2 DEF OpenLocation
  <2>. QED BY <1>3, <2>1, <2>2, <2>3 DEF OpenLocation
<1>4. CASE ServerLine
  <2>1. Tail(lines) \in Seq(Label) /\ Head(lines) \in Label
    BY <1>4, HeadFacts DEF ServerLine, Reading
  <2>2. labels' \in Seq(Label)
    BY <1>4, <2>1 DEF ServerLine
  <2>. QED BY <1>4, <2>1, <2>2 DEF ServerLine
<1>5. CASE CloseServer
  <2>1. Tail(lines) \in Seq(Label)
    BY <1>5, HeadFacts DEF CloseServer, Reading
  <2>2. servers' \in Seq(Seq(Label)) /\ labels' \in Seq(Label)
    <3>. DEFINE L == Seq(Label)
    <3>1. <<>> \in L
      OBVIOUS
    <3>. HIDE DEF L
    <3>2. Append(servers, labels) \in Seq(L)
      BY DEF L
    <3>. QED BY <1>5, <3>1, <3>2 DEF CloseServer, L
  <2>. QED BY <1>5, <2>1, <2>2 DEF CloseServer
<1>6. CASE LocationLine
  <2>1. Tail(lines) \in Seq(Label) /\ InLocation(Head(lines)) \in Label
    BY <1>6, HeadFacts, InLocationLabel DEF LocationLine, Reading
  <2>2. labels' \in Seq(Label)
    BY <1>6, <2>1 DEF LocationLine
  <2>. QED BY <1>6, <2>1, <2>2 DEF LocationLine
<1>7. CASE CloseLocation
  <2>1. Tail(lines) \in Seq(Label)
    BY <1>7, HeadFacts DEF CloseLocation, Reading
  <2>. QED BY <1>7, <2>1 DEF CloseLocation
<1>8. CASE EndOfFile
  <2>1. pc' \in {"add", "refused"}
    BY <1>8 DEF EndOfFile
  <2>. QED BY <1>8, <2>1 DEF EndOfFile
<1>9. CASE AddLabel
  <2>1. /\ servers[1] \in Seq(Label) /\ servers[1] # <<>>
        /\ servers' = [servers EXCEPT ![1] = Tail(servers[1])]
    BY <1>9 DEF AddLabel
  <2>2. servers[1][1] \in Label /\ Tail(servers[1]) \in Seq(Label)
    BY <2>1, HeadFacts
  <2>3. servers' \in Seq(Seq(Label))
    <3>. DEFINE L == Seq(Label)
                t == Tail(servers[1])
    <3>1. t \in L /\ servers \in Seq(L) /\ servers' = [servers EXCEPT ![1] = t]
      BY <2>1, <2>2
    <3>. HIDE DEF L, t
    <3>2. servers # <<>>
      BY <1>9 DEF AddLabel
    <3>3. [servers EXCEPT ![1] = t] \in Seq(L)
      BY <3>1, <3>2, ExceptFacts
    <3>. QED BY <3>1, <3>3 DEF L
  <2>4. PICK outcome \in Add(config, servers[1][1]) :
          /\ config' = outcome.config
          /\ pc' = CASE outcome.end = "ok"      -> pc
                     [] outcome.end = "failed"  -> "refused"
                     [] outcome.end = "crashed" -> "crashed"
    BY <1>9 DEF AddLabel
  <2>5. outcome \in Results
    BY <2>2, <2>4, AddType
  <2>6. config' \in Configs /\ pc' \in {"add", "refused", "crashed"}
    BY <1>9, <2>4, <2>5 DEF AddLabel, Results
  <2>. QED BY <1>9, <2>3, <2>6 DEF AddLabel
<1>10. CASE FinishServer
  <2>1. servers' \in Seq(Seq(Label))
    BY <1>10, HeadFacts DEF FinishServer
  <2>2. data' \in Seq(Configs) /\ config' \in Configs
    BY <1>10, NewConfigType DEF FinishServer
  <2>. QED BY <1>10, <2>1, <2>2 DEF FinishServer
<1>11. CASE Finish
  BY <1>11 DEF Finish
<1>12. CASE StartServer
  <2>1. Len(ports) + 1 \in 1..Len(data)
    BY <1>12 DEF StartServer, Starting
  <2>2. data[Len(ports) + 1].port \in Ports
    BY <2>1, ConfigFields
  <2>3. \/ ports' = Append(ports, data[Len(ports) + 1].port) /\ pc' = pc
        \/ ports' = ports /\ pc' \in {"failed", "unable"}
    BY <1>12 DEF StartServer
  <2>. DEFINE port == data[Len(ports) + 1].port
  <2>. HIDE DEF port
  <2>4. ports' \in Seq(Ports) /\ pc' \in {"accepted", "failed", "unable"}
    <3>1. pc = "accepted" /\ ports \in Seq(Ports) /\ Append(ports, port) \in Seq(Ports)
      BY <1>12, <2>2 DEF StartServer, Starting, port
    <3>. QED BY <2>3, <3>1 DEF port
  <2>. QED BY <1>12, <2>4 DEF StartServer
<1>13. CASE EnterLoop
  <2>1. pc' \in {"stopped", "serving"}
    BY <1>13 DEF EnterLoop
  <2>. QED BY <1>13, <2>1 DEF EnterLoop
<1>14. CASE UNCHANGED vars
  BY <1>14 DEF vars
<1>. QED BY <1>1, <1>2, <1>3, <1>4, <1>5, <1>6, <1>7, <1>8, <1>9, <1>10, <1>11, <1>12,
            <1>13, <1>14 DEF Next, GetLabels, Terminated

LEMMA TypeInit == ASSUME Init PROVE TypeInv
<1>1. file \in Seq(Label)
  BY SplitType DEF Init
<1>2. <<>> \in Seq(Label) /\ <<>> \in Seq(Seq(Label)) /\ <<>> \in Seq(Ports)
      /\ <<>> \in Seq(Configs)
  OBVIOUS
<1>. QED BY <1>1, <1>2, NewConfigType DEF Init, TypeInv

LEMMA TypeInvOK == ASSUME TypeInv PROVE TypeOK
<1>1. ConfigOK(config) /\ \A k \in 1..Len(data) : ConfigOK(data[k])
  BY ConfigRanges DEF TypeInv
<1>. QED BY <1>1 DEF TypeInv, TypeOK

------------------------------------------------------------------------------
(* Counting the lines. *)

LEMMA CountStep ==
  ASSUME NEW T, NEW n \in Nat
  PROVE  /\ Cardinality({j \in 1..n : j \in T}) \in Nat
         /\ Cardinality({j \in 1..(n + 1) : j \in T})
              = Cardinality({j \in 1..n : j \in T}) + IF n + 1 \in T THEN 1 ELSE 0
<1>. DEFINE A == {j \in 1..n : j \in T}
            B == {j \in 1..(n + 1) : j \in T}
<1>1. IsFiniteSet(A) /\ Cardinality(A) \in Nat
  <2>1. IsFiniteSet(1..n) /\ A \subseteq 1..n
    BY FS_Interval
  <2>2. IsFiniteSet(A)
    BY <2>1, FS_Subset
  <2>. QED BY <2>2, FS_CardinalityType
<1>2. CASE n + 1 \in T
  <2>1. B = A \cup {n + 1} /\ n + 1 \notin A
    BY <1>2
  <2>. HIDE DEF A, B
  <2>2. Cardinality(B) = Cardinality(A) + 1
    BY <1>1, <2>1, FS_AddElement
  <2>. QED BY <1>1, <1>2, <2>2 DEF A, B
<1>3. CASE n + 1 \notin T
  <2>1. A = B
    BY <1>3
  <2>. HIDE DEF A, B
  <2>2. Cardinality(B) = Cardinality(A) + 0
    BY <1>1, <2>1
  <2>. QED BY <1>1, <1>3, <2>2 DEF A, B
<1>. QED BY <1>2, <1>3

LEMMA CountNone == ASSUME NEW T PROVE Cardinality({j \in 1..0 : j \in T}) = 0
<1>1. {j \in 1..0 : j \in T} = {}
  OBVIOUS
<1>. QED BY <1>1, FS_EmptySet, Zenon

LinesLike(l) == {j \in Nat : file[j] = l}

LEMMA CountLike ==
  ASSUME NEW n \in Nat, NEW l
  PROVE  Cardinality({j \in 1..n : file[j] = l}) = Cardinality({j \in 1..n : j \in LinesLike(l)})
<1>1. {j \in 1..n : file[j] = l} = {j \in 1..n : j \in LinesLike(l)}
  BY DEF LinesLike
<1>. QED BY <1>1, Zenon

LEMMA PlainFacts ==
  ASSUME NEW key PROVE Plain(key).key = key /\ ~Plain(key).prefixed /\ Plain(key).value = <<>>
<1>1. \A v, key1 : LET r == [prefixed |-> v, key |-> key1, value |-> <<>>]
                   IN  r.prefixed = v /\ r.key = key1 /\ r.value = <<>>
  OBVIOUS
<1>. QED BY <1>1, Zenon DEF Plain

LEMMA Kinds ==
  /\ Open # Close /\ Open # Server /\ Close # Server
  /\ \A l \in {Open, Close, Server} : ~IsComment(l) /\ ~IsLocation(l)
<1>1. /\ Open.key = "{" /\ Close.key = "}" /\ Server.key = "server"
      /\ ~Open.prefixed /\ ~Close.prefixed /\ ~Server.prefixed
  BY PlainFacts DEF Open, Close, Server
<1>. QED BY <1>1 DEF IsComment, IsLocation

LEMMA DepthFacts ==
  /\ Depth(1) = 0 /\ ServerOf(0) = 0
  /\ \A n \in Nat :
       /\ Depth(n + 1) \in Int /\ ServerOf(n) \in Nat
       /\ Depth(n + 2) = Depth(n + 1) + CASE file[n + 1] = Open  -> 1
                                          [] file[n + 1] = Close -> -1
                                          [] OTHER               -> 0
       /\ ServerOf(n + 1) = ServerOf(n) + IF file[n + 1] = Server THEN 1 ELSE 0
<1>. DEFINE Of(l, n) == Cardinality({j \in 1..n : j \in LinesLike(l)})
<1>1. \A n \in Nat : Depth(n + 1) = Of(Open, n) - Of(Close, n) /\ ServerOf(n) = Of(Server, n)
  <2>. TAKE n \in Nat
  <2>1. n + 1 - 1 = n
    OBVIOUS
  <2>2. /\ Depth(n + 1) = Cardinality({j \in 1..n : file[j] = Open})
                            - Cardinality({j \in 1..n : file[j] = Close})
        /\ ServerOf(n) = Cardinality({j \in 1..n : file[j] = Server})
    BY <2>1 DEF Depth, ServerOf, Count
  <2>. QED BY <2>2, CountLike
<1>2. ASSUME NEW l, NEW n \in Nat
      PROVE  /\ Of(l, n) \in Nat /\ Of(l, 0) = 0
             /\ Of(l, n + 1) = Of(l, n) + IF file[n + 1] = l THEN 1 ELSE 0
  <2>1. n + 1 \in LinesLike(l) <=> file[n + 1] = l
    BY DEF LinesLike
  <2>. QED BY <2>1, CountStep, CountNone
<1>. HIDE DEF Of
<1>3. Depth(1) = 0 /\ ServerOf(0) = 0
  <2>1. 0 \in Nat /\ 0 + 1 = 1
    OBVIOUS
  <2>2. Depth(0 + 1) = 0 /\ ServerOf(0) = 0
    BY <1>1, <1>2, <2>1
  <2>. QED BY <2>1, <2>2
<1>4. ASSUME NEW n \in Nat
      PROVE  /\ Depth(n + 1) \in Int /\ ServerOf(n) \in Nat
             /\ Depth(n + 2) = Depth(n + 1) + CASE file[n + 1] = Open  -> 1
                                                [] file[n + 1] = Close -> -1
                                                [] OTHER               -> 0
             /\ ServerOf(n + 1) = ServerOf(n) + IF file[n + 1] = Server THEN 1 ELSE 0
  <2>1. n + 1 \in Nat /\ n + 1 + 1 = n + 2
    OBVIOUS
  <2>2. Depth(n + 2) = Of(Open, n + 1) - Of(Close, n + 1)
    BY <1>1, <2>1
  <2>3. Depth(n + 1) = Of(Open, n) - Of(Close, n)
    BY <1>1
  <2>4. Depth(n + 2) = Depth(n + 1) + (IF file[n + 1] = Open THEN 1 ELSE 0)
                                    - (IF file[n + 1] = Close THEN 1 ELSE 0)
    BY <1>2, <2>2, <2>3
  <2>5. Depth(n + 1) \in Int
    BY <1>2, <2>3
  <2>6. ServerOf(n) \in Nat
        /\ ServerOf(n + 1) = ServerOf(n) + IF file[n + 1] = Server THEN 1 ELSE 0
    BY <1>1, <1>2, <2>1
  <2>7. file[n + 1] = Open => file[n + 1] # Close
    BY Kinds
  <2>. QED BY <2>4, <2>5, <2>6, <2>7
<1>. QED BY <1>3, <1>4

(* The file stays what it is, and so does all that is said of its lines. *)
LEMMA Frozen ==
  ASSUME file' = file
  PROVE  /\ \A i : /\ Depth(i)' = Depth(i) /\ ServerOf(i)' = ServerOf(i)
                   /\ IsHeader(i)' = IsHeader(i) /\ RightLine(i)' = RightLine(i)
                   /\ Homeless(i)' = Homeless(i)
         /\ Nested' = Nested /\ HarmlessFile' = HarmlessFile
<1>1. \A i : Depth(i)' = Depth(i)
  BY DEF Depth, Count
<1>2. \A i : ServerOf(i)' = ServerOf(i) /\ LocationOf(i)' = LocationOf(i)
  BY DEF ServerOf, LocationOf, Count
<1>3. \A i : IsHeader(i)' = IsHeader(i)
  BY <1>1 DEF IsHeader
<1>4. \A i : RightLine(i)' = RightLine(i)
  BY <1>1, <1>3 DEF RightLine
<1>5. \A i : Homeless(i)' = Homeless(i)
  BY <1>1, <1>2 DEF Homeless
<1>6. Nested' = Nested
  BY <1>1, <1>3 DEF Nested
<1>7. \A i : Harmless(i)' = Harmless(i)
  BY <1>1 DEF Harmless, OfServer, OfLocation
<1>. QED BY <1>1, <1>2, <1>3, <1>4, <1>5, <1>6, <1>7 DEF HarmlessFile

LEMMA NestedLines ==
  Nested <=> Depth(Len(file) + 1) = 0 /\ \A i \in 1..Len(file) : RightLine(i)
BY DEF Nested, RightLine

------------------------------------------------------------------------------
(* What a step reads, and the labels it leaves. *)

LEMMA SeenFacts ==
  ASSUME TypeInv, LinesOfFile
  PROVE  Seen \in 0..Len(file) /\ Len(file) \in Nat /\ Len(lines) = Len(file) - Seen
BY DEF TypeInv, LinesOfFile, Seen

LEMMA OneLine ==
  ASSUME TypeInv, LinesOfFile, lines # <<>>, lines' = Tail(lines), file' = file
  PROVE  /\ Seen' = Seen + 1 /\ Seen + 1 \in 1..Len(file)
         /\ Head(lines) = file[Seen + 1]
         /\ LinesOfFile'
<1>1. /\ Len(lines) \in Nat \ {0} /\ Len(lines') = Len(lines) - 1
      /\ Head(lines) = lines[1] /\ Len(file) \in Nat
      /\ \A j \in 1..(Len(lines) - 1) : lines'[j] = lines[j + 1]
  BY HeadFacts DEF TypeInv
<1>2. Len(lines) <= Len(file) /\ \A j \in 1..Len(lines) : lines[j] = file[Seen + j]
  BY DEF LinesOfFile
<1>3. Seen = Len(file) - Len(lines) /\ Seen' = Len(file) - Len(lines')
  BY DEF Seen
<1>4. Seen' = Seen + 1 /\ Seen + 1 \in 1..Len(file) /\ Head(lines) = file[Seen + 1]
  BY <1>1, <1>2, <1>3
<1>5. ASSUME NEW j \in 1..Len(lines') PROVE lines'[j] = file'[Seen' + j]
  <2>1. j \in 1..(Len(lines) - 1) /\ j + 1 \in 1..Len(lines) /\ Seen \in Int
    BY <1>1, <1>2, <1>3
  <2>2. lines'[j] = file[Seen + (j + 1)]
    BY <1>1, <1>2, <2>1
  <2>3. Seen + (j + 1) = Seen' + j
    BY <1>4, <2>1
  <2>. QED BY <2>2, <2>3
<1>6. Len(lines') <= Len(file')
  BY <1>1, <1>2
<1>. QED BY <1>4, <1>5, <1>6 DEF LinesOfFile

LEMMA TwoLines ==
  ASSUME TypeInv, LinesOfFile, lines # <<>>, lines' = SubSeq(lines, 3, Len(lines)),
         file' = file
  PROVE  /\ Seen + 1 \in 1..Len(file) /\ Head(lines) = file[Seen + 1]
         /\ LinesOfFile'
         /\ IF Tail(lines) = <<>> THEN Seen + 1 = Len(file)
            ELSE /\ Seen' = Seen + 2 /\ Seen + 2 \in 1..Len(file)
                 /\ Tail(lines)[1] = file[Seen + 2]
<1>. DEFINE n == Len(lines)
            n2 == Len(lines')
            N == Len(file)
            rest == Tail(lines)
<1>1. n \in Nat \ {0} /\ Head(lines) = lines[1] /\ N \in Nat
  BY HeadFacts DEF TypeInv
<1>2. (rest = <<>> <=> n = 1) /\ \A j \in 1..(n - 1) : rest[j] = lines[j + 1]
  BY HeadFacts, Zenon DEF TypeInv
<1>3. /\ n2 = IF n = 1 THEN 0 ELSE n - 2
      /\ \A j \in 1..(n - 2) : lines'[j] = lines[j + 2]
  BY SkipFacts, Zenon DEF TypeInv
<1>4. n <= N /\ \A j \in 1..n : lines[j] = file[Seen + j]
  BY DEF LinesOfFile
<1>5. Seen = N - n /\ Seen' = N - n2
  BY DEF Seen
<1>6. Len(file') = N
  OBVIOUS
<1>. HIDE DEF n, n2, N, rest
<1>7. Seen + 1 \in 1..N /\ Head(lines) = file[Seen + 1]
  BY <1>1, <1>4, <1>5
<1>8. CASE n = 1
  <2>1. rest = <<>> /\ Seen + 1 = N /\ n2 = 0
    BY <1>1, <1>2, <1>3, <1>5, <1>8
  <2>2. LinesOfFile'
    BY <1>1, <1>6, <2>1 DEF LinesOfFile, n2
  <2>. QED BY <1>7, <2>1, <2>2 DEF N, rest
<1>9. CASE n # 1
  <2>1. n > 1 /\ rest # <<>> /\ n2 = n - 2 /\ Seen' = Seen + 2 /\ Seen + 2 \in 1..N
    BY <1>1, <1>2, <1>3, <1>4, <1>5, <1>9
  <2>2. rest[1] = file[Seen + 2]
    <3>1. rest[1] = lines[1 + 1] /\ lines[2] = file[Seen + 2] /\ 1 + 1 = 2
      BY <1>1, <1>2, <1>4, <2>1
    <3>. QED BY <3>1
  <2>3. ASSUME NEW j \in 1..n2 PROVE lines'[j] = file[Seen' + j]
    <3>1. j \in 1..(n - 2) /\ j + 2 \in 1..n /\ Seen \in Int
      BY <1>1, <1>4, <1>5, <2>1
    <3>2. lines'[j] = file[Seen + (j + 2)]
      BY <1>3, <1>4, <3>1
    <3>3. Seen + (j + 2) = Seen' + j
      BY <2>1, <3>1
    <3>. QED BY <3>2, <3>3
  <2>4. n2 <= N
    BY <1>1, <1>4, <2>1
  <2>5. LinesOfFile'
    BY <1>6, <2>3, <2>4 DEF LinesOfFile, n2
  <2>. QED BY <1>7, <2>1, <2>2, <2>5 DEF N, rest
<1>. QED BY <1>8, <1>9

LEMMA LinesStep == ASSUME TypeInv, LinesOfFile, [Next]_vars PROVE LinesOfFile'
<1>1. CASE SkipComment \/ ServerLine \/ CloseServer \/ LocationLine \/ CloseLocation
  BY <1>1, OneLine
     DEF SkipComment, ServerLine, CloseServer, LocationLine, CloseLocation, Reading
<1>2. CASE OpenServer \/ OpenLocation
  BY <1>2, TwoLines DEF OpenServer, OpenLocation, Reading
<1>3. CASE UNCHANGED <<file, lines>>
  BY <1>3 DEF LinesOfFile, Seen
<1>4. \/ SkipComment \/ ServerLine \/ CloseServer \/ LocationLine \/ CloseLocation
      \/ OpenServer \/ OpenLocation \/ UNCHANGED <<file, lines>>
  BY DEF Next, GetLabels, EndOfFile, AddLabel, FinishServer, Finish, StartServer, EnterLoop,
         Terminated, vars
<1>. QED BY <1>1, <1>2, <1>3, <1>4

LEMMA AppendFacts ==
  ASSUME NEW ss \in Seq(Seq(Label)), NEW s \in Seq(Label)
  PROVE  LET b == Append(ss, s)
         IN  /\ b \in Seq(Seq(Label)) /\ Len(b) = Len(ss) + 1
             /\ Len(ss) \in Nat /\ Len(s) \in Nat
             /\ b[Len(ss) + 1] = s
             /\ \A k \in 1..Len(ss) : b[k] = ss[k]
             /\ \A k \in 1..Len(b) :
                  /\ b[k] \in Seq(Label) /\ Len(b[k]) \in Nat
                  /\ \A p \in 1..Len(b[k]) : b[k][p] \in Label
<1>. DEFINE L == Seq(Label)
            b == Append(ss, s)
<1>1. ss \in Seq(L) /\ s \in L
  OBVIOUS
<1>. HIDE DEF L
<1>2. /\ b \in Seq(L) /\ Len(b) = Len(ss) + 1
      /\ Len(ss) \in Nat /\ b[Len(ss) + 1] = s
      /\ \A k \in 1..Len(ss) : b[k] = ss[k]
      /\ \A k \in 1..Len(b) : b[k] \in L
  BY <1>1
<1>3. \A t \in L : Len(t) \in Nat /\ \A p \in 1..Len(t) : t[p] \in Label
  BY DEF L
<1>. HIDE DEF b
<1>4. \A k \in 1..Len(b) : /\ b[k] \in L /\ Len(b[k]) \in Nat
                           /\ \A p \in 1..Len(b[k]) : b[k][p] \in Label
  BY <1>2, <1>3
<1>5. Len(s) \in Nat
  BY <1>1, <1>3
<1>. QED BY <1>2, <1>4, <1>5 DEF L, b

LEMMA BlocksFacts ==
  ASSUME TypeInv
  PROVE  /\ Blocks \in Seq(Seq(Label)) /\ Len(Blocks) = Len(servers) + 1
         /\ Len(servers) \in Nat /\ Len(labels) \in Nat
         /\ Blocks[Len(servers) + 1] = labels
         /\ \A k \in 1..Len(servers) : Blocks[k] = servers[k]
         /\ \A k \in 1..Len(Blocks) :
              /\ Blocks[k] \in Seq(Label) /\ Len(Blocks[k]) \in Nat
              /\ \A p \in 1..Len(Blocks[k]) : Blocks[k][p] \in Label
BY AppendFacts, Zenon DEF TypeInv, Blocks

LEMMA NextBlocks ==
  ASSUME TypeInv'
  PROVE  /\ Blocks' \in Seq(Seq(Label)) /\ Len(Blocks') = Len(servers') + 1
         /\ Len(servers') \in Nat /\ Len(labels') \in Nat
         /\ Blocks'[Len(servers') + 1] = labels'
         /\ \A k \in 1..Len(servers') : Blocks'[k] = servers'[k]
         /\ \A k \in 1..Len(Blocks') :
              /\ Blocks'[k] \in Seq(Label) /\ Len(Blocks'[k]) \in Nat
              /\ \A p \in 1..Len(Blocks'[k]) : Blocks'[k][p] \in Label
BY AppendFacts, Zenon DEF TypeInv, Blocks

(* All labels of b are where they were in c. *)
Kept(b, c) ==
  /\ Len(b) <= Len(c)
  /\ \A k \in 1..Len(b) :
       Len(b[k]) <= Len(c[k]) /\ \A p \in 1..Len(b[k]) : c[k][p] = b[k][p]

LEMMA KeptFacts ==
  ASSUME NEW b \in Seq(Seq(Label)), NEW c \in Seq(Seq(Label)), Kept(b, c)
  PROVE  /\ AnyRefused(b) => AnyRefused(c)
         /\ \A k, p : RefusedBefore(b, k, p) => RefusedBefore(c, k, p)
<1>1. /\ Len(b) \in Nat /\ Len(c) \in Nat
      /\ \A k \in 1..Len(b) : k \in 1..Len(c) /\ b[k] \in Seq(Label) /\ c[k] \in Seq(Label)
  BY DEF Kept
<1>2. \A k \in 1..Len(b) : \A p \in 1..Len(b[k]) :
        k \in 1..Len(c) /\ p \in 1..Len(c[k]) /\ c[k][p] = b[k][p]
  BY <1>1 DEF Kept
<1>. QED BY <1>2 DEF AnyRefused, RefusedBefore

(* A label is added behind those of the open server. *)
LEMMA Labelled ==
  ASSUME TypeInv, TypeInv', NEW l, labels' = Append(labels, l), servers' = servers
  PROVE  /\ Kept(Blocks, Blocks') /\ Len(Blocks') = Len(Blocks)
         /\ Len(labels') = Len(labels) + 1 /\ labels'[Len(labels) + 1] = l
         /\ \A p \in 1..Len(labels) : labels'[p] = labels[p]
         /\ Refused(l) => AnyRefused(Blocks')
<1>1. /\ Len(labels) \in Nat
      /\ Len(labels') = Len(labels) + 1 /\ labels'[Len(labels) + 1] = l
      /\ \A p \in 1..Len(labels) : labels'[p] = labels[p]
  BY DEF TypeInv
<1>2. /\ Len(Blocks') = Len(servers') + 1
      /\ Blocks'[Len(servers) + 1] = labels'
      /\ \A k \in 1..Len(servers') : Blocks'[k] = servers'[k]
  BY NextBlocks
<1>3. Kept(Blocks, Blocks')
  <2>1. \A k \in 1..Len(Blocks) : k = Len(servers) + 1 \/ k \in 1..Len(servers)
    BY BlocksFacts
  <2>2. \A k \in 1..Len(servers) : Blocks'[k] = Blocks[k] /\ Len(Blocks[k]) \in Nat
    BY <1>2, BlocksFacts
  <2>3. Len(Blocks) = Len(Blocks') /\ Len(Blocks) \in Nat
    BY <1>2, BlocksFacts
  <2>4. Blocks[Len(servers) + 1] = labels
    BY BlocksFacts
  <2>5. ASSUME NEW k \in 1..Len(Blocks)
        PROVE  /\ Len(Blocks[k]) <= Len(Blocks'[k])
               /\ \A p \in 1..Len(Blocks[k]) : Blocks'[k][p] = Blocks[k][p]
    <3>1. CASE k = Len(servers) + 1
      <4>1. Blocks[k] = labels /\ Blocks'[k] = labels'
        BY <1>2, <2>4, <3>1
      <4>2. Len(labels) <= Len(labels')
        BY <1>1
      <4>. QED BY <1>1, <4>1, <4>2, Zenon
    <3>2. CASE k \in 1..Len(servers)
      BY <2>2, <3>2
    <3>. QED BY <2>1, <3>1, <3>2
  <2>6. Len(Blocks) <= Len(Blocks')
    BY <2>3
  <2>. QED BY <2>5, <2>6, Zenon DEF Kept
<1>4. Refused(l) => AnyRefused(Blocks')
  <2>1. Len(servers) + 1 \in 1..Len(Blocks')
    BY <1>2, BlocksFacts
  <2>2. Len(labels) + 1 \in 1..Len(labels')
    BY <1>1
  <2>. QED BY <1>1, <1>2, <2>1, <2>2 DEF AnyRefused
<1>5. Len(Blocks') = Len(Blocks)
  BY <1>2, BlocksFacts
<1>. QED BY <1>1, <1>3, <1>4, <1>5

------------------------------------------------------------------------------
(* The reader follows the braces. *)

LEMMA Levels == Level["top"] = 0 /\ Level["server"] = 1 /\ Level["location"] = 2
BY DEF Level, Reader

LEMMA Headers ==
  ASSUME NEW i
  PROVE  /\ IsHeader(i) => Depth(i) \in {0, 1} /\ ~IsComment(file[i])
         /\ IsHeader(i) <=> \/ Depth(i) = 0 /\ file[i] = Server
                            \/ Depth(i) = 1 /\ IsLocation(file[i])
<1>1. IsHeader(i) <=> \/ Depth(i) = 0 /\ file[i] = Server
                      \/ Depth(i) = 1 /\ IsLocation(file[i])
  BY DEF IsHeader
<1>2. IsLocation(file[i]) => ~IsComment(file[i])
  BY DEF IsLocation, IsComment
<1>. QED BY <1>1, <1>2, Kinds

(* A line that is neither a header nor a brace that opens a block. *)
LEMMA NextLine ==
  ASSUME TypeInv, LinesOfFile, AsNested, pc \in Reader,
         lines # <<>>, lines' = Tail(lines), file' = file,
         Head(lines) # Open, pc = "top" => IsComment(Head(lines)),
         pc = "server" => ~IsLocation(Head(lines))
  PROVE  /\ \A i \in 1..Seen' : RightLine(i)
         /\ Seen' > 0 /\ ~IsHeader(Seen')
         /\ Depth(Seen' + 1) = Level[pc] + IF Head(lines) = Close THEN -1 ELSE 0
         /\ ServerOf(Seen') = ServerOf(Seen) + IF Head(lines) = Server THEN 1 ELSE 0
<1>. DEFINE n == Seen
            l == file[n + 1]
<1>1. /\ n \in Nat /\ Seen' = n + 1 /\ Head(lines) = l /\ n + 1 \in 1..Len(file)
  BY SeenFacts, OneLine
<1>2. /\ Depth(n + 1) = Level[pc] /\ \A i \in 1..n : RightLine(i)
      /\ n > 0 => ~IsHeader(n)
  BY DEF AsNested
<1>. HIDE DEF n
<1>3. Depth(n + 1) \in 0..2 /\ (Depth(n + 1) = 0 => pc = "top")
      /\ (Depth(n + 1) = 1 => pc = "server")
  BY <1>2, Levels DEF Reader
<1>4. ~IsHeader(n + 1)
  BY <1>1, <1>3, Headers
<1>5. RightLine(n + 1)
  <2>1. CASE IsComment(l)
    BY <2>1 DEF RightLine
  <2>2. CASE ~IsComment(l)
    <3>1. Depth(n + 1) # 0
      BY <1>1, <1>3, <2>2
    <3>2. n + 1 > 1 => ~IsHeader(n + 1 - 1)
      BY <1>1, <1>2
    <3>. QED BY <1>1, <1>3, <1>4, <3>1, <3>2 DEF RightLine
  <2>. QED BY <2>1, <2>2
<1>6. \A i \in 1..(n + 1) : RightLine(i)
  BY <1>1, <1>2, <1>5
<1>7. /\ Depth(n + 2) = Depth(n + 1) + CASE l = Open  -> 1
                                         [] l = Close -> -1
                                         [] OTHER     -> 0
      /\ ServerOf(n + 1) = ServerOf(n) + IF l = Server THEN 1 ELSE 0
  BY <1>1, DepthFacts
<1>8. n + 1 + 1 = n + 2
  BY <1>1
<1>9. Depth(n + 2) = Level[pc] + IF l = Close THEN -1 ELSE 0
  BY <1>1, <1>2, <1>7
<1>. QED BY <1>1, <1>4, <1>6, <1>7, <1>8, <1>9 DEF n

(* A header and its brace. *)
LEMMA NextHeader ==
  ASSUME TypeInv, LinesOfFile, AsNested, pc \in Reader,
         lines # <<>>, lines' = SubSeq(lines, 3, Len(lines)), file' = file,
         Tail(lines) # <<>>, Tail(lines)[1] = Open,
         \/ pc = "top" /\ Head(lines) = Server
         \/ pc = "server" /\ IsLocation(Head(lines))
  PROVE  /\ Seen' = Seen + 2
         /\ file[Seen + 1] = Head(lines) /\ file[Seen + 2] = Open
         /\ \A i \in 1..Seen' : RightLine(i)
         /\ Seen' > 0 /\ ~IsHeader(Seen')
         /\ Depth(Seen' + 1) = Level[pc] + 1
         /\ ServerOf(Seen') = ServerOf(Seen) + IF Head(lines) = Server THEN 1 ELSE 0
<1>. DEFINE n == Seen
            l == file[n + 1]
<1>1. /\ n \in Nat /\ Seen' = n + 2 /\ Head(lines) = l /\ n + 1 \in 1..Len(file)
      /\ n + 2 \in 1..Len(file) /\ file[n + 2] = Open
  BY SeenFacts, TwoLines
<1>2. /\ Depth(n + 1) = Level[pc] /\ \A i \in 1..n : RightLine(i)
      /\ n > 0 => ~IsHeader(n)
  BY DEF AsNested
<1>. HIDE DEF n
<1>3. Depth(n + 1) \in {0, 1} /\ IsHeader(n + 1)
  BY <1>1, <1>2, Levels, Headers
<1>4. l # Open /\ l # Close
  BY <1>1, Kinds
<1>5. /\ Depth(n + 2) = Depth(n + 1)
      /\ ServerOf(n + 1) = ServerOf(n) + IF l = Server THEN 1 ELSE 0
  BY <1>1, <1>3, <1>4, DepthFacts
<1>6. Depth(n + 3) = Depth(n + 1) + 1 /\ ServerOf(n + 2) = ServerOf(n + 1)
  <2>1. n + 1 \in Nat /\ n + 1 + 1 = n + 2 /\ n + 1 + 2 = n + 3
    BY <1>1
  <2>2. /\ Depth(n + 3) = Depth(n + 2) + CASE file[n + 2] = Open  -> 1
                                           [] file[n + 2] = Close -> -1
                                           [] OTHER               -> 0
        /\ ServerOf(n + 2) = ServerOf(n + 1) + IF file[n + 2] = Server THEN 1 ELSE 0
    BY <2>1, DepthFacts
  <2>3. ServerOf(n + 1) \in Nat
    BY <2>1, DepthFacts
  <2>. QED BY <1>1, <1>3, <1>5, <2>2, <2>3, Kinds
<1>7. RightLine(n + 1)
  <2>1. n + 1 > 1 => ~IsHeader(n + 1 - 1)
    BY <1>1, <1>2
  <2>2. n + 1 < Len(file) /\ file[n + 1 + 1] = Open
    BY <1>1
  <2>3. Depth(n + 1) = 0 => l = Server
    BY <1>3, Headers
  <2>4. Depth(n + 1) \in 0..2
    BY <1>3
  <2>5. l = Open <=> n + 1 > 1 /\ IsHeader(n + 1 - 1)
    BY <1>4, <2>1, Zenon
  <2>6. Depth(n + 1) = 0 => l \in {Server, Open}
    BY <2>3
  <2>. QED BY <1>1, <2>2, <2>4, <2>5, <2>6 DEF RightLine
<1>8. ~IsHeader(n + 2)
  BY <1>1, <1>5, Headers, Kinds
<1>9. RightLine(n + 2)
  <2>1. n + 2 > 1 /\ n + 2 - 1 = n + 1
    BY <1>1
  <2>2. Depth(n + 2) \in 0..2
    BY <1>3, <1>5
  <2>. QED BY <1>1, <1>3, <1>8, <2>1, <2>2 DEF RightLine
<1>10. \A i \in 1..(n + 2) : RightLine(i)
  <2>1. \A i \in 1..(n + 2) : i \in 1..n \/ i = n + 1 \/ i = n + 2
    BY <1>1
  <2>. QED BY <1>2, <1>7, <1>9, <2>1
<1>11. n + 2 + 1 = n + 3 /\ n + 2 > 0
  BY <1>1
<1>. QED BY <1>1, <1>2, <1>5, <1>6, <1>8, <1>10, <1>11 DEF n

LEMMA StillNested ==
  ASSUME file' = file,
         Depth(Seen' + 1) = Level[pc'],
         \A i \in 1..Seen' : RightLine(i),
         Seen' > 0 => ~IsHeader(Seen'),
         ServerOf(Seen') = Len(servers') + IF pc' = "top" THEN 0 ELSE 1,
         pc' # "top" => \E h \in 1..Seen' :
           /\ file[h] = Server
           /\ \A j \in (h + 1)..Seen' :
                file[j] # Server /\ (IsAt(file[j]) => HasLocation(labels'))
  PROVE  AsNested'
<1>1. Depth(Seen + 1)' = Level[pc']
  BY Frozen
<1>2. (\A i \in 1..Seen : RightLine(i))'
  BY Frozen
<1>3. (Seen > 0 => ~IsHeader(Seen))'
  BY Frozen
<1>4. (ServerOf(Seen) = Len(servers) + InServer)'
  BY Frozen DEF InServer
<1>. QED BY <1>1, <1>2, <1>3, <1>4, Zenon DEF AsNested

LEMMA HasLocationFacts ==
  ASSUME TypeInv, NEW l, labels' = Append(labels, l)
  PROVE  /\ HasLocation(labels) => HasLocation(labels')
         /\ IsAt(l) => HasLocation(labels')
<1>1. /\ Len(labels) \in Nat
      /\ Len(labels') = Len(labels) + 1 /\ labels'[Len(labels) + 1] = l
      /\ \A p \in 1..Len(labels) : labels'[p] = labels[p] /\ p \in 1..Len(labels')
  BY DEF TypeInv
<1>2. Len(labels) + 1 \in 1..Len(labels')
  BY <1>1
<1>. QED BY <1>1, <1>2 DEF HasLocation

(* The header of the server is still the last, after lines that are no headers of
   servers. *)
LEMMA SameServer ==
  ASSUME TypeInv, LinesOfFile, AsNested, pc # "top", NEW m \in Nat, Seen <= m,
         HasLocation(labels) => HasLocation(labels'),
         \A j \in (Seen + 1)..m : file[j] # Server /\ (IsAt(file[j]) => HasLocation(labels'))
  PROVE  \E h \in 1..m :
           /\ file[h] = Server
           /\ \A j \in (h + 1)..m :
                file[j] # Server /\ (IsAt(file[j]) => HasLocation(labels'))
<1>1. PICK h \in 1..Seen :
        /\ file[h] = Server
        /\ \A j \in (h + 1)..Seen :
             file[j] # Server /\ (IsAt(file[j]) => HasLocation(labels))
  BY DEF AsNested
<1>2. h \in 1..m /\ \A j \in (h + 1)..m : j \in (h + 1)..Seen \/ j \in (Seen + 1)..m
  BY SeenFacts
<1>. QED BY <1>1, <1>2

LEMMA AtIsLocation == ASSUME NEW l PROVE IsAt(l) => IsLocation(l) /\ ~IsComment(l)
BY DEF IsAt, IsLocation, IsComment

LEMMA Closed == ASSUME TypeInv, TypeInv', CloseServer PROVE Kept(Blocks, Blocks')
<1>1. servers' = Append(servers, labels) /\ labels' = <<>>
  BY DEF CloseServer
<1>2. servers' = Blocks
  BY <1>1 DEF Blocks
<1>3. Len(Blocks') = Len(Blocks) + 1 /\ \A k \in 1..Len(Blocks) : Blocks'[k] = Blocks[k]
  BY <1>2, NextBlocks
<1>4. Len(Blocks) \in Nat /\ \A k \in 1..Len(Blocks) : Len(Blocks[k]) \in Nat
  BY BlocksFacts
<1>5. Len(Blocks) <= Len(Blocks')
  BY <1>3, <1>4
<1>6. ASSUME NEW k \in 1..Len(Blocks)
      PROVE  Len(Blocks[k]) <= Len(Blocks'[k])
             /\ \A p \in 1..Len(Blocks[k]) : Blocks'[k][p] = Blocks[k][p]
  BY <1>3, <1>4
<1>. QED BY <1>5, <1>6, Zenon DEF Kept

(* What a line that nests wrongly becomes in a location. *)
LEMMA InLocationRefused ==
  ASSUME NEW l \in Label, ~Refused(InLocation(l))
  PROVE  l # Open /\ l # Server /\ ~IsLocation(l) /\ InLocation(l) = [l EXCEPT !.prefixed = TRUE]
<1>1. \A v \in BOOLEAN : /\ [l EXCEPT !.prefixed = v].prefixed = v
                        /\ [l EXCEPT !.prefixed = v].key = l.key
  BY DEF Label
<1>2. TRUE \in BOOLEAN
  OBVIOUS
<1>3. [l EXCEPT !.prefixed = TRUE].prefixed /\ [l EXCEPT !.prefixed = TRUE].key = l.key
  BY <1>1, <1>2, Zenon
<1>. DEFINE into == [l EXCEPT !.prefixed = TRUE]
<1>. HIDE DEF into
<1>4. InLocation(l) = IF IsLocation(l) THEN Plain("location_location") ELSE into
  BY DEF InLocation, into
<1>5. ~IsLocation(l)
  BY <1>4, PlainFacts DEF Refused
<1>6. l.key # "{" /\ l.key # "server"
  BY <1>3, <1>4, <1>5 DEF Refused, into
<1>. QED BY <1>4, <1>5, <1>6, PlainFacts DEF Open, Server, into

(* A label ends the process or is followed by the next. *)
LEMMA AddEnds ==
  ASSUME TypeInv, AddLabel
  PROVE  /\ pc = "add" /\ pc' \in {"add", "refused", "crashed"}
         /\ servers # <<>> /\ servers[1] \in Seq(Label) /\ servers[1] # <<>>
         /\ servers[1][1] \in Label
         /\ \E outcome \in Add(config, servers[1][1]) :
              /\ outcome \in Results /\ config' = outcome.config
              /\ pc' = "add"     <=> outcome.end = "ok"
              /\ pc' = "refused" <=> outcome.end = "failed"
              /\ pc' = "crashed" <=> outcome.end = "crashed"
<1>1. /\ pc = "add" /\ servers # <<>> /\ servers[1] # <<>>
      /\ servers[1] \in Seq(Label)
  BY DEF AddLabel, TypeInv
<1>2. servers[1][1] \in Label
  BY <1>1, HeadFacts
<1>3. PICK outcome \in Add(config, servers[1][1]) :
        /\ config' = outcome.config
        /\ pc' = CASE outcome.end = "ok"      -> pc
                   [] outcome.end = "failed"  -> "refused"
                   [] outcome.end = "crashed" -> "crashed"
  BY DEF AddLabel
<1>4. outcome \in Results /\ outcome.end \in {"ok", "failed", "crashed"}
  <2>1. outcome \in Results
    BY <1>2, <1>3, AddType DEF TypeInv
  <2>. QED BY <2>1 DEF Results
<1>5. /\ pc' \in {"add", "refused", "crashed"}
      /\ pc' = "add"     <=> outcome.end = "ok"
      /\ pc' = "refused" <=> outcome.end = "failed"
      /\ pc' = "crashed" <=> outcome.end = "crashed"
  BY <1>1, <1>3, <1>4
<1>. QED BY <1>1, <1>2, <1>3, <1>4, <1>5

LEMMA ReadsStep ==
  ASSUME TypeInv, TypeInv', LinesOfFile, LabelsOfServer, Reads, [Next]_vars
  PROVE  Reads'
<1>. SUFFICES ASSUME pc' \in Reader, ~AnyRefused(Blocks') PROVE AsNested'
  BY DEF Reads
<1>0. Seen \in Nat
  BY SeenFacts
<1>1. CASE SkipComment
  <2>1. /\ pc \in Reader /\ lines # <<>> /\ lines' = Tail(lines) /\ file' = file
        /\ pc' = pc /\ servers' = servers /\ labels' = labels /\ IsComment(Head(lines))
    BY <1>1 DEF SkipComment, Reading, Reader
  <2>2. Blocks' = Blocks
    BY <2>1 DEF Blocks
  <2>3. AsNested
    BY <2>1, <2>2 DEF Reads
  <2>4. /\ Head(lines) # Open /\ Head(lines) # Close /\ Head(lines) # Server
        /\ ~IsAt(Head(lines)) /\ ~IsLocation(Head(lines))
    BY <2>1, Kinds, AtIsLocation DEF IsComment, IsLocation
  <2>5. /\ \A i \in 1..Seen' : RightLine(i)
        /\ Seen' > 0 /\ ~IsHeader(Seen')
        /\ Depth(Seen' + 1) = Level[pc] + 0
        /\ ServerOf(Seen') = ServerOf(Seen) + 0
    BY <2>1, <2>3, <2>4, NextLine
  <2>6. Seen' = Seen + 1 /\ Head(lines) = file[Seen + 1]
    BY <2>1, OneLine
  <2>7. pc' # "top" => \E h \in 1..Seen' :
          /\ file[h] = Server
          /\ \A j \in (h + 1)..Seen' :
               file[j] # Server /\ (IsAt(file[j]) => HasLocation(labels'))
    <3>1. \A j \in (Seen + 1)..Seen' : j = Seen + 1
      BY <1>0, <2>6
    <3>. QED BY <1>0, <2>1, <2>3, <2>4, <2>6, <3>1, SameServer
  <2>8. ServerOf(Seen) = Len(servers) + IF pc = "top" THEN 0 ELSE 1
    BY <2>3 DEF AsNested, InServer
  <2>9. ServerOf(Seen') = ServerOf(Seen) /\ Depth(Seen' + 1) = Level[pc]
    BY <1>0, <2>1, <2>5, Levels, DepthFacts DEF Reader
  <2>. QED BY <2>1, <2>5, <2>7, <2>8, <2>9, StillNested
<1>2. CASE OpenServer
  <2>1. /\ pc = "top" /\ lines # <<>> /\ lines' = SubSeq(lines, 3, Len(lines))
        /\ file' = file /\ servers' = servers /\ labels' = labels
        /\ pc' \in IF Head(lines) = Server THEN Opened(Tail(lines), "server") ELSE {"refused"}
    BY <1>2 DEF OpenServer, Reading
  <2>2. Head(lines) = Server /\ pc' \in Opened(Tail(lines), "server")
    BY <2>1 DEF Reader
  <2>3. pc' = "server" /\ Tail(lines) # <<>> /\ Tail(lines)[1] = Open
    BY <2>2, OpenedFacts DEF Reader
  <2>4. AsNested
    <3>1. Blocks' = Blocks
      BY <2>1 DEF Blocks
    <3>. QED BY <2>1, <3>1 DEF Reads, Reader
  <2>5. pc \in Reader
    BY <2>1 DEF Reader
  <2>6. /\ Seen' = Seen + 2
        /\ file[Seen + 1] = Server /\ file[Seen + 2] = Open
        /\ \A i \in 1..Seen' : RightLine(i)
        /\ Seen' > 0 /\ ~IsHeader(Seen')
        /\ Depth(Seen' + 1) = Level[pc] + 1
        /\ ServerOf(Seen') = ServerOf(Seen) + 1
    BY <2>1, <2>2, <2>3, <2>4, <2>5, NextHeader
  <2>7. ServerOf(Seen) = Len(servers)
    <3>1. ServerOf(Seen) = Len(servers) + 0 /\ Len(servers) \in Nat
      BY <2>1, <2>4, BlocksFacts DEF AsNested, InServer
    <3>. QED BY <3>1
  <2>8. \E h \in 1..Seen' :
          /\ file[h] = Server
          /\ \A j \in (h + 1)..Seen' :
               file[j] # Server /\ (IsAt(file[j]) => HasLocation(labels'))
    <3>1. Seen + 1 \in 1..Seen' /\ \A j \in (Seen + 1 + 1)..Seen' : j = Seen + 2
      BY <1>0, <2>6
    <3>2. Open # Server /\ ~IsAt(Open)
      BY Kinds, AtIsLocation
    <3>. QED BY <2>6, <3>1, <3>2
  <2>. QED BY <2>1, <2>3, <2>6, <2>7, <2>8, Levels, StillNested
<1>3. CASE OpenLocation
  <2>. DEFINE l == Head(lines)
  <2>1. /\ pc = "server" /\ lines # <<>> /\ lines' = SubSeq(lines, 3, Len(lines))
        /\ file' = file /\ servers' = servers /\ labels' = Append(labels, l)
        /\ IsLocation(l) /\ pc' \in Opened(Tail(lines), "location") /\ pc \in Reader
    BY <1>3 DEF OpenLocation, Reading, Reader
  <2>2. pc' = "location" /\ Tail(lines) # <<>> /\ Tail(lines)[1] = Open
    BY <2>1, OpenedFacts DEF Reader
  <2>3. AsNested
    <3>1. AnyRefused(Blocks) => AnyRefused(Blocks')
      BY <2>1, Labelled, KeptFacts, BlocksFacts, NextBlocks
    <3>. QED BY <2>1, <3>1 DEF Reads
  <2>4. /\ Seen' = Seen + 2
        /\ file[Seen + 1] = l /\ file[Seen + 2] = Open
        /\ \A i \in 1..Seen' : RightLine(i)
        /\ Seen' > 0 /\ ~IsHeader(Seen')
        /\ Depth(Seen' + 1) = Level[pc] + 1
        /\ ServerOf(Seen') = ServerOf(Seen) + IF l = Server THEN 1 ELSE 0
    BY <2>1, <2>2, <2>3, NextHeader
  <2>. HIDE DEF l
  <2>5. l # Server
    BY <2>1, Kinds
  <2>6. ServerOf(Seen') = Len(servers') + 1
    <3>1. ServerOf(Seen) = Len(servers) + 1 /\ ServerOf(Seen) \in Nat
      BY <1>0, <2>1, <2>3, DepthFacts DEF AsNested, InServer
    <3>. QED BY <2>1, <2>4, <2>5, <3>1
  <2>7. \E h \in 1..Seen' :
          /\ file[h] = Server
          /\ \A j \in (h + 1)..Seen' :
               file[j] # Server /\ (IsAt(file[j]) => HasLocation(labels'))
    <3>1. \A j \in (Seen + 1)..Seen' : j = Seen + 1 \/ j = Seen + 2
      BY <1>0, <2>4
    <3>2. Open # Server /\ ~IsAt(Open)
      BY Kinds, AtIsLocation
    <3>3. \A j \in (Seen + 1)..Seen' :
            file[j] # Server /\ (IsAt(file[j]) => HasLocation(labels'))
      BY <2>1, <2>4, <2>5, <3>1, <3>2, HasLocationFacts
    <3>4. HasLocation(labels) => HasLocation(labels')
      BY <2>1, HasLocationFacts
    <3>5. Seen' \in Nat /\ Seen <= Seen'
      BY <1>0, <2>4
    <3>. QED BY <2>1, <2>3, <3>3, <3>4, <3>5, SameServer
  <2>. QED BY <2>1, <2>2, <2>4, <2>6, <2>7, Levels, StillNested
<1>4. CASE ServerLine
  <2>. DEFINE l == Head(lines)
  <2>1. /\ pc = "server" /\ pc' = pc /\ lines # <<>> /\ lines' = Tail(lines)
        /\ file' = file /\ servers' = servers /\ labels' = Append(labels, l)
        /\ ~IsLocation(l) /\ l # Close /\ pc \in Reader
    BY <1>4 DEF ServerLine, Reading, Reader
  <2>2. (AnyRefused(Blocks) => AnyRefused(Blocks')) /\ (Refused(l) => AnyRefused(Blocks'))
    BY <2>1, Labelled, KeptFacts, BlocksFacts, NextBlocks
  <2>3. AsNested
    BY <2>1, <2>2 DEF Reads
  <2>4. l # Open /\ l # Server
    BY <2>2, PlainFacts DEF Refused, Open, Server
  <2>5. /\ Seen' = Seen + 1 /\ l = file[Seen + 1]
        /\ \A i \in 1..Seen' : RightLine(i)
        /\ Seen' > 0 /\ ~IsHeader(Seen')
        /\ Depth(Seen' + 1) = Level[pc] + 0
        /\ ServerOf(Seen') = ServerOf(Seen) + 0
    BY <2>1, <2>3, <2>4, NextLine, OneLine
  <2>. HIDE DEF l
  <2>6. ServerOf(Seen') = Len(servers') + 1
    <3>1. ServerOf(Seen) = Len(servers) + 1 /\ ServerOf(Seen) \in Nat
      BY <1>0, <2>1, <2>3, DepthFacts DEF AsNested, InServer
    <3>. QED BY <2>1, <2>5, <3>1
  <2>7. \E h \in 1..Seen' :
          /\ file[h] = Server
          /\ \A j \in (h + 1)..Seen' :
               file[j] # Server /\ (IsAt(file[j]) => HasLocation(labels'))
    <3>1. \A j \in (Seen + 1)..Seen' : j = Seen + 1
      BY <1>0, <2>5
    <3>2. \A j \in (Seen + 1)..Seen' :
            file[j] # Server /\ (IsAt(file[j]) => HasLocation(labels'))
      BY <2>1, <2>4, <2>5, <3>1, HasLocationFacts
    <3>3. HasLocation(labels) => HasLocation(labels')
      BY <2>1, HasLocationFacts
    <3>4. Seen' \in Nat /\ Seen <= Seen'
      BY <1>0, <2>5
    <3>. QED BY <2>1, <2>3, <3>2, <3>3, <3>4, SameServer
  <2>. QED BY <2>1, <2>5, <2>6, <2>7, Levels, StillNested
<1>5. CASE CloseServer
  <2>1. /\ pc = "server" /\ pc' = "top" /\ lines # <<>> /\ lines' = Tail(lines)
        /\ file' = file /\ servers' = Append(servers, labels)
        /\ Head(lines) = Close /\ pc \in Reader
    BY <1>5 DEF CloseServer, Reading, Reader
  <2>2. AsNested
    <3>1. Kept(Blocks, Blocks')
      BY <1>5, Closed
    <3>. QED BY <2>1, <3>1, KeptFacts, BlocksFacts, NextBlocks DEF Reads
  <2>3. Close # Open /\ Close # Server /\ ~IsLocation(Close)
    BY Kinds
  <2>4. /\ Seen' = Seen + 1
        /\ \A i \in 1..Seen' : RightLine(i)
        /\ Seen' > 0 /\ ~IsHeader(Seen')
        /\ Depth(Seen' + 1) = Level[pc] + (-1)
        /\ ServerOf(Seen') = ServerOf(Seen) + 0
    BY <2>1, <2>2, <2>3, NextLine, OneLine
  <2>5. ServerOf(Seen') = Len(servers')
    <3>1. ServerOf(Seen) = Len(servers) + 1 /\ ServerOf(Seen) \in Nat
      BY <1>0, <2>1, <2>2, DepthFacts DEF AsNested, InServer
    <3>2. Len(servers') = Len(servers) + 1
      BY <2>1 DEF TypeInv
    <3>. QED BY <2>4, <3>1, <3>2
  <2>6. Depth(Seen' + 1) = 0
    BY <2>1, <2>4, Levels
  <2>7. Len(servers') + 0 = Len(servers')
    BY DEF TypeInv
  <2>. QED BY <2>1, <2>4, <2>5, <2>6, <2>7, Levels, StillNested
<1>6. CASE LocationLine
  <2>. DEFINE l == Head(lines)
  <2>1. /\ pc = "location" /\ pc' = pc /\ lines # <<>> /\ lines' = Tail(lines)
        /\ file' = file /\ servers' = servers /\ labels' = Append(labels, InLocation(l))
        /\ l # Close /\ pc \in Reader /\ l \in Label
    BY <1>6, HeadFacts DEF LocationLine, Reading, Reader, TypeInv
  <2>2. /\ AnyRefused(Blocks) => AnyRefused(Blocks')
        /\ Refused(InLocation(l)) => AnyRefused(Blocks')
    BY <2>1, Labelled, KeptFacts, BlocksFacts, NextBlocks
  <2>3. AsNested
    BY <2>1, <2>2 DEF Reads
  <2>4. l # Open /\ l # Server /\ ~IsLocation(l)
    BY <2>1, <2>2, InLocationRefused
  <2>5. /\ Seen' = Seen + 1 /\ l = file[Seen + 1]
        /\ \A i \in 1..Seen' : RightLine(i)
        /\ Seen' > 0 /\ ~IsHeader(Seen')
        /\ Depth(Seen' + 1) = Level[pc] + 0
        /\ ServerOf(Seen') = ServerOf(Seen) + 0
    BY <2>1, <2>3, <2>4, NextLine, OneLine
  <2>. HIDE DEF l
  <2>6. ServerOf(Seen') = Len(servers') + 1
    <3>1. ServerOf(Seen) = Len(servers) + 1 /\ ServerOf(Seen) \in Nat
      BY <1>0, <2>1, <2>3, DepthFacts DEF AsNested, InServer
    <3>. QED BY <2>1, <2>5, <3>1
  <2>7. \E h \in 1..Seen' :
          /\ file[h] = Server
          /\ \A j \in (h + 1)..Seen' :
               file[j] # Server /\ (IsAt(file[j]) => HasLocation(labels'))
    <3>1. \A j \in (Seen + 1)..Seen' : j = Seen + 1
      BY <1>0, <2>5
    <3>2. \A j \in (Seen + 1)..Seen' :
            file[j] # Server /\ (IsAt(file[j]) => HasLocation(labels'))
      BY <2>4, <2>5, <3>1, AtIsLocation
    <3>3. HasLocation(labels) => HasLocation(labels')
      BY <2>1, HasLocationFacts
    <3>4. Seen' \in Nat /\ Seen <= Seen'
      BY <1>0, <2>5
    <3>. QED BY <2>1, <2>3, <3>2, <3>3, <3>4, SameServer
  <2>. QED BY <2>1, <2>5, <2>6, <2>7, Levels, StillNested
<1>7. CASE CloseLocation
  <2>1. /\ pc = "location" /\ pc' = "server" /\ lines # <<>> /\ lines' = Tail(lines)
        /\ file' = file /\ servers' = servers /\ labels' = labels
        /\ Head(lines) = Close /\ pc \in Reader
    BY <1>7 DEF CloseLocation, Reading, Reader
  <2>2. AsNested
    <3>1. Blocks' = Blocks
      BY <2>1 DEF Blocks
    <3>. QED BY <2>1, <3>1 DEF Reads
  <2>3. Close # Open /\ Close # Server /\ ~IsLocation(Close) /\ ~IsAt(Close)
    BY Kinds, AtIsLocation
  <2>4. /\ Seen' = Seen + 1 /\ file[Seen + 1] = Close
        /\ \A i \in 1..Seen' : RightLine(i)
        /\ Seen' > 0 /\ ~IsHeader(Seen')
        /\ Depth(Seen' + 1) = Level[pc] + (-1)
        /\ ServerOf(Seen') = ServerOf(Seen) + 0
    BY <2>1, <2>2, <2>3, NextLine, OneLine
  <2>5. ServerOf(Seen') = Len(servers') + 1
    <3>1. ServerOf(Seen) = Len(servers) + 1 /\ ServerOf(Seen) \in Nat
      BY <1>0, <2>1, <2>2, DepthFacts DEF AsNested, InServer
    <3>. QED BY <2>1, <2>4, <3>1
  <2>6. Depth(Seen' + 1) = 1
    BY <2>1, <2>4, Levels
  <2>7. \E h \in 1..Seen' :
          /\ file[h] = Server
          /\ \A j \in (h + 1)..Seen' :
               file[j] # Server /\ (IsAt(file[j]) => HasLocation(labels'))
    <3>1. \A j \in (Seen + 1)..Seen' : j = Seen + 1
      BY <1>0, <2>4
    <3>2. \A j \in (Seen + 1)..Seen' :
            file[j] # Server /\ (IsAt(file[j]) => HasLocation(labels'))
      BY <2>3, <2>4, <3>1
    <3>3. Seen' \in Nat /\ Seen <= Seen'
      BY <1>0, <2>4
    <3>. QED BY <2>1, <2>2, <3>2, <3>3, SameServer
  <2>. QED BY <2>1, <2>4, <2>5, <2>6, <2>7, Levels, StillNested
<1>8. CASE UNCHANGED vars
  <2>1. AsNested
    <3>1. pc \in Reader /\ Blocks' = Blocks
      BY <1>8 DEF vars, Blocks
    <3>. QED BY <3>1 DEF Reads
  <2>2. /\ file' = file /\ Seen' = Seen /\ servers' = servers /\ pc' = pc /\ labels' = labels
    BY <1>8 DEF vars, Seen
  <2>. QED BY <2>1, <2>2, StillNested DEF AsNested, InServer
<1>9. CASE EndOfFile \/ AddLabel \/ FinishServer \/ Finish \/ StartServer \/ EnterLoop
  <2>1. pc' \notin Reader
    <3>1. CASE EndOfFile
      BY <3>1 DEF EndOfFile, Reader
    <3>2. CASE AddLabel
      BY <3>2, AddEnds DEF Reader
    <3>3. CASE FinishServer \/ Finish
      BY <3>3 DEF FinishServer, Finish, Reader
    <3>4. CASE StartServer
      <4>1. pc = "accepted" /\ (pc' = pc \/ pc' \in {"failed", "unable"})
        BY <3>4 DEF StartServer, Starting
      <4>. QED BY <4>1 DEF Reader
    <3>5. CASE EnterLoop
      BY <3>5 DEF EnterLoop, Reader
    <3>. QED BY <1>9, <3>1, <3>2, <3>3, <3>4, <3>5
  <2>. QED BY <2>1
<1>. QED BY <1>1, <1>2, <1>3, <1>4, <1>5, <1>6, <1>7, <1>8, <1>9
         DEF Next, GetLabels, Terminated

------------------------------------------------------------------------------
(* Adding the labels. *)

LEMMA AddRefuses ==
  ASSUME NEW c, NEW l \in Label, Refused(l), NEW o \in Add(c, l) PROVE o.end = "failed"
<1>1. Add(c, l) = Failed(c)
  <2>1. CASE l.prefixed
    <3>1. l.key \in {"{", "server"}
      BY <2>1 DEF Refused
    <3>2. Add(c, l) = AddToLocation(c, l.key, l.value)
      BY <2>1, Zenon DEF Add
    <3>3. AddToLocation(c, l.key, l.value) = Failed(c)
      BY <3>1 DEF AddToLocation
    <3>. QED BY <3>2, <3>3
  <2>2. CASE ~l.prefixed
    <3>1. l.key \in {"{", "server", "location_location"}
      BY <2>2 DEF Refused
    <3>2. Add(c, l) = AddToServer(c, l.key, l.value)
      BY <2>2, Zenon DEF Add
    <3>3. AddToServer(c, l.key, l.value) = Failed(c)
      BY <3>1 DEF AddToServer
    <3>. QED BY <3>2, <3>3
  <2>. QED BY <2>1, <2>2
<1>. QED BY <1>1 DEF Failed, Ends

(* The first label is gone. *)
LEMMA Popped ==
  ASSUME TypeInv, TypeInv', AddLabel, pc' = "add"
  PROVE  /\ Len(Blocks) \in Nat /\ Len(Blocks') = Len(Blocks) /\ 1 \in 1..Len(Blocks)
         /\ Len(servers') = Len(servers)
         /\ Blocks[1] = servers[1] /\ 1 \in 1..Len(Blocks[1]) /\ Len(Blocks[1]) \in Nat
         /\ Len(Blocks'[1]) = Len(Blocks[1]) - 1
         /\ \A p \in 1..(Len(Blocks[1]) - 1) : Blocks'[1][p] = Blocks[1][p + 1]
         /\ \A k \in 2..Len(Blocks) : Blocks'[k] = Blocks[k]
         /\ ~Refused(Blocks[1][1])
<1>. DEFINE L == Seq(Label)
            t == Tail(servers[1])
<1>1. /\ servers # <<>> /\ servers[1] \in L /\ servers[1] # <<>>
      /\ servers' = [servers EXCEPT ![1] = t] /\ labels' = labels
  BY AddEnds DEF AddLabel
<1>2. /\ t \in L /\ Len(t) = Len(servers[1]) - 1 /\ Len(servers[1]) \in Nat \ {0}
      /\ \A p \in 1..(Len(servers[1]) - 1) : t[p] = servers[1][p + 1]
  BY <1>1, HeadFacts
<1>3. /\ Len(servers') = Len(servers) /\ servers'[1] = t
      /\ \A j \in 2..Len(servers) : servers'[j] = servers[j]
  <2>1. servers \in Seq(L)
    BY DEF TypeInv
  <2>. HIDE DEF L, t
  <2>. QED BY <1>1, <1>2, <2>1, ExceptFacts
<1>4. Len(servers) \in Nat \ {0}
  <2>1. servers \in Seq(L)
    BY DEF TypeInv
  <2>. HIDE DEF L
  <2>. QED BY <1>1, <2>1
<1>5. Blocks[1] = servers[1] /\ Blocks'[1] = t
  BY <1>3, <1>4, BlocksFacts, NextBlocks
<1>6. ASSUME NEW k \in 2..Len(Blocks) PROVE Blocks'[k] = Blocks[k]
  <2>1. CASE k \in 1..Len(servers)
    <3>1. k \in 2..Len(servers) /\ k \in 1..Len(servers')
      BY <1>3, <2>1
    <3>. QED BY <1>3, <3>1, BlocksFacts, NextBlocks
  <2>2. CASE k \notin 1..Len(servers)
    <3>1. k = Len(servers) + 1
      BY <2>2, BlocksFacts
    <3>. QED BY <1>1, <1>3, <3>1, BlocksFacts, NextBlocks
  <2>. QED BY <2>1, <2>2
<1>7. ~Refused(servers[1][1])
  <2>1. PICK outcome \in Add(config, servers[1][1]) : outcome.end = "ok"
    BY AddEnds
  <2>. QED BY <2>1, AddEnds, AddRefuses
<1>8. 1 \in 1..Len(servers[1])
  BY <1>2
<1>9. Len(Blocks) \in Nat /\ Len(Blocks') = Len(Blocks) /\ 1 \in 1..Len(Blocks)
  BY <1>3, <1>4, BlocksFacts, NextBlocks
<1>. HIDE DEF t
<1>. QED BY <1>2, <1>3, <1>5, <1>6, <1>7, <1>8, <1>9

(* The first server is gone, which had no label left. *)
LEMMA Shifted ==
  ASSUME TypeInv, TypeInv', FinishServer
  PROVE  /\ Len(Blocks) \in Nat /\ Len(Blocks) > 1 /\ Len(Blocks') = Len(Blocks) - 1
         /\ Len(servers') = Len(servers) - 1 /\ Len(servers) \in Nat \ {0}
         /\ Blocks[1] = <<>> /\ Len(Blocks[1]) = 0
         /\ \A k \in 1..(Len(Blocks) - 1) : Blocks'[k] = Blocks[k + 1]
<1>1. servers # <<>> /\ servers[1] = <<>> /\ servers' = Tail(servers) /\ labels' = labels
  BY DEF FinishServer
<1>2. /\ Len(servers) \in Nat \ {0} /\ Len(servers') = Len(servers) - 1
      /\ \A j \in 1..(Len(servers) - 1) : servers'[j] = servers[j + 1]
  <2>. DEFINE L == Seq(Label)
  <2>1. servers \in Seq(L)
    BY DEF TypeInv
  <2>. HIDE DEF L
  <2>. QED BY <1>1, <2>1, HeadFacts
<1>3. /\ Len(Blocks) \in Nat /\ Len(Blocks) > 1 /\ Len(Blocks') = Len(Blocks) - 1
      /\ Blocks[1] = <<>>
  BY <1>1, <1>2, BlocksFacts, NextBlocks
<1>4. ASSUME NEW k \in 1..(Len(Blocks) - 1) PROVE Blocks'[k] = Blocks[k + 1]
  <2>1. CASE k \in 1..(Len(servers) - 1)
    <3>1. k \in 1..Len(servers') /\ k + 1 \in 1..Len(servers)
      BY <1>2, <2>1
    <3>. QED BY <1>2, <2>1, <3>1, BlocksFacts, NextBlocks
  <2>2. CASE k \notin 1..(Len(servers) - 1)
    <3>1. k = Len(servers') + 1 /\ k + 1 = Len(servers) + 1
      BY <1>2, <2>2, BlocksFacts
    <3>. QED BY <1>1, <3>1, BlocksFacts, NextBlocks
  <2>. QED BY <2>1, <2>2
<1>. QED BY <1>1, <1>2, <1>3, <1>4

(* Both leave what the other labels are, and refused ones remain so. *)
LEMMA StillRefused ==
  ASSUME TypeInv, TypeInv', (AddLabel /\ pc' = "add") \/ FinishServer
  PROVE  AnyRefused(Blocks) => AnyRefused(Blocks')
<1>. SUFFICES ASSUME NEW k \in 1..Len(Blocks), NEW p \in 1..Len(Blocks[k]),
                     Refused(Blocks[k][p])
              PROVE  \E j \in 1..Len(Blocks') : \E q \in 1..Len(Blocks'[j]) :
                       Refused(Blocks'[j][q])
  BY DEF AnyRefused
<1>1. CASE AddLabel /\ pc' = "add"
  <2>1. CASE k = 1
    <3>1. p # 1 /\ p - 1 \in 1..(Len(Blocks[1]) - 1) /\ (p - 1) + 1 = p
      BY <1>1, <2>1, Popped
    <3>2. Blocks'[1][p - 1] = Blocks[k][p] /\ 1 \in 1..Len(Blocks')
          /\ p - 1 \in 1..Len(Blocks'[1])
      BY <1>1, <2>1, <3>1, Popped
    <3>. QED BY <3>2
  <2>2. CASE k # 1
    <3>1. k \in 2..Len(Blocks) /\ k \in 1..Len(Blocks')
      BY <1>1, <2>2, Popped
    <3>2. Blocks'[k] = Blocks[k]
      BY <1>1, <3>1, Popped
    <3>. QED BY <3>1, <3>2
  <2>. QED BY <2>1, <2>2
<1>2. CASE FinishServer
  <2>1. k # 1
    BY <1>2, Shifted
  <2>2. k - 1 \in 1..(Len(Blocks) - 1) /\ k - 1 \in 1..Len(Blocks') /\ (k - 1) + 1 = k
    BY <1>2, <2>1, Shifted
  <2>3. Blocks'[k - 1] = Blocks[k]
    BY <1>2, <2>2, Shifted
  <2>. QED BY <2>2, <2>3
<1>. QED BY <1>1, <1>2

LEMMA ParsesStep ==
  ASSUME TypeInv, TypeInv', LinesOfFile, LabelsOfServer, Reads, Parses, [Next]_vars
  PROVE  Parses'
<1>1. CASE GetLabels /\ ~EndOfFile
  <2>1. pc \in Reader /\ data' = data /\ pc' \notin Added
    <3>1. CASE OpenServer
      <4>1. pc' \in {"server", "refused", "crashed"}
        BY <3>1, OpenedFacts DEF OpenServer
      <4>. QED BY <3>1, <4>1 DEF OpenServer, Reading, Reader, Added
    <3>2. CASE OpenLocation
      <4>1. pc' \in {"location", "refused", "crashed"}
        BY <3>2, OpenedFacts DEF OpenLocation
      <4>. QED BY <3>2, <4>1 DEF OpenLocation, Reading, Reader, Added
    <3>3. CASE SkipComment \/ ServerLine \/ CloseServer \/ LocationLine \/ CloseLocation
      BY <3>3 DEF SkipComment, ServerLine, CloseServer, LocationLine, CloseLocation,
                  Reading, Reader, Added
    <3>. QED BY <1>1, <3>1, <3>2, <3>3 DEF GetLabels
  <2>. QED BY <2>1 DEF Parses, Added
<1>2. CASE EndOfFile
  <2>1. /\ pc \in Reader /\ lines = <<>> /\ file' = file /\ lines' = lines
        /\ labels' = labels /\ servers' = servers /\ data' = data
        /\ pc' = IF pc = "top" THEN "add" ELSE "refused"
    BY <1>2 DEF EndOfFile, Reader
  <2>2. CASE pc = "top"
    <3>1. Blocks' = Blocks /\ pc' = "add" /\ data = <<>>
      BY <2>1, <2>2 DEF Blocks, Parses
    <3>2. Seen = Len(file)
      BY <2>1 DEF Seen, TypeInv
    <3>3. AsNested => Nested /\ ServerOf(Len(file)) = Len(data) + Len(servers)
      <4>1. ASSUME AsNested PROVE Nested
        BY <2>2, <3>2, <4>1, NestedLines, Levels DEF AsNested
      <4>2. ASSUME AsNested PROVE ServerOf(Len(file)) = Len(data) + Len(servers)
        BY <2>2, <3>1, <3>2, <4>2, BlocksFacts DEF AsNested, InServer
      <4>. QED BY <4>1, <4>2
    <3>4. AnyRefused(Blocks') \/ (Nested /\ ServerOf(Len(file)) = Len(data) + Len(servers))'
      <4>1. AnyRefused(Blocks) \/ AsNested
        BY <2>1 DEF Reads
      <4>2. Nested' = Nested /\ ServerOf(Len(file))' = ServerOf(Len(file))
        BY <2>1, Frozen
      <4>. QED BY <2>1, <3>1, <3>3, <4>1, <4>2
    <3>. QED BY <2>1, <3>1, <3>4 DEF Parses, Added, Reader
  <2>3. CASE pc # "top"
    BY <2>1, <2>3 DEF Parses, Added, Reader
  <2>. QED BY <2>2, <2>3
<1>3. CASE AddLabel
  <2>1. pc = "add" /\ pc' \in {"add", "refused", "crashed"} /\ file' = file
        /\ lines' = lines /\ data' = data
    BY <1>3, AddEnds DEF AddLabel
  <2>2. CASE pc' = "add"
    <3>1. Nested' = Nested /\ ServerOf(Len(file))' = ServerOf(Len(file))
      BY <2>1, Frozen
    <3>2. AnyRefused(Blocks) => AnyRefused(Blocks')
      BY <1>3, <2>2, StillRefused
    <3>3. Len(servers') = Len(servers)
      BY <1>3, <2>2, Popped
    <3>. QED BY <2>1, <2>2, <3>1, <3>2, <3>3 DEF Parses, Added, Reader
  <2>3. CASE pc' # "add"
    BY <2>1, <2>3 DEF Parses, Added, Reader
  <2>. QED BY <2>2, <2>3
<1>4. CASE FinishServer
  <2>1. pc = "add" /\ pc' = pc /\ file' = file /\ lines' = lines
        /\ data' = Append(data, config)
    BY <1>4 DEF FinishServer
  <2>2. Nested' = Nested /\ ServerOf(Len(file))' = ServerOf(Len(file))
    BY <2>1, Frozen
  <2>3. AnyRefused(Blocks) => AnyRefused(Blocks')
    BY <1>4, StillRefused
  <2>4. Len(data') + Len(servers') = Len(data) + Len(servers)
    <3>1. Len(data) \in Nat /\ Len(data') = Len(data) + 1
      BY <2>1 DEF TypeInv
    <3>2. Len(servers) \in Nat \ {0} /\ Len(servers') = Len(servers) - 1
      BY <1>4, Shifted
    <3>. QED BY <3>1, <3>2
  <2>. QED BY <2>1, <2>2, <2>3, <2>4 DEF Parses, Added, Reader
<1>5. CASE Finish \/ StartServer \/ EnterLoop \/ UNCHANGED vars
  <2>1. /\ file' = file /\ lines' = lines /\ servers' = servers /\ labels' = labels
        /\ data' = data /\ (pc' = pc \/ (pc \in Added /\ pc' \in Added))
        /\ pc' \in Added \ {"add"} => servers = <<>>
    <3>1. CASE Finish
      BY <3>1 DEF Finish, Added
    <3>2. CASE StartServer
      <4>1. pc = "accepted" /\ (pc' = pc \/ pc' \in {"failed", "unable"})
        BY <3>2 DEF StartServer, Starting
      <4>2. servers = <<>>
        BY <4>1 DEF Parses, Added
      <4>. QED BY <3>2, <4>1, <4>2 DEF StartServer, Added
    <3>3. CASE EnterLoop
      BY <3>3 DEF EnterLoop, Added, Parses
    <3>4. CASE UNCHANGED vars
      <4>1. /\ file' = file /\ lines' = lines /\ servers' = servers /\ labels' = labels
            /\ data' = data /\ pc' = pc
        BY <3>4 DEF vars
      <4>2. pc \in Added \ {"add"} => servers = <<>>
        BY Zenon DEF Parses
      <4>. QED BY <4>1, <4>2
    <3>. QED BY <1>5, <3>1, <3>2, <3>3, <3>4
  <2>2. Nested' = Nested /\ ServerOf(Len(file))' = ServerOf(Len(file))
    BY <2>1, Frozen
  <2>3. Blocks' = Blocks
    BY <2>1 DEF Blocks
  <2>4. Reader \cap Added = {}
    BY DEF Reader, Added
  <2>. QED BY <2>1, <2>2, <2>3, <2>4 DEF Parses
<1>. QED BY <1>1, <1>2, <1>3, <1>4, <1>5 DEF Next, Terminated

LEMMA LabelsStep ==
  ASSUME TypeInv, TypeInv', LabelsOfServer, [Next]_vars
  PROVE  LabelsOfServer'
<1>1. CASE OpenServer
  <2>1. pc' \in {"server", "refused", "crashed"}
    BY <1>1, OpenedFacts DEF OpenServer
  <2>. QED BY <2>1 DEF LabelsOfServer
<1>2. CASE OpenLocation
  <2>1. pc' \in {"location", "refused", "crashed"} /\ IsLocation(Head(lines))
        /\ labels' = Append(labels, Head(lines))
    BY <1>2, OpenedFacts DEF OpenLocation
  <2>2. /\ Len(labels) + 1 \in 1..Len(labels')
        /\ labels'[Len(labels) + 1] = Head(lines)
    BY <2>1 DEF TypeInv
  <2>. QED BY <2>1, <2>2 DEF LabelsOfServer
<1>3. CASE LocationLine
  <2>1. pc = "location" /\ pc' = pc /\ labels' = Append(labels, InLocation(Head(lines)))
    BY <1>3 DEF LocationLine
  <2>2. \A p \in 1..Len(labels) : p \in 1..Len(labels') /\ labels'[p] = labels[p]
    BY <2>1 DEF TypeInv
  <2>3. \E q \in 1..Len(labels) : IsLocation(labels[q])
    BY <2>1 DEF LabelsOfServer
  <2>4. \E q \in 1..Len(labels') : IsLocation(labels'[q])
    BY <2>2, <2>3
  <2>. QED BY <2>1, <2>4 DEF LabelsOfServer
<1>4. CASE ServerLine \/ CloseServer \/ CloseLocation
  BY <1>4 DEF ServerLine, CloseServer, CloseLocation, LabelsOfServer
<1>5. CASE EndOfFile
  BY <1>5 DEF EndOfFile, LabelsOfServer
<1>6. CASE AddLabel
  <2>1. pc = "add" /\ pc' \in {"add", "refused", "crashed"} /\ labels' = labels
    BY <1>6, AddEnds DEF AddLabel
  <2>. QED BY <2>1 DEF LabelsOfServer
<1>7. CASE FinishServer \/ Finish \/ EnterLoop
  BY <1>7 DEF FinishServer, Finish, EnterLoop, LabelsOfServer
<1>8. CASE StartServer
  <2>1. pc = "accepted" /\ (pc' = pc \/ pc' \in {"failed", "unable"}) /\ labels' = labels
    BY <1>8 DEF StartServer, Starting
  <2>. QED BY <2>1 DEF LabelsOfServer
<1>9. CASE SkipComment \/ UNCHANGED vars
  BY <1>9 DEF SkipComment, vars, LabelsOfServer
<1>. QED BY <1>1, <1>2, <1>3, <1>4, <1>5, <1>6, <1>7, <1>8, <1>9
         DEF Next, GetLabels, Terminated

LEMMA OnlyCommentsStep ==
  ASSUME TypeInv, TypeInv', LinesOfFile, Parses, OnlyComments, [Next]_vars
  PROVE  OnlyComments'
<1>1. CASE SkipComment
  <2>1. /\ lines # <<>> /\ lines' = Tail(lines) /\ file' = file /\ IsComment(Head(lines))
        /\ pc' = pc /\ servers' = servers /\ data' = data /\ pc \in Reader
    BY <1>1 DEF SkipComment, Reading, Reader
  <2>2. Seen \in Nat /\ Seen' = Seen + 1 /\ Head(lines) = file[Seen + 1]
    BY <2>1, OneLine, SeenFacts
  <2>3. \A i \in 1..Seen' : i \in 1..Seen \/ i = Seen + 1
    BY <2>2
  <2>4. pc \notin {"stopped"}
    BY <2>1 DEF Reader
  <2>. QED BY <2>1, <2>2, <2>3, <2>4 DEF OnlyComments
<1>2. CASE OpenServer
  <2>1. pc' \in {"server", "refused", "crashed"}
    BY <1>2, OpenedFacts DEF OpenServer
  <2>. QED BY <2>1 DEF OnlyComments
<1>3. CASE OpenLocation
  <2>1. pc' \in {"location", "refused", "crashed"}
    BY <1>3, OpenedFacts DEF OpenLocation
  <2>. QED BY <2>1 DEF OnlyComments
<1>4. CASE ServerLine \/ LocationLine \/ CloseLocation
  BY <1>4 DEF ServerLine, LocationLine, CloseLocation, OnlyComments
<1>5. CASE CloseServer
  <2>1. pc' = "top" /\ servers' = Append(servers, labels)
    BY <1>5 DEF CloseServer
  <2>2. servers' # <<>>
    <3>. DEFINE L == Seq(Label)
    <3>1. servers \in Seq(L) /\ labels \in L
      BY DEF TypeInv
    <3>. HIDE DEF L
    <3>2. Len(servers') = Len(servers) + 1 /\ Len(servers) \in Nat
      BY <2>1, <3>1
    <3>. QED BY <3>2
  <2>. QED BY <2>1, <2>2 DEF OnlyComments
<1>6. CASE EndOfFile
  <2>1. /\ file' = file /\ Seen' = Seen /\ servers' = servers /\ data' = data
        /\ pc' = IF pc = "top" THEN "add" ELSE "refused"
    BY <1>6 DEF EndOfFile, Seen
  <2>. QED BY <2>1 DEF OnlyComments
<1>7. CASE AddLabel
  <2>1. pc' \in {"add", "refused", "crashed"}
    BY <1>7, AddEnds
  <2>2. pc' = "add" => servers' # <<>>
    <3>1. pc' = "add" => Len(servers') = Len(servers) /\ servers # <<>>
      BY <1>7, Popped, AddEnds
    <3>. QED BY <3>1 DEF TypeInv
  <2>. QED BY <2>1, <2>2 DEF OnlyComments
<1>8. CASE FinishServer
  <2>1. pc' = "add" /\ data' = Append(data, config)
    BY <1>8 DEF FinishServer
  <2>2. data' # <<>>
    <3>1. Len(data') = Len(data) + 1 /\ Len(data) \in Nat
      BY <2>1 DEF TypeInv
    <3>. QED BY <3>1
  <2>. QED BY <2>1, <2>2 DEF OnlyComments
<1>9. CASE Finish \/ StartServer \/ EnterLoop \/ UNCHANGED vars
  <2>1. file' = file /\ Seen' = Seen /\ servers' = servers /\ data' = data
    BY <1>9 DEF Finish, StartServer, EnterLoop, vars, Seen
  <2>2. \/ pc' = pc
        \/ pc = "add" /\ pc' = "accepted"
        \/ pc = "accepted" /\ pc' \in {"failed", "unable", "serving"}
        \/ pc = "accepted" /\ pc' = "stopped" /\ data = <<>>
    BY <1>9 DEF Finish, StartServer, Starting, EnterLoop, vars
  <2>3. pc' \in {"top", "add", "accepted", "stopped"} /\ pc' # pc => pc \in {"add", "accepted"}
    BY <2>2
  <2>4. (\A i \in 1..Seen : IsComment(file[i])) => (\A i \in 1..Seen : IsComment(file[i]))'
    BY <2>1
  <2>. QED BY <2>1, <2>2, <2>3, <2>4 DEF OnlyComments
<1>. QED BY <1>1, <1>2, <1>3, <1>4, <1>5, <1>6, <1>7, <1>8, <1>9
         DEF Next, GetLabels, Terminated

LEMMA ListensStep ==
  ASSUME TypeInv, TypeInv', Parses, Listens, [Next]_vars
  PROVE  Listens'
<1>0. Len(ports) \in Nat /\ Len(data) \in Nat
  BY DEF TypeInv
<1>1. CASE StartServer
  <2>. DEFINE n == Len(ports) + 1
              port == data[n].port
  <2>1. /\ pc = "accepted" /\ Len(ports) < Len(data) /\ data' = data
        /\ \/ Bindable(port) /\ ports' = Append(ports, port) /\ pc' = pc
           \/ ~Bindable(port) /\ pc' = "failed" /\ ports' = ports
           \/ pc' = "unable" /\ ports' = ports
    BY <1>1 DEF StartServer, Starting
  <2>2. n \in 1..Len(data)
    BY <1>0, <2>1
  <2>3. CASE Bindable(port) /\ ports' = Append(ports, port) /\ pc' = pc
    <3>1. port \notin Busy /\ \A k \in 1..Len(ports) : ports[k] # port
      BY <2>3 DEF Bindable, ToSet
    <3>2. /\ ports' = Append(ports, port) /\ pc' = "accepted"
          /\ Len(ports') = n /\ ports'[n] = port
          /\ \A k \in 1..Len(ports) : ports'[k] = ports[k]
      BY <2>1, <2>3 DEF TypeInv
    <3>3. \A k \in 1..n : k \in 1..Len(ports) \/ k = n
      BY <1>0
    <3>4. /\ \A k \in 1..Len(ports) : ports[k] = data[k].port /\ ports[k] \notin Busy
          /\ \A j, k \in 1..Len(ports) : ports[j] = ports[k] => j = k
      BY DEF Listens
    <3>. HIDE DEF n
    <3>5. \A k \in 1..n : ports'[k] = data[k].port /\ ports'[k] \notin Busy
      BY <3>1, <3>2, <3>3, <3>4
    <3>6. \A j, k \in 1..n : ports'[j] = ports'[k] => j = k
      BY <3>1, <3>2, <3>3, <3>4
    <3>7. n <= Len(data)
      BY <1>0, <2>2
    <3>. QED BY <2>1, <3>2, <3>5, <3>6, <3>7 DEF Listens
  <2>4. CASE ~Bindable(port) /\ pc' = "failed" /\ ports' = ports
    <3>0. DOMAIN ports = 1..Len(ports)
      BY DEF TypeInv
    <3>1. port \in Busy \/ \E j \in 1..Len(ports) : ports[j] = port
      <4>. HIDE DEF port
      <4>1. port \in Busy \cup {ports[j] : j \in DOMAIN ports}
        BY <2>4 DEF Bindable, ToSet
      <4>. QED BY <3>0, <4>1
    <3>2. \A j \in 1..Len(ports) : j \in 1..(n - 1) /\ ports[j] = data[j].port
      BY <1>0 DEF Listens
    <3>3. port \in Busy \/ \E j \in 1..(n - 1) : data[j].port = port
      BY <3>1, <3>2
    <3>. HIDE DEF n
    <3>. QED BY <2>1, <2>2, <2>4, <3>3 DEF Listens
  <2>5. CASE pc' = "unable" /\ ports' = ports
    BY <2>1, <2>5 DEF Listens
  <2>. HIDE DEF port
  <2>. QED BY <2>1, <2>3, <2>4, <2>5
<1>2. CASE FinishServer
  <2>1. pc = "add" /\ pc' = pc /\ ports' = ports /\ data' = Append(data, config)
    BY <1>2 DEF FinishServer
  <2>2. Len(data') = Len(data) + 1 /\ \A k \in 1..Len(data) : data'[k] = data[k]
    BY <2>1 DEF TypeInv
  <2>3. Len(ports) <= Len(data') /\ \A k \in 1..Len(ports) : k \in 1..Len(data)
    BY <1>0, <2>2 DEF Listens
  <2>. QED BY <2>1, <2>2, <2>3 DEF Listens
<1>3. CASE EnterLoop
  <2>1. /\ ports' = ports /\ data' = data /\ pc' \in {"serving", "stopped"}
        /\ ~(Len(ports) < Len(data))
    BY <1>3 DEF EnterLoop, Starting
  <2>. QED BY <1>0, <2>1 DEF Listens
<1>4. CASE UNCHANGED vars
  BY <1>4 DEF vars, Listens
<1>5. CASE GetLabels \/ AddLabel \/ Finish
  <2>1. data' = data /\ ports' = ports
    BY <1>5 DEF GetLabels, SkipComment, OpenServer, OpenLocation, ServerLine, CloseServer,
                LocationLine, CloseLocation, EndOfFile, AddLabel, Finish
  <2>2. pc' \notin {"serving", "failed"}
    <3>1. CASE AddLabel
      BY <3>1, AddEnds
    <3>2. CASE OpenServer
      BY <3>2, OpenedFacts DEF OpenServer
    <3>3. CASE OpenLocation
      BY <3>3, OpenedFacts DEF OpenLocation
    <3>4. CASE SkipComment \/ ServerLine \/ LocationLine \/ CloseServer \/ CloseLocation
               \/ EndOfFile \/ Finish
      BY <3>4 DEF SkipComment, ServerLine, LocationLine, CloseServer, CloseLocation,
                  EndOfFile, Finish, Reading
    <3>. QED BY <1>5, <3>1, <3>2, <3>3, <3>4 DEF GetLabels
  <2>. QED BY <2>1, <2>2 DEF Listens
<1>. QED BY <1>1, <1>2, <1>3, <1>4, <1>5 DEF Next, Terminated


------------------------------------------------------------------------------
(* What add does to the locations, and when it crashes. *)

(* The outcomes of a setting of the server, and those of a setting of a location. *)
KeepsLocations(c, results) ==
  \A o \in results : o.end # "crashed" /\ o.config.locations = c.locations

NeedsLocation(c, results) ==
  \A o \in results : /\ o.end = "crashed" => c.locations = <<>>
                     /\ o.end = "ok" /\ c.locations # <<>> => o.config.locations # <<>>

LEMMA EndFields ==
  ASSUME NEW end, NEW d, NEW o \in Ends(end, d) PROVE o.end = end /\ o.config = d
BY DEF Ends

LEMMA KeepsEnds ==
  ASSUME NEW c, NEW d, d.locations = c.locations
  PROVE  KeepsLocations(c, Done(d)) /\ KeepsLocations(c, Failed(d))
<1>1. \A o \in Done(d) : o.end = "ok" /\ o.config = d
  BY EndFields DEF Done
<1>2. \A o \in Failed(d) : o.end = "failed" /\ o.config = d
  BY EndFields DEF Failed
<1>. QED BY <1>1, <1>2 DEF KeepsLocations

LEMMA OtherFields ==
  ASSUME NEW c \in Configs
  PROVE  /\ \A x : [c EXCEPT !.port = x].locations = c.locations
         /\ \A x : [c EXCEPT !.serverNames = x].locations = c.locations
         /\ \A x : [c EXCEPT !.errorPages = x].locations = c.locations
         /\ \A x : [c EXCEPT !.clientBodySize = x].locations = c.locations
         /\ \A x : [c EXCEPT !.mainRoot = x].locations = c.locations
         /\ \A x : [c EXCEPT !.index = x].locations = c.locations
         /\ \A x : [c EXCEPT !.allowedMethods = x].locations = c.locations
         /\ \A x : [c EXCEPT !.uploadPath = x].locations = c.locations
         /\ \A x : [c EXCEPT !.locations = x].locations = x
BY DEF Configs

LEMMA ServerSettings ==
  ASSUME NEW c \in Configs, NEW key, NEW value, key # "location"
  PROVE  KeepsLocations(c, AddToServer(c, key, value))
<1>0. KeepsLocations(c, Failed(c))
  BY KeepsEnds
<1>1. KeepsLocations(c, SetPort(c, value))
  <2>1. \A port : KeepsLocations(c, Done([c EXCEPT !.port = port]))
    BY KeepsEnds, OtherFields
  <2>2. ASSUME NEW o \in SetPort(c, value)
        PROVE  o \in Failed(c) \/ \E port : o \in Done([c EXCEPT !.port = port])
    BY <2>2 DEF SetPort
  <2>. QED BY <1>0, <2>1, <2>2 DEF KeepsLocations
<1>2. KeepsLocations(c, SetServerName(c, value))
  <2>1. KeepsLocations(c, Done([c EXCEPT !.serverNames = value]))
    BY KeepsEnds, OtherFields
  <2>. QED BY <1>0, <2>1, Zenon DEF SetServerName
<1>3. KeepsLocations(c, SetErrorPage(c, value))
  <2>1. \A x : KeepsLocations(c, Done([c EXCEPT !.errorPages = x]))
    BY KeepsEnds, OtherFields
  <2>2. \/ SetErrorPage(c, value) = Failed(c)
        \/ \E x : SetErrorPage(c, value) = Done([c EXCEPT !.errorPages = x])
    <3>. DEFINE page == PageOf(value)
                x == [code \in DOMAIN c.errorPages \cup {Number[value[1]]} |->
                        IF code = Number[value[1]] THEN page ELSE c.errorPages[code]]
                ok == HasNumber(value) /\ Len(Rest(value)) <= 1 /\ Number[value[1]] \in 400..599
    <3>1. SetErrorPage(c, value) =
            IF ok THEN Done([c EXCEPT !.errorPages = x]) ELSE Failed(c)
      BY Zenon DEF SetErrorPage
    <3>. HIDE DEF ok, x
    <3>. QED BY <3>1, Zenon
  <2>. QED BY <1>0, <2>1, <2>2, Zenon
<1>4. KeepsLocations(c, SetClientBodySize(c, value))
  <2>. DEFINE size == IF HasNumber(value) THEN AsSize(Number[value[1]]) ELSE 0
              stored == IF value = <<>> THEN c ELSE [c EXCEPT !.clientBodySize = size]
  <2>1. \A x : KeepsLocations(c, Done([c EXCEPT !.clientBodySize = x]))
    BY KeepsEnds, OtherFields
  <2>2. stored.locations = c.locations
    <3>. HIDE DEF size
    <3>. QED BY OtherFields
  <2>3. KeepsLocations(c, Failed(stored))
    <3>. HIDE DEF stored
    <3>. QED BY <2>2, KeepsEnds
  <2>4. \/ SetClientBodySize(c, value) = Failed(stored)
        \/ \E x : SetClientBodySize(c, value) = Done([c EXCEPT !.clientBodySize = x])
    <3>. DEFINE times(n) == Done([c EXCEPT !.clientBodySize = (size * n) % Modulus])
    <3>. SUFFICES SetClientBodySize(c, value) \in
                    {Failed(stored), times(Kilo * Kilo), times(Kilo)}
      <4>1. \A n : \E x : times(n) = Done([c EXCEPT !.clientBodySize = x])
        OBVIOUS
      <4>. HIDE DEF stored, times
      <4>. QED BY <4>1
    <3>. QED BY DEF SetClientBodySize
  <2>. QED BY <2>1, <2>3, <2>4, Zenon
<1>5. KeepsLocations(c, SetAllowedMethods(c, value))
  <2>1. \A x : KeepsLocations(c, Done([c EXCEPT !.allowedMethods = x]))
    BY KeepsEnds, OtherFields
  <2>2. \/ SetAllowedMethods(c, value) = Failed(c)
        \/ SetAllowedMethods(c, value) = Done([c EXCEPT !.allowedMethods = Distinct(value)])
    BY Zenon DEF SetAllowedMethods
  <2>. QED BY <1>0, <2>1, <2>2, Zenon
<1>6. /\ KeepsLocations(c, Done([c EXCEPT !.mainRoot = value]))
      /\ KeepsLocations(c, Done([c EXCEPT !.index = ToSet(value)]))
      /\ KeepsLocations(c, Done([c EXCEPT !.uploadPath = value]))
  BY KeepsEnds, OtherFields
<1>7. AddToServer(c, key, value) \in
        {SetPort(c, value), SetServerName(c, value), SetErrorPage(c, value),
         SetClientBodySize(c, value), SetAllowedMethods(c, value), Failed(c),
         Done([c EXCEPT !.mainRoot = value]), Done([c EXCEPT !.index = ToSet(value)]),
         Done([c EXCEPT !.uploadPath = value])}
  BY DEF AddToServer
<1>. QED BY <1>0, <1>1, <1>2, <1>3, <1>4, <1>5, <1>6, <1>7, Zenon

LEMMA NewLocationSetting ==
  ASSUME NEW c \in Configs, NEW value, NEW o \in AddToServer(c, "location", value)
  PROVE  o.end = "ok" /\ o.config.locations # <<>>
<1>. DEFINE l == NewLocation(value)
            ls == Append(c.locations, l)
<1>1. AddToServer(c, "location", value) = Done([c EXCEPT !.locations = ls])
  BY DEF AddToServer
<1>. HIDE DEF l
<1>2. ls # <<>>
  <2>1. c.locations \in Seq(LocationRecords)
    BY ConfigFields DEF LocationLists
  <2>. DEFINE S == LocationRecords \cup {l}
  <2>2. c.locations \in Seq(S) /\ l \in S
    BY <2>1
  <2>. HIDE DEF S
  <2>3. Len(ls) = Len(c.locations) + 1 /\ Len(c.locations) \in Nat
    BY <2>2
  <2>. HIDE DEF ls
  <2>. QED BY <2>3
<1>. HIDE DEF ls
<1>3. o \in Done([c EXCEPT !.locations = ls])
  BY <1>1
<1>4. o.end = "ok" /\ o.config = [c EXCEPT !.locations = ls]
  BY <1>3, EndFields DEF Done
<1>. QED BY <1>2, <1>4, OtherFields

LEMMA NeedsEnds ==
  ASSUME NEW c \in Configs, NEW x
  PROVE  /\ NeedsLocation(c, Done(c)) /\ NeedsLocation(c, Failed(c))
         /\ c.locations = <<>> => NeedsLocation(c, Ends("crashed", c))
         /\ c.locations # <<>> =>
              \A o \in WithLocation(c, x) : o.end = "ok" /\ o.config.locations # <<>>
<1>1. NeedsLocation(c, Done(c)) /\ NeedsLocation(c, Failed(c))
  <2>1. \A o \in Done(c) : o.end = "ok" /\ o.config = c
    BY EndFields DEF Done
  <2>2. \A o \in Failed(c) : o.end = "failed" /\ o.config = c
    BY EndFields DEF Failed
  <2>. QED BY <2>1, <2>2 DEF NeedsLocation
<1>2. c.locations = <<>> => NeedsLocation(c, Ends("crashed", c))
  BY DEF NeedsLocation, Ends
<1>3. ASSUME c.locations # <<>>, NEW o \in WithLocation(c, x)
      PROVE  o.end = "ok" /\ o.config.locations # <<>>
  <2>. DEFINE S == LocationRecords \cup {x}
              ls == Front(c.locations) \o <<x>>
  <2>1. c.locations \in Seq(LocationRecords)
    BY ConfigFields DEF LocationLists
  <2>2. Front(c.locations) \in Seq(LocationRecords)
    BY <1>3, <2>1 DEF Front
  <2>3. Front(c.locations) \in Seq(S) /\ x \in S
    BY <2>2
  <2>. HIDE DEF S
  <2>4. ls # <<>>
    <3>1. Len(ls) = Len(Front(c.locations)) + 1 /\ Len(Front(c.locations)) \in Nat
      BY <2>3
    <3>. QED BY <3>1
  <2>5. o \in Done([c EXCEPT !.locations = ls])
    BY <1>3 DEF WithLocation
  <2>. HIDE DEF ls
  <2>6. o.end = "ok" /\ o.config = [c EXCEPT !.locations = ls]
    BY <2>5, EndFields DEF Done
  <2>. QED BY <2>4, <2>6, OtherFields
<1>. QED BY <1>1, <1>2, <1>3

LEMMA NeedsOne ==
  ASSUME NEW c \in Configs, NEW x
  PROVE  /\ NeedsLocation(c, Checked(c, x)) /\ NeedsLocation(c, Unchecked(c, x))
         /\ c.locations # <<>> => \A o \in Checked(c, x) \cup Unchecked(c, x) : o.end = "ok"
<1>1. CASE c.locations = <<>>
  <2>1. Checked(c, x) = Failed(c) /\ Unchecked(c, x) = Ends("crashed", c)
    BY <1>1, Zenon DEF Checked, Unchecked
  <2>. QED BY <1>1, <2>1, NeedsEnds
<1>2. CASE c.locations # <<>>
  <2>1. Checked(c, x) = WithLocation(c, x) /\ Unchecked(c, x) = WithLocation(c, x)
    BY <1>2, Zenon DEF Checked, Unchecked
  <2>2. \A o \in WithLocation(c, x) : o.end = "ok" /\ o.config.locations # <<>>
    BY <1>2, NeedsEnds
  <2>. QED BY <1>2, <2>1, <2>2 DEF NeedsLocation
<1>. QED BY <1>1, <1>2

LEMMA LocationSettings ==
  ASSUME NEW c \in Configs, NEW key, NEW value \in Values
  PROVE  NeedsLocation(c, AddToLocation(c, key, value))
<1>. DEFINE l == IF c.locations = <<>> THEN NewLocation(<<>>) ELSE Last(c.locations)
            words == ToSet(value)
<1>0. NeedsLocation(c, Failed(c)) /\ NeedsLocation(c, Done(c))
  BY NeedsEnds
<1>1. \A x : NeedsLocation(c, Checked(c, x)) /\ NeedsLocation(c, Unchecked(c, x))
  BY NeedsOne
<1>2. ASSUME NEW x PROVE NeedsLocation(c, SetHttpMethods(c, x, value))
  <2>. DEFINE kept == [x EXCEPT !.http_methods = Distinct(value)]
              none == [x EXCEPT !.http_methods = <<>>]
              or(e) == IF e = "ok" THEN "failed" ELSE e
  <2>1. NeedsLocation(c, {[o EXCEPT !.end = or(@)] : o \in Unchecked(c, none)})
    <3>. HIDE DEF none
    <3>1. ASSUME NEW o \in Unchecked(c, none)
          PROVE  LET p == [o EXCEPT !.end = or(@)]
                 IN p.end # "ok" /\ (p.end = "crashed" => c.locations = <<>>)
      <4>1. PICK end, d : o = [end |-> end, config |-> d]
        <5>1. CASE c.locations = <<>>
          BY <5>1 DEF Unchecked, Ends
        <5>2. CASE c.locations # <<>>
          BY <5>2 DEF Unchecked, WithLocation, Done, Ends
        <5>. QED BY <5>1, <5>2
      <4>2. [o EXCEPT !.end = or(@)].end = or(end) /\ o.end = end
        BY <4>1
      <4>3. end = "crashed" => c.locations = <<>>
        BY <1>1, <4>2 DEF NeedsLocation
      <4>. QED BY <4>2, <4>3
    <3>. QED BY <3>1 DEF NeedsLocation
  <2>2. SetHttpMethods(c, x, value) \in
          {Failed(c), Unchecked(c, kept), {[o EXCEPT !.end = or(@)] : o \in Unchecked(c, none)}}
    BY Zenon DEF SetHttpMethods
  <2>. QED BY <1>0, <1>1, <2>1, <2>2, Zenon
<1>3. ASSUME NEW x PROVE NeedsLocation(c, SetHttpRedirection(c, x, value))
  <2>1. CASE c.locations = <<>>
    <3>1. SetHttpRedirection(c, x, value) = Failed(c)
      BY <2>1, Zenon DEF SetHttpRedirection
    <3>. QED BY <1>0, <3>1
  <2>2. CASE c.locations # <<>>
    <3>. DEFINE ended(end, y) == {[o EXCEPT !.end = end] : o \in WithLocation(c, y)}
    <3>1. \E end, y : end \in {"ok", "failed"} /\ SetHttpRedirection(c, x, value) = ended(end, y)
      <4>. DEFINE code == CASE value = <<>>     -> x.http_redirection.code
                            [] HasNumber(value) -> Number[value[1]]
                            [] OTHER            -> 0
                  target == IF code \in 300..399 /\ HasNumber(value) /\ Rest(value) # <<>>
                            THEN Rest(value)[1] ELSE x.http_redirection.target
                  end == IF code \in 300..399 THEN "ok" ELSE "failed"
                  y == [x EXCEPT !.http_redirection = [code |-> code, target |-> target]]
      <4>1. SetHttpRedirection(c, x, value) = ended(end, y)
        BY <2>2, Zenon DEF SetHttpRedirection
      <4>. HIDE DEF code, y, ended
      <4>2. end \in {"ok", "failed"}
        OBVIOUS
      <4>. HIDE DEF end
      <4>. QED BY <4>1, <4>2
    <3>2. PICK end, y : /\ end \in {"ok", "failed"}
                        /\ SetHttpRedirection(c, x, value) = ended(end, y)
      BY <3>1, Zenon
    <3>3. ASSUME NEW o \in WithLocation(c, y)
          PROVE  [o EXCEPT !.end = end].end = end /\ [o EXCEPT !.end = end].config = o.config
      <4>1. PICK d : o = [end |-> "ok", config |-> d]
        BY DEF WithLocation, Done, Ends
      <4>. QED BY <4>1
    <3>4. \A o \in WithLocation(c, y) : o.config.locations # <<>>
      BY <2>2, NeedsEnds
    <3>5. ASSUME NEW r \in ended(end, y)
          PROVE  r.end \in {"ok", "failed"} /\ r.config.locations # <<>>
      <4>1. PICK o \in WithLocation(c, y) : r = [o EXCEPT !.end = end]
        BY <3>5
      <4>. QED BY <3>2, <3>3, <3>4, <4>1
    <3>. HIDE DEF ended
    <3>. QED BY <3>2, <3>5 DEF NeedsLocation
  <2>. QED BY <2>1, <2>2
<1>4. ASSUME NEW x PROVE NeedsLocation(c, SetSetCookie(c, x, value))
  <2>1. \/ SetSetCookie(c, x, value) = Failed(c)
        \/ \E y : SetSetCookie(c, x, value) = Unchecked(c, y)
    <3>. DEFINE new == [x EXCEPT !.set_cookie = Append(@, CookieOf(value))]
    <3>1. SetSetCookie(c, x, value) =
            IF ~ToSet(value) \subseteq DOMAIN Attribute \/ CookieOf(value).name = ""
            THEN Failed(c) ELSE Unchecked(c, new)
      BY Zenon DEF SetSetCookie, CookieOf
    <3>. HIDE DEF new
    <3>. QED BY <3>1, Zenon
  <2>. QED BY <1>0, <1>1, <2>1, Zenon
<1>5. \/ AddToLocation(c, key, value) \in
           {SetHttpMethods(c, l, value), SetHttpRedirection(c, l, value),
            SetSetCookie(c, l, value), Failed(c), Done(c)}
      \/ AddToLocation(c, key, value) \in
           {Checked(c, [l EXCEPT !.root = value]),
            Checked(c, [l EXCEPT !.directory_listing = value]),
            Checked(c, [l EXCEPT !.response_is_dir = value]),
            Unchecked(c, [l EXCEPT !.cgi_pass = @ \cup words]),
            Unchecked(c, [l EXCEPT !.required_cookie =
                            @ \cup IF value = <<>> THEN {""} ELSE words])}
  BY DEF AddToLocation
<1>. HIDE DEF l, words
<1>6. \/ AddToLocation(c, key, value) \in
           {SetHttpMethods(c, l, value), SetHttpRedirection(c, l, value),
            SetSetCookie(c, l, value), Failed(c), Done(c)}
      \/ \E y : AddToLocation(c, key, value) \in {Checked(c, y), Unchecked(c, y)}
  BY <1>5, Zenon
<1>. QED BY <1>0, <1>1, <1>2, <1>3, <1>4, <1>6, Zenon

LEMMA AddLocations ==
  ASSUME NEW c \in Configs, NEW l \in Label, NEW o \in Add(c, l)
  PROVE  /\ o.end = "crashed" => l.prefixed /\ c.locations = <<>>
         /\ o.end = "ok" /\ (c.locations # <<>> \/ IsAt(l)) => o.config.locations # <<>>
<1>0. l.value \in Values
  BY DEF Label, Values
<1>1. CASE l.prefixed
  <2>1. o \in AddToLocation(c, l.key, l.value)
    BY <1>1, Zenon DEF Add
  <2>2. NeedsLocation(c, AddToLocation(c, l.key, l.value))
    BY <1>0, LocationSettings
  <2>. QED BY <1>1, <2>1, <2>2, Zenon DEF NeedsLocation, IsAt
<1>2. CASE ~l.prefixed /\ l.key # "location"
  <2>1. o \in AddToServer(c, l.key, l.value)
    BY <1>2, Zenon DEF Add
  <2>2. KeepsLocations(c, AddToServer(c, l.key, l.value))
    BY <1>2, ServerSettings
  <2>. QED BY <1>2, <2>1, <2>2 DEF KeepsLocations, IsAt
<1>3. CASE ~l.prefixed /\ l.key = "location"
  <2>1. o \in AddToServer(c, "location", l.value)
    BY <1>3, Zenon DEF Add
  <2>. QED BY <2>1, NewLocationSetting
<1>. QED BY <1>1, <1>2, <1>3

------------------------------------------------------------------------------
(* The location a setting is for. *)

(* Where there is one now, there is one after a step that only adds labels. *)
LEMMA PlaceKept ==
  ASSUME TypeInv, TypeInv', Kept(Blocks, Blocks'), config' = config,
         NEW k \in 1..Len(Blocks), NEW p \in 1..Len(Blocks[k])
  PROVE  HasPlace(k, p) => HasPlace(k, p)'
<1>1. Len(Blocks[k]) \in Nat /\ \A q \in 1..Len(Blocks[k]) : Blocks'[k][q] = Blocks[k][q]
  BY BlocksFacts DEF Kept
<1>2. \A q \in 1..(p - 1) : q \in 1..Len(Blocks[k])
  BY <1>1
<1>. QED BY <1>1, <1>2 DEF HasPlace

(* What stays as it is when labels are only added: what holds of the labels before holds
   of them after. *)
LEMMA ExcuseKept ==
  ASSUME TypeInv, TypeInv', Kept(Blocks, Blocks'), config' = config,
         NEW k \in 1..Len(Blocks), NEW p \in 1..Len(Blocks[k]),
         HasPlace(k, p) \/ RefusedBefore(Blocks, k, p)
  PROVE  HasPlace(k, p)' \/ RefusedBefore(Blocks', k, p)
<1>1. Blocks \in Seq(Seq(Label)) /\ Blocks' \in Seq(Seq(Label))
  BY BlocksFacts, NextBlocks
<1>. QED BY <1>1, PlaceKept, KeptFacts

LEMMA PlacePopped ==
  ASSUME TypeInv, TypeInv', AddLabel, pc' = "add"
  PROVE  /\ \A k \in 2..Len(Blocks) : \A p : HasPlace(k, p) => HasPlace(k, p)'
         /\ \A p \in 1..(Len(Blocks[1]) - 1) : HasPlace(1, p + 1) => HasPlace(1, p)'
<1>1. /\ Len(Blocks) \in Nat /\ Len(Blocks[1]) \in Nat /\ Blocks[1] = servers[1]
      /\ \A p \in 1..(Len(Blocks[1]) - 1) : Blocks'[1][p] = Blocks[1][p + 1]
      /\ \A k \in 2..Len(Blocks) : Blocks'[k] = Blocks[k]
  BY Popped
<1>2. /\ IsAt(Blocks[1][1]) => config'.locations # <<>>
      /\ config.locations # <<>> => config'.locations # <<>>
  <2>1. PICK o \in Add(config, servers[1][1]) : config' = o.config /\ o.end = "ok"
    BY AddEnds
  <2>2. servers[1][1] \in Label /\ config \in Configs
    BY AddEnds DEF TypeInv
  <2>. QED BY <1>1, <2>1, <2>2, AddLocations
<1>3. ASSUME NEW k \in 2..Len(Blocks), NEW p, HasPlace(k, p) PROVE HasPlace(k, p)'
  <2>1. k # 1
    BY <1>1
  <2>. QED BY <1>1, <1>3, <2>1 DEF HasPlace
<1>4. ASSUME NEW p \in 1..(Len(Blocks[1]) - 1), HasPlace(1, p + 1) PROVE HasPlace(1, p)'
  <2>1. CASE config.locations # <<>>
    BY <1>2, <2>1 DEF HasPlace
  <2>2. CASE \E q \in 1..(p + 1 - 1) : IsAt(Blocks[1][q])
    <3>1. PICK q \in 1..p : IsAt(Blocks[1][q])
      BY <1>1, <2>2
    <3>2. CASE q = 1
      BY <1>2, <3>1, <3>2 DEF HasPlace
    <3>3. CASE q # 1
      <4>1. q - 1 \in 1..(p - 1) /\ q - 1 \in 1..(Len(Blocks[1]) - 1) /\ (q - 1) + 1 = q
        BY <1>1, <3>3
      <4>2. Blocks'[1][q - 1] = Blocks[1][q]
        BY <1>1, <4>1
      <4>. QED BY <3>1, <4>1, <4>2 DEF HasPlace
    <3>. QED BY <3>2, <3>3
  <2>. QED BY <1>4, <2>1, <2>2 DEF HasPlace
<1>. QED BY <1>3, <1>4

LEMMA PlaceShifted ==
  ASSUME TypeInv, TypeInv', FinishServer
  PROVE  \A k \in 1..(Len(Blocks) - 1) : \A p : HasPlace(k + 1, p) => HasPlace(k, p)'
<1>1. Len(Blocks) \in Nat /\ \A k \in 1..(Len(Blocks) - 1) : Blocks'[k] = Blocks[k + 1]
  BY Shifted
<1>2. \A k \in 1..(Len(Blocks) - 1) : k + 1 # 1
  BY <1>1
<1>. QED BY <1>1, <1>2 DEF HasPlace

(* A location with location_ in front comes first in its server. *)
LEMMA FirstLocation ==
  ASSUME TypeInv, LinesOfFile, AsNested, pc = "server", lines # <<>>,
         Head(lines) = file[Seen + 1], Seen + 1 \in 1..Len(file),
         Head(lines).prefixed, ~HasLocation(labels)
  PROVE  Homeless(Seen + 1)
<1>. DEFINE n == Seen
            S == {1} \cup {j \in 1..(n + 1) : file[j] = Server}
<1>1. n \in Nat /\ Depth(n + 1) = 1
  BY SeenFacts, Levels DEF AsNested
<1>2. PICK h \in 1..n :
        /\ file[h] = Server
        /\ \A j \in (h + 1)..n : file[j] # Server /\ (IsAt(file[j]) => HasLocation(labels))
  BY DEF AsNested
<1>3. file[n + 1].prefixed /\ file[n + 1] # Server /\ ~IsAt(file[n + 1]) /\ ~IsAt(Server)
  <2>1. file[n + 1] # Server
    BY Kinds DEF IsLocation
  <2>2. ~IsAt(file[n + 1]) /\ ~IsAt(Server)
    BY PlainFacts DEF IsAt, Server
  <2>. QED BY <2>1, <2>2
<1>. HIDE DEF n
<1>4. h \in S /\ \A j \in S : j \in Int /\ j <= h
  BY <1>1, <1>2, <1>3
<1>. HIDE DEF S
<1>5. Max(S) = h
  <2>1. \A y \in S : h >= y
    BY <1>1, <1>4
  <2>2. ASSUME NEW x \in S, \A y \in S : x >= y PROVE x = h
    <3>1. x >= h /\ h >= x /\ x \in Int /\ h \in Int
      BY <1>1, <1>4, <2>1, <2>2
    <3>. QED BY <3>1
  <2>. QED BY <1>4, <2>1, <2>2, Zenon DEF Max
<1>6. {j \in h..(n + 1) : IsAt(file[j])} = {}
  <2>1. \A j \in h..(n + 1) : j = h \/ j \in (h + 1)..n \/ j = n + 1
    BY <1>1
  <2>. QED BY <1>2, <1>3, <2>1
<1>7. LocationOf(n + 1) = 0
  <2>1. LocationOf(n + 1) = Cardinality({j \in h..(n + 1) : IsAt(file[j])})
    BY <1>5 DEF LocationOf, Count, S
  <2>. QED BY <1>6, <2>1, FS_EmptySet
<1>. QED BY <1>1, <1>3, <1>7 DEF Homeless, n

(* A label goes behind all others. *)
LEMMA RefusedEarlier ==
  ASSUME TypeInv, TypeInv', NEW l, labels' = Append(labels, l), servers' = servers,
         AnyRefused(Blocks)
  PROVE  RefusedBefore(Blocks', Len(servers) + 1, Len(labels) + 1)
<1>1. PICK j \in 1..Len(Blocks) : \E q \in 1..Len(Blocks[j]) : Refused(Blocks[j][q])
  BY DEF AnyRefused
<1>0. PICK q \in 1..Len(Blocks[j]) : Refused(Blocks[j][q])
  BY <1>1
<1>2. /\ j \in 1..Len(Blocks') /\ q \in 1..Len(Blocks'[j]) /\ Blocks'[j][q] = Blocks[j][q]
  <2>1. Kept(Blocks, Blocks') /\ Len(Blocks') = Len(Blocks)
    BY Labelled
  <2>2. Len(Blocks[j]) <= Len(Blocks'[j]) /\ Blocks'[j][q] = Blocks[j][q]
    BY <2>1, Zenon DEF Kept
  <2>3. Len(Blocks[j]) \in Nat /\ Len(Blocks'[j]) \in Nat
    BY <2>1, BlocksFacts, NextBlocks
  <2>. QED BY <2>1, <2>2, <2>3
<1>3. j < Len(servers) + 1 \/ (j = Len(servers) + 1 /\ q < Len(labels) + 1)
  <2>1. Len(Blocks) = Len(servers) + 1 /\ Len(servers) \in Nat /\ Len(labels) \in Nat
        /\ Blocks[Len(servers) + 1] = labels
    BY BlocksFacts
  <2>. QED BY <2>1
<1>. QED BY <1>0, <1>2, <1>3 DEF RefusedBefore

(* The labels after a step that adds one, and what is to be shown of the new one. *)
LEMMA OneMore ==
  ASSUME TypeInv, TypeInv', NEW l, labels' = Append(labels, l), servers' = servers,
         NEW k \in 1..Len(Blocks'), NEW p \in 1..Len(Blocks'[k])
  PROVE  \/ /\ k \in 1..Len(Blocks) /\ p \in 1..Len(Blocks[k])
            /\ Blocks'[k][p] = Blocks[k][p]
         \/ /\ k = Len(servers) + 1 /\ p = Len(labels) + 1 /\ Blocks'[k][p] = l
<1>1. /\ Len(servers) \in Nat /\ Len(labels) \in Nat
      /\ Len(Blocks) = Len(servers) + 1 /\ Len(Blocks') = Len(Blocks)
      /\ Blocks[Len(servers) + 1] = labels
      /\ \A j \in 1..Len(servers) : Blocks[j] = servers[j]
  BY BlocksFacts, Labelled
<1>2. /\ Blocks'[Len(servers) + 1] = labels'
      /\ \A j \in 1..Len(servers) : Blocks'[j] = servers[j]
  BY NextBlocks
<1>3. /\ Len(labels') = Len(labels) + 1 /\ labels'[Len(labels) + 1] = l
      /\ \A q \in 1..Len(labels) : labels'[q] = labels[q]
  BY Labelled
<1>4. CASE k = Len(servers) + 1
  BY <1>1, <1>2, <1>3, <1>4
<1>5. CASE k # Len(servers) + 1
  BY <1>1, <1>2, <1>5
<1>. QED BY <1>4, <1>5

(* A label that add refuses comes one earlier, or stays where it is. *)
LEMMA StillBefore ==
  ASSUME TypeInv, TypeInv', AddLabel, pc' = "add"
  PROVE  /\ \A k, p : k # 1 /\ RefusedBefore(Blocks, k, p) => RefusedBefore(Blocks', k, p)
         /\ \A p \in 1..(Len(Blocks[1]) - 1) :
              RefusedBefore(Blocks, 1, p + 1) => RefusedBefore(Blocks', 1, p)
<1>1. /\ Len(Blocks) \in Nat /\ Len(Blocks') = Len(Blocks) /\ 1 \in 1..Len(Blocks)
      /\ Len(Blocks[1]) \in Nat
      /\ Len(Blocks'[1]) = Len(Blocks[1]) - 1
      /\ \A q \in 1..(Len(Blocks[1]) - 1) : Blocks'[1][q] = Blocks[1][q + 1]
      /\ \A j \in 2..Len(Blocks) : Blocks'[j] = Blocks[j]
      /\ ~Refused(Blocks[1][1])
  BY Popped
<1>2. ASSUME NEW q \in 1..Len(Blocks[1]), Refused(Blocks[1][q])
      PROVE  /\ q - 1 \in 1..Len(Blocks'[1]) /\ Refused(Blocks'[1][q - 1])
  <2>1. q # 1
    BY <1>1, <1>2
  <2>2. q - 1 \in 1..(Len(Blocks[1]) - 1) /\ (q - 1) + 1 = q
    BY <1>1, <2>1
  <2>. QED BY <1>1, <1>2, <2>2
<1>3. ASSUME NEW k, NEW p, k # 1, RefusedBefore(Blocks, k, p) PROVE RefusedBefore(Blocks', k, p)
  <2>1. PICK j \in 1..Len(Blocks) : \E q \in 1..Len(Blocks[j]) :
          (j < k \/ (j = k /\ q < p)) /\ Refused(Blocks[j][q])
    BY <1>3 DEF RefusedBefore
  <2>2. PICK q \in 1..Len(Blocks[j]) :
          (j < k \/ (j = k /\ q < p)) /\ Refused(Blocks[j][q])
    BY <2>1
  <2>3. CASE j = 1
    <3>1. 1 < k
      BY <1>3, <2>2, <2>3
    <3>. QED BY <1>1, <1>2, <2>2, <2>3, <3>1 DEF RefusedBefore
  <2>4. CASE j # 1
    <3>1. j \in 2..Len(Blocks) /\ j \in 1..Len(Blocks')
      BY <1>1, <2>4
    <3>2. Blocks'[j] = Blocks[j]
      BY <1>1, <3>1
    <3>. QED BY <2>2, <3>1, <3>2 DEF RefusedBefore
  <2>. QED BY <2>3, <2>4
<1>4. ASSUME NEW p \in 1..(Len(Blocks[1]) - 1), RefusedBefore(Blocks, 1, p + 1)
      PROVE  RefusedBefore(Blocks', 1, p)
  <2>1. PICK j \in 1..Len(Blocks) : \E q \in 1..Len(Blocks[j]) :
          (j < 1 \/ (j = 1 /\ q < p + 1)) /\ Refused(Blocks[j][q])
    BY <1>4 DEF RefusedBefore
  <2>2. j = 1
    BY <2>1
  <2>3. PICK q \in 1..Len(Blocks[1]) : q < p + 1 /\ Refused(Blocks[1][q])
    BY <2>1, <2>2
  <2>4. q - 1 \in 1..Len(Blocks'[1]) /\ Refused(Blocks'[1][q - 1])
    BY <1>2, <2>3
  <2>5. q - 1 < p
    BY <1>1, <2>3
  <2>. QED BY <1>1, <2>4, <2>5 DEF RefusedBefore
<1>. QED BY <1>3, <1>4

LEMMA EmptyAtEnd ==
  ASSUME TypeInv, TypeInv', servers' = Blocks, labels' = <<>>,
         NEW k \in 1..Len(Blocks'), NEW p \in 1..Len(Blocks'[k])
  PROVE  k \in 1..Len(Blocks) /\ Blocks'[k] = Blocks[k]
<1>1. CASE k = Len(servers') + 1
  <2>1. Blocks'[k] = <<>>
    BY <1>1, NextBlocks
  <2>2. Len(Blocks'[k]) = 0
    BY <2>1
  <2>. QED BY <2>2
<1>2. CASE k # Len(servers') + 1
  <2>1. Len(Blocks') = Len(servers') + 1 /\ Len(servers') \in Nat
    BY NextBlocks
  <2>2. k \in 1..Len(servers')
    BY <1>2, <2>1
  <2>3. Blocks'[k] = servers'[k]
    BY <2>2, NextBlocks
  <2>. QED BY <2>2, <2>3
<1>. QED BY <1>1, <1>2

LEMMA CrashesStep ==
  ASSUME TypeInv, TypeInv', LinesOfFile, Reads, LabelsOfServer, Crashes, [Next]_vars
  PROVE  Crashes'
<1>0. file' = file
  BY DEF Next, GetLabels, SkipComment, OpenServer, OpenLocation, ServerLine, CloseServer,
         LocationLine, CloseLocation, EndOfFile, AddLabel, FinishServer, Finish,
         StartServer, EnterLoop, Terminated, vars
<1>. SUFFICES ASSUME pc' \in Reader \cup {"add"},
                     NEW k \in 1..Len(Blocks'), NEW p \in 1..Len(Blocks'[k]),
                     Blocks'[k][p].prefixed,
                     \A i \in 1..Len(file) : ~Homeless(i)
              PROVE  HasPlace(k, p)' \/ RefusedBefore(Blocks', k, p)
  BY <1>0, Frozen DEF Crashes
<1>1. ASSUME pc \in Reader \cup {"add"},
             NEW j \in 1..Len(Blocks), NEW q \in 1..Len(Blocks[j]), Blocks[j][q].prefixed
      PROVE  HasPlace(j, q) \/ RefusedBefore(Blocks, j, q)
  BY <1>1 DEF Crashes
<1>2. CASE /\ SkipComment \/ OpenServer \/ CloseLocation \/ EndOfFile \/ UNCHANGED vars
  <2>1. /\ Blocks' = Blocks /\ config' = config /\ pc \in Reader \cup {"add"}
    <3>1. /\ labels' = labels /\ servers' = servers /\ config' = config
          /\ pc \in Reader \/ pc' = pc
      BY <1>2 DEF SkipComment, OpenServer, CloseLocation, EndOfFile, vars, Reading, Reader
    <3>. QED BY <3>1 DEF Blocks
  <2>2. HasPlace(k, p)' <=> HasPlace(k, p)
    BY <2>1 DEF HasPlace
  <2>. QED BY <1>1, <2>1, <2>2
<1>3. CASE OpenLocation
  <2>. DEFINE l == Head(lines)
  <2>1. /\ pc = "server" /\ lines # <<>> /\ lines' = SubSeq(lines, 3, Len(lines))
        /\ labels' = Append(labels, l) /\ servers' = servers /\ config' = config
    BY <1>3 DEF OpenLocation, Reading
  <2>2. Kept(Blocks, Blocks')
    BY <2>1, Labelled
  <2>3. CASE k \in 1..Len(Blocks) /\ p \in 1..Len(Blocks[k]) /\ Blocks'[k][p] = Blocks[k][p]
    BY <1>1, <2>1, <2>2, <2>3, ExcuseKept DEF Reader
  <2>4. CASE k = Len(servers) + 1 /\ p = Len(labels) + 1 /\ Blocks'[k][p] = l
    <3>1. CASE AnyRefused(Blocks)
      BY <2>1, <2>4, <3>1, RefusedEarlier
    <3>2. CASE HasLocation(labels)
      <4>1. PICK q \in 1..Len(labels) : IsAt(labels[q])
        BY <3>2 DEF HasLocation
      <4>2. q \in 1..(p - 1) /\ Blocks'[k] = labels' /\ labels'[q] = labels[q]
        BY <2>1, <2>4, BlocksFacts, NextBlocks, Labelled
      <4>. QED BY <4>1, <4>2 DEF HasPlace
    <3>3. CASE ~AnyRefused(Blocks) /\ ~HasLocation(labels)
      <4>1. AsNested
        BY <2>1, <3>3 DEF Reads, Reader
      <4>2. Seen + 1 \in 1..Len(file) /\ l = file[Seen + 1]
        BY <1>0, <2>1, TwoLines
      <4>. QED BY <2>1, <2>4, <3>3, <4>1, <4>2, FirstLocation
    <3>. QED BY <3>1, <3>2, <3>3
  <2>. HIDE DEF l
  <2>. QED BY <2>1, <2>3, <2>4, OneMore
<1>4. CASE ServerLine
  <2>. DEFINE l == Head(lines)
  <2>1. /\ pc = "server" /\ labels' = Append(labels, l) /\ servers' = servers
        /\ config' = config /\ ~l.prefixed
    BY <1>4 DEF ServerLine, IsLocation
  <2>2. Kept(Blocks, Blocks')
    BY <2>1, Labelled
  <2>3. CASE k \in 1..Len(Blocks) /\ p \in 1..Len(Blocks[k]) /\ Blocks'[k][p] = Blocks[k][p]
    BY <1>1, <2>1, <2>2, <2>3, ExcuseKept DEF Reader
  <2>. HIDE DEF l
  <2>. QED BY <2>1, <2>3, OneMore
<1>5. CASE LocationLine
  <2>. DEFINE l == InLocation(Head(lines))
  <2>1. /\ pc = "location" /\ labels' = Append(labels, l) /\ servers' = servers
        /\ config' = config
    BY <1>5 DEF LocationLine
  <2>2. Kept(Blocks, Blocks')
    BY <2>1, Labelled
  <2>3. CASE k \in 1..Len(Blocks) /\ p \in 1..Len(Blocks[k]) /\ Blocks'[k][p] = Blocks[k][p]
    BY <1>1, <2>1, <2>2, <2>3, ExcuseKept DEF Reader
  <2>4. CASE k = Len(servers) + 1 /\ p = Len(labels) + 1
    <3>1. PICK q \in 1..Len(labels) : IsLocation(labels[q])
      BY <2>1 DEF LabelsOfServer
    <3>2. /\ k \in 1..Len(Blocks) /\ Blocks[k] = labels /\ q \in 1..Len(Blocks[k])
          /\ q \in 1..(p - 1) /\ Blocks'[k] = labels' /\ labels'[q] = labels[q]
      BY <2>1, <2>4, BlocksFacts, NextBlocks, Labelled
    <3>3. CASE IsAt(labels[q])
      BY <3>2, <3>3 DEF HasPlace
    <3>4. CASE labels[q].prefixed
      <4>1. HasPlace(k, q) \/ RefusedBefore(Blocks, k, q)
        BY <1>1, <2>1, <3>2, <3>4 DEF Reader
      <4>2. HasPlace(k, q)' \/ RefusedBefore(Blocks', k, q)
        BY <2>1, <2>2, <3>2, <4>1, ExcuseKept
      <4>3. HasPlace(k, q)' => HasPlace(k, p)'
        <5>1. \A r \in 1..(q - 1) : r \in 1..(p - 1)
          BY <3>2
        <5>. QED BY <5>1, Zenon DEF HasPlace
      <4>4. RefusedBefore(Blocks', k, q) => RefusedBefore(Blocks', k, p)
        <5>1. p \in Nat /\ q < p
          BY <2>4, <3>2, BlocksFacts
        <5>2. \A i \in 1..Len(Blocks'[k]) : i < q => i < p
          BY <3>2, <5>1, NextBlocks
        <5>. QED BY <5>2 DEF RefusedBefore
      <4>. QED BY <4>2, <4>3, <4>4
    <3>. QED BY <3>1, <3>3, <3>4 DEF IsAt, IsLocation
  <2>. HIDE DEF l
  <2>. QED BY <2>1, <2>3, <2>4, OneMore
<1>6. CASE CloseServer
  <2>1. pc = "server" /\ servers' = Blocks /\ labels' = <<>> /\ config' = config
    BY <1>6 DEF CloseServer, Blocks
  <2>2. Kept(Blocks, Blocks')
    BY <1>6, Closed
  <2>3. k \in 1..Len(Blocks) /\ Blocks'[k] = Blocks[k]
    BY <2>1, EmptyAtEnd
  <2>. QED BY <1>1, <2>1, <2>2, <2>3, ExcuseKept DEF Reader
<1>7. CASE AddLabel
  <2>1. pc = "add" /\ pc' = "add"
    BY <1>7, AddEnds DEF Reader
  <2>2. /\ Len(Blocks) \in Nat /\ Len(Blocks') = Len(Blocks) /\ 1 \in 1..Len(Blocks)
        /\ Len(Blocks[1]) \in Nat
        /\ Len(Blocks'[1]) = Len(Blocks[1]) - 1
        /\ \A q \in 1..(Len(Blocks[1]) - 1) : Blocks'[1][q] = Blocks[1][q + 1]
        /\ \A j \in 2..Len(Blocks) : Blocks'[j] = Blocks[j]
        /\ ~Refused(Blocks[1][1])
    BY <1>7, <2>1, Popped
  <2>3. CASE k # 1
    <3>1. k \in 2..Len(Blocks) /\ k \in 1..Len(Blocks) /\ Blocks'[k] = Blocks[k]
      BY <2>2, <2>3
    <3>2. HasPlace(k, p) \/ RefusedBefore(Blocks, k, p)
      BY <1>1, <2>1, <3>1
    <3>3. HasPlace(k, p) => HasPlace(k, p)'
      BY <1>7, <2>1, <3>1, PlacePopped
    <3>4. RefusedBefore(Blocks, k, p) => RefusedBefore(Blocks', k, p)
      BY <1>7, <2>1, <2>2, <2>3, StillBefore
    <3>. QED BY <3>2, <3>3, <3>4
  <2>4. CASE k = 1
    <3>1. p \in 1..(Len(Blocks[1]) - 1) /\ p + 1 \in 1..Len(Blocks[1])
          /\ Blocks'[1][p] = Blocks[1][p + 1]
      BY <2>2, <2>4
    <3>2. HasPlace(1, p + 1) \/ RefusedBefore(Blocks, 1, p + 1)
      BY <1>1, <2>1, <2>2, <2>4, <3>1
    <3>3. HasPlace(1, p + 1) => HasPlace(1, p)'
      BY <1>7, <2>1, <3>1, PlacePopped
    <3>4. RefusedBefore(Blocks, 1, p + 1) => RefusedBefore(Blocks', 1, p)
      BY <1>7, <2>1, <3>1, StillBefore
    <3>. QED BY <2>4, <3>2, <3>3, <3>4
  <2>. QED BY <2>3, <2>4
<1>8. CASE FinishServer
  <2>1. pc = "add"
    BY <1>8 DEF FinishServer
  <2>2. /\ Len(Blocks) \in Nat /\ Len(Blocks) > 1 /\ Len(Blocks') = Len(Blocks) - 1
        /\ Len(Blocks[1]) = 0
        /\ \A j \in 1..(Len(Blocks) - 1) : Blocks'[j] = Blocks[j + 1]
    BY <1>8, Shifted
  <2>3. k \in 1..(Len(Blocks) - 1) /\ k + 1 \in 1..Len(Blocks) /\ Blocks'[k] = Blocks[k + 1]
    BY <2>2
  <2>4. HasPlace(k + 1, p) \/ RefusedBefore(Blocks, k + 1, p)
    BY <1>1, <2>1, <2>3
  <2>5. HasPlace(k + 1, p) => HasPlace(k, p)'
    BY <1>8, <2>3, PlaceShifted
  <2>6. RefusedBefore(Blocks, k + 1, p) => RefusedBefore(Blocks', k, p)
    <3>. SUFFICES ASSUME NEW j \in 1..Len(Blocks), NEW q \in 1..Len(Blocks[j]),
                         j < k + 1 \/ (j = k + 1 /\ q < p), Refused(Blocks[j][q])
                  PROVE  RefusedBefore(Blocks', k, p)
      BY DEF RefusedBefore
    <3>1. j # 1 /\ j - 1 \in 1..(Len(Blocks) - 1) /\ (j - 1) + 1 = j
      BY <2>2
    <3>2. Blocks'[j - 1] = Blocks[j] /\ j - 1 \in 1..Len(Blocks')
      BY <2>2, <3>1
    <3>3. j - 1 < k \/ (j - 1 = k /\ q < p)
      BY <2>3, <3>1
    <3>. QED BY <3>2, <3>3 DEF RefusedBefore
  <2>. QED BY <2>4, <2>5, <2>6
<1>9. CASE Finish \/ StartServer \/ EnterLoop
  <2>1. pc' \in {"accepted", "failed", "unable", "serving", "stopped"}
    BY <1>9 DEF Finish, StartServer, Starting, EnterLoop
  <2>. QED BY <2>1 DEF Reader
<1>. QED BY <1>2, <1>3, <1>4, <1>5, <1>6, <1>7, <1>8, <1>9
         DEF Next, GetLabels, Terminated

(* The end of the process by a crash: at the end of the file behind a header, or for a
   first label that nothing excuses. *)
LEMMA CrashesAsKnownStep ==
  ASSUME TypeInv, LinesOfFile, Crashes, CrashesAsKnown, [Next]_vars
  PROVE  CrashesAsKnown'
<1>0. file' = file
  BY DEF Next, GetLabels, SkipComment, OpenServer, OpenLocation, ServerLine, CloseServer,
         LocationLine, CloseLocation, EndOfFile, AddLabel, FinishServer, Finish,
         StartServer, EnterLoop, Terminated, vars
<1>. DEFINE Known == \/ file # <<>> /\ (Last(file) = Server \/ IsLocation(Last(file)))
                     \/ \E i \in 1..Len(file) : Homeless(i)
<1>1. CrashesAsKnown <=> (pc = "crashed" => Known)
  BY DEF CrashesAsKnown, Homeless
<1>2. CrashesAsKnown' <=> (pc' = "crashed" => Known)
  <2>1. CrashesAsKnown' <=>
          (pc' = "crashed" => \/ file # <<>> /\ (Last(file) = Server \/ IsLocation(Last(file)))
                              \/ \E i \in 1..Len(file) : Homeless(i)')
    BY <1>0 DEF CrashesAsKnown, Homeless
  <2>. QED BY <1>0, <2>1, Frozen
<1>. SUFFICES ASSUME pc' = "crashed" PROVE Known
  BY <1>2
<1>3. CASE OpenServer \/ OpenLocation
  <2>1. /\ lines # <<>> /\ lines' = SubSeq(lines, 3, Len(lines)) /\ Tail(lines) = <<>>
        /\ Head(lines) = Server \/ IsLocation(Head(lines))
    <3>1. CASE OpenServer
      <4>1. Head(lines) = Server /\ pc' \in Opened(Tail(lines), "server")
        BY <3>1 DEF OpenServer
      <4>. QED BY <3>1, <4>1, OpenedFacts DEF OpenServer, Reading
    <3>2. CASE OpenLocation
      <4>1. pc' \in Opened(Tail(lines), "location")
        BY <3>2 DEF OpenLocation
      <4>. QED BY <3>2, <4>1, OpenedFacts DEF OpenLocation, Reading
    <3>. QED BY <1>3, <3>1, <3>2
  <2>2. Seen + 1 \in 1..Len(file) /\ Seen + 1 = Len(file) /\ Head(lines) = file[Seen + 1]
    BY <1>0, <2>1, TwoLines
  <2>3. file # <<>> /\ Last(file) = Head(lines)
    BY <2>2 DEF Last, TypeInv
  <2>. QED BY <2>1, <2>3
<1>4. CASE AddLabel
  <2>1. /\ pc = "add" /\ servers # <<>> /\ servers[1] # <<>> /\ servers[1] \in Seq(Label)
        /\ servers[1][1] \in Label
    BY <1>4, AddEnds
  <2>2. servers[1][1].prefixed /\ config.locations = <<>>
    <3>1. PICK o \in Add(config, servers[1][1]) : o.end = "crashed"
      BY <1>4, AddEnds
    <3>. QED BY <2>1, <3>1, AddLocations DEF TypeInv
  <2>3. 1 \in 1..Len(Blocks) /\ Blocks[1] = servers[1] /\ 1 \in 1..Len(Blocks[1])
    <3>. DEFINE L == Seq(Label)
    <3>1. servers \in Seq(L)
      BY DEF TypeInv
    <3>2. Len(servers[1]) \in Nat \ {0}
      BY <2>1, HeadFacts
    <3>. HIDE DEF L
    <3>3. Len(servers) \in Nat \ {0}
      BY <2>1, <3>1
    <3>. QED BY <3>2, <3>3, BlocksFacts
  <2>4. ~HasPlace(1, 1)
    BY <2>2 DEF HasPlace
  <2>5. ~RefusedBefore(Blocks, 1, 1)
    BY BlocksFacts DEF RefusedBefore
  <2>. QED BY <2>1, <2>2, <2>3, <2>4, <2>5 DEF Crashes
<1>5. CASE UNCHANGED vars
  BY <1>1, <1>5 DEF vars
<1>6. CASE \/ SkipComment \/ ServerLine \/ CloseServer \/ LocationLine \/ CloseLocation
           \/ EndOfFile \/ FinishServer \/ Finish \/ StartServer \/ EnterLoop
  BY <1>6 DEF SkipComment, ServerLine, CloseServer, LocationLine, CloseLocation, EndOfFile,
              FinishServer, Finish, StartServer, Starting, EnterLoop, Reading
<1>. QED BY <1>3, <1>4, <1>5, <1>6 DEF Next, GetLabels, Terminated

------------------------------------------------------------------------------
(* Files whose settings cannot be wrong. *)

LEMMA AddHarmless ==
  ASSUME NEW c \in Configs, NEW l \in Label, HarmlessLabel(l),
         l.prefixed => c.locations # <<>>, NEW o \in Add(c, l)
  PROVE  o.end = "ok"
<1>1. \A d : \A r \in Done(d) : r.end = "ok"
  BY EndFields DEF Done
<1>2. CASE ~l.prefixed
  <2>1. o \in AddToServer(c, l.key, l.value)
    BY <1>2, Zenon DEF Add
  <2>2. CASE l.key \in {"root", "index", "upload_path"}
    <3>1. \E d : AddToServer(c, l.key, l.value) = Done(d)
      BY <2>2 DEF AddToServer
    <3>. QED BY <1>1, <2>1, <3>1
  <2>3. CASE l.key = "location"
    BY <2>1, <2>3, NewLocationSetting
  <2>4. CASE /\ l.key = "port" /\ Len(l.value) = 1 /\ HasNumber(l.value)
             /\ Rest(l.value) = <<>> /\ Number[l.value[1]] \in Ports
    <3>. DEFINE port == Number[l.value[1]]
    <3>1. AddToServer(c, l.key, l.value) = SetPort(c, l.value)
      BY <2>4 DEF AddToServer
    <3>2. l.value # <<>>
      BY <2>4 DEF HasNumber
    <3>3. SetPort(c, l.value) =
            UNION {IF x \in Ports /\ (l.value = <<>> \/ Rest(l.value) = <<>>)
                   THEN Done([c EXCEPT !.port = x]) ELSE Failed(c) : x \in {port}}
      BY <2>4, <3>2 DEF SetPort
    <3>4. SetPort(c, l.value) = Done([c EXCEPT !.port = port])
      <4>1. port \in Ports
        BY <2>4
      <4>. HIDE DEF port
      <4>. QED BY <2>4, <3>3, <4>1
    <3>. HIDE DEF port
    <3>. QED BY <1>1, <2>1, <3>1, <3>4
  <2>. QED BY <1>2, <2>2, <2>3, <2>4 DEF HarmlessLabel
<1>3. CASE l.prefixed
  <2>1. l.key \in {"root", "directory_listing", "cgi_pass"} /\ c.locations # <<>>
    BY <1>3 DEF HarmlessLabel
  <2>2. o \in AddToLocation(c, l.key, l.value)
    BY <1>3, Zenon DEF Add
  <2>3. \/ AddToLocation(c, l.key, l.value) = Done(c)
        \/ \E x : AddToLocation(c, l.key, l.value) \in {Checked(c, x), Unchecked(c, x)}
    <3>. DEFINE at == IF c.locations = <<>> THEN NewLocation(<<>>) ELSE Last(c.locations)
    <3>1. AddToLocation(c, l.key, l.value) \in
            {Done(c), Checked(c, [at EXCEPT !.root = l.value]),
             Checked(c, [at EXCEPT !.directory_listing = l.value]),
             Unchecked(c, [at EXCEPT !.cgi_pass = @ \cup ToSet(l.value)])}
      BY <2>1 DEF AddToLocation
    <3>. HIDE DEF at
    <3>. QED BY <3>1, Zenon
  <2>. QED BY <1>1, <2>1, <2>2, <2>3, NeedsOne
<1>. QED BY <1>2, <1>3

LEMMA HarmlessKept == ASSUME NEW l, HarmlessLabel(l) PROVE ~Refused(l)
BY DEF HarmlessLabel, Refused

(* The label of a line of such a file. *)
LEMMA ServerLabel ==
  ASSUME NEW i, Harmless(i), Depth(i) = 1, ~IsComment(file[i]), file[i] \notin {Open, Close}
  PROVE  HarmlessLabel(file[i]) /\ ~file[i].prefixed
BY DEF Harmless, OfServer, HarmlessLabel

LEMMA LocationLabel ==
  ASSUME NEW i, file[i] \in Label, Harmless(i), Depth(i) = 2,
         ~IsComment(file[i]), file[i] \notin {Open, Close}
  PROVE  HarmlessLabel(InLocation(file[i]))
<1>. DEFINE l == file[i]
            into == [l EXCEPT !.prefixed = TRUE]
<1>1. l.key \in {"root", "directory_listing", "cgi_pass"} /\ ~l.prefixed
  BY DEF Harmless, OfServer, OfLocation
<1>2. InLocation(l) = into
  BY <1>1, Zenon DEF InLocation, IsLocation
<1>3. \A v \in BOOLEAN : [l EXCEPT !.prefixed = v].prefixed = v
                         /\ [l EXCEPT !.prefixed = v].key = l.key
  BY DEF Label
<1>4. into.prefixed /\ into.key = l.key
  <2>1. TRUE \in BOOLEAN
    OBVIOUS
  <2>. QED BY <1>3, <2>1, Zenon
<1>. HIDE DEF into
<1>. QED BY <1>1, <1>2, <1>4 DEF HarmlessLabel

LEMMA RightFacts ==
  ASSUME NEW i, RightLine(i), ~IsComment(file[i])
  PROVE  /\ i > 1 => (file[i] = Open => IsHeader(i - 1))
         /\ file[i] = Open => i > 1
         /\ Depth(i) = 0 => file[i] \in {Server, Open}
         /\ IsHeader(i) => i < Len(file) /\ file[i + 1] = Open
<1>1. /\ Depth(i) \in 0..2
      /\ file[i] = Open <=> i > 1 /\ IsHeader(i - 1)
      /\ Depth(i) = 0 => file[i] \in {Server, Open}
      /\ IsHeader(i) => i < Len(file) /\ file[i + 1] = Open
  BY DEF RightLine
<1>. QED BY <1>1

(* The next line of a properly nested file opens a block or it does not. *)
LEMMA NextOfNested ==
  ASSUME TypeInv, LinesOfFile, Nested, AsNested, lines # <<>>,
         Head(lines) = file[Seen + 1], Seen + 1 \in 1..Len(file), ~IsComment(Head(lines))
  PROVE  /\ Head(lines) # Open
         /\ Depth(Seen + 1) = 0 => Head(lines) = Server
         /\ IsHeader(Seen + 1) => Seen + 1 < Len(file) /\ file[Seen + 2] = Open
<1>. DEFINE n == Seen
<1>1. n \in Nat /\ (n > 0 => ~IsHeader(n))
  BY SeenFacts DEF AsNested
<1>2. RightLine(n + 1) /\ ~IsComment(file[n + 1])
  BY NestedLines
<1>. HIDE DEF n
<1>. DEFINE i == n + 1
<1>3. RightLine(i) /\ ~IsComment(file[i])
  BY <1>2
<1>. HIDE DEF i
<1>4. /\ i > 1 => (file[i] = Open => IsHeader(i - 1))
      /\ file[i] = Open => i > 1
      /\ Depth(i) = 0 => file[i] \in {Server, Open}
      /\ IsHeader(i) => i < Len(file) /\ file[i + 1] = Open
  BY <1>3, RightFacts
<1>5. i = n + 1 /\ i - 1 = n /\ i + 1 = n + 2 /\ (i > 1 <=> n > 0)
  BY <1>1 DEF i
<1>6. file[i] # Open
  BY <1>1, <1>4, <1>5
<1>. QED BY <1>4, <1>5, <1>6 DEF n

LEMMA HeaderOpened ==
  ASSUME TypeInv, LinesOfFile, Nested, AsNested, lines # <<>>, file' = file,
         lines' = SubSeq(lines, 3, Len(lines)), ~IsComment(Head(lines)),
         IsHeader(Seen + 1), NEW block, NEW next \in Opened(Tail(lines), block)
  PROVE  next = block
<1>1. /\ Seen + 1 \in 1..Len(file) /\ Head(lines) = file[Seen + 1]
      /\ Tail(lines) = <<>> => Seen + 1 = Len(file)
      /\ Tail(lines) # <<>> => Tail(lines)[1] = file[Seen + 2]
  BY TwoLines
<1>2. Seen + 1 < Len(file) /\ file[Seen + 2] = Open
  BY <1>1, NextOfNested
<1>3. Tail(lines) # <<>> /\ Tail(lines)[1] = Open
  BY <1>1, <1>2, SeenFacts
<1>. QED BY <1>3 DEF Opened

(* What AcceptsHarmless says of one label. *)
Fits(k, p) ==
  HarmlessLabel(Blocks[k][p]) /\ (Blocks[k][p].prefixed => HasPlace(k, p))

(* A step that adds one label keeps all that fit. *)
LEMMA FitsKept ==
  ASSUME TypeInv, TypeInv', Kept(Blocks, Blocks'), config' = config,
         NEW k \in 1..Len(Blocks), NEW p \in 1..Len(Blocks[k]), Fits(k, p)
  PROVE  Fits(k, p)'
<1>1. Blocks'[k][p] = Blocks[k][p]
  BY DEF Kept
<1>2. HasPlace(k, p) => HasPlace(k, p)'
  BY PlaceKept
<1>. QED BY <1>1, <1>2 DEF Fits

LEMMA FitsMore ==
  ASSUME TypeInv, TypeInv', NEW l, labels' = Append(labels, l), servers' = servers,
         config' = config, \A k \in 1..Len(Blocks) : \A p \in 1..Len(Blocks[k]) : Fits(k, p),
         HarmlessLabel(l), l.prefixed => HasLocation(labels)
  PROVE  \A k \in 1..Len(Blocks') : \A p \in 1..Len(Blocks'[k]) : Fits(k, p)'
<1>. SUFFICES ASSUME NEW k \in 1..Len(Blocks'), NEW p \in 1..Len(Blocks'[k])
              PROVE  Fits(k, p)'
  OBVIOUS
<1>1. Kept(Blocks, Blocks')
  BY Labelled
<1>2. CASE k \in 1..Len(Blocks) /\ p \in 1..Len(Blocks[k])
  BY <1>1, <1>2, FitsKept
<1>3. CASE k = Len(servers) + 1 /\ p = Len(labels) + 1 /\ Blocks'[k][p] = l
  <2>1. HasLocation(labels) => HasPlace(k, p)'
    <3>. SUFFICES ASSUME NEW q \in 1..Len(labels), IsAt(labels[q]) PROVE HasPlace(k, p)'
      BY DEF HasLocation
    <3>1. q \in 1..(p - 1) /\ Blocks'[k] = labels' /\ labels'[q] = labels[q]
      BY <1>3, BlocksFacts, NextBlocks, Labelled
    <3>. QED BY <3>1 DEF HasPlace
  <2>. QED BY <1>3, <2>1 DEF Fits
<1>. QED BY <1>2, <1>3, OneMore

LEMMA AcceptsHarmlessStep ==
  ASSUME TypeInv, TypeInv', LinesOfFile, Reads, LabelsOfServer, AcceptsHarmless, [Next]_vars
  PROVE  AcceptsHarmless'
<1>0. file' = file
  BY DEF Next, GetLabels, SkipComment, OpenServer, OpenLocation, ServerLine, CloseServer,
         LocationLine, CloseLocation, EndOfFile, AddLabel, FinishServer, Finish,
         StartServer, EnterLoop, Terminated, vars
<1>. DEFINE AllFit == \A k \in 1..Len(Blocks) : \A p \in 1..Len(Blocks[k]) : Fits(k, p)
            AllFitNext == \A k \in 1..Len(Blocks') : \A p \in 1..Len(Blocks'[k]) : Fits(k, p)'
<1>. SUFFICES ASSUME HarmlessFile
              PROVE  /\ pc' \notin {"refused", "crashed"}
                     /\ AllFitNext
                     /\ pc' = "location" => HasLocation(labels')
  BY <1>0, Frozen DEF AcceptsHarmless, Fits, HasLocation
<1>1. /\ pc \notin {"refused", "crashed"}
      /\ AllFit
      /\ pc = "location" => HasLocation(labels)
      /\ Nested /\ \A i \in 1..Len(file) : Harmless(i)
  BY DEF AcceptsHarmless, Fits, HarmlessFile
<1>2. pc \in Reader => AsNested
  <2>1. ~AnyRefused(Blocks)
    BY <1>1, HarmlessKept DEF AnyRefused, Fits
  <2>. QED BY <2>1 DEF Reads
<1>. HIDE DEF AllFit, AllFitNext
<1>3. ASSUME labels' = labels, servers' = servers, config' = config PROVE AllFitNext
  <2>1. Blocks' = Blocks
    BY <1>3 DEF Blocks
  <2>2. \A k, p : Fits(k, p)' <=> Fits(k, p)
    BY <1>3, <2>1 DEF Fits, HasPlace
  <2>. QED BY <1>1, <2>1, <2>2 DEF AllFit, AllFitNext
<1>4. ASSUME lines # <<>>, lines' = Tail(lines)
      PROVE  Seen + 1 \in 1..Len(file) /\ Head(lines) = file[Seen + 1]
  BY <1>0, <1>4, OneLine
<1>5. CASE SkipComment \/ CloseLocation
  <2>1. /\ labels' = labels /\ servers' = servers /\ config' = config
        /\ pc' \in {pc, "server"}
    BY <1>5 DEF SkipComment, CloseLocation
  <2>. QED BY <1>1, <1>3, <2>1 DEF HasLocation
<1>6. CASE OpenServer
  <2>1. /\ pc = "top" /\ lines # <<>> /\ lines' = SubSeq(lines, 3, Len(lines))
        /\ ~IsComment(Head(lines))
        /\ pc' \in IF Head(lines) = Server THEN Opened(Tail(lines), "server") ELSE {"refused"}
        /\ labels' = labels /\ servers' = servers /\ config' = config
    BY <1>6 DEF OpenServer, Reading
  <2>2. AsNested /\ Depth(Seen + 1) = 0
    BY <1>2, <2>1, Levels DEF AsNested, Reader
  <2>3. Seen + 1 \in 1..Len(file) /\ Head(lines) = file[Seen + 1]
    BY <1>0, <2>1, TwoLines
  <2>4. Head(lines) = Server
    BY <1>1, <2>1, <2>2, <2>3, NextOfNested
  <2>5. IsHeader(Seen + 1)
    BY <2>2, <2>3, <2>4, Headers
  <2>6. pc' \in Opened(Tail(lines), "server")
    BY <2>1, <2>4
  <2>7. pc' = "server"
    BY <1>0, <1>1, <2>1, <2>2, <2>5, <2>6, HeaderOpened
  <2>. QED BY <1>3, <2>1, <2>7
<1>7. CASE OpenLocation
  <2>. DEFINE l == Head(lines)
  <2>1. /\ pc = "server" /\ lines # <<>> /\ lines' = SubSeq(lines, 3, Len(lines))
        /\ IsLocation(l) /\ pc' \in Opened(Tail(lines), "location")
        /\ labels' = Append(labels, l) /\ servers' = servers /\ config' = config
    BY <1>7 DEF OpenLocation, Reading
  <2>2. AsNested /\ Depth(Seen + 1) = 1
    BY <1>2, <2>1, Levels DEF AsNested, Reader
  <2>3. Seen + 1 \in 1..Len(file) /\ l = file[Seen + 1]
    BY <1>0, <2>1, TwoLines
  <2>4. IsHeader(Seen + 1) /\ ~IsComment(l)
    BY <2>1, <2>2, <2>3, Headers
  <2>5. pc' = "location"
    BY <1>0, <1>1, <2>1, <2>2, <2>4, HeaderOpened
  <2>6. HarmlessLabel(l) /\ ~l.prefixed
    <3>1. l # Open /\ l # Close
      BY <2>1, Kinds
    <3>. QED BY <1>1, <2>2, <2>3, <2>4, <3>1, ServerLabel
  <2>7. IsAt(l)
    BY <2>1, <2>6 DEF IsLocation, IsAt
  <2>8. HasLocation(labels')
    BY <2>1, <2>7, HasLocationFacts
  <2>9. AllFitNext
    <3>. HIDE DEF l
    <3>. QED BY <1>1, <2>1, <2>6, FitsMore DEF AllFit, AllFitNext
  <2>. QED BY <2>5, <2>8, <2>9
<1>8. CASE ServerLine
  <2>. DEFINE l == Head(lines)
  <2>1. /\ pc = "server" /\ pc' = pc /\ lines # <<>> /\ lines' = Tail(lines)
        /\ ~IsComment(l) /\ l # Close
        /\ labels' = Append(labels, l) /\ servers' = servers /\ config' = config
    BY <1>8 DEF ServerLine, Reading
  <2>2. AsNested /\ Depth(Seen + 1) = 1
    BY <1>2, <2>1, Levels DEF AsNested, Reader
  <2>3. l # Open
    BY <1>1, <1>4, <2>1, <2>2, NextOfNested
  <2>4. HarmlessLabel(l) /\ ~l.prefixed
    BY <1>1, <1>4, <2>1, <2>2, <2>3, ServerLabel
  <2>5. AllFitNext
    <3>. HIDE DEF l
    <3>. QED BY <1>1, <2>1, <2>4, FitsMore DEF AllFit, AllFitNext
  <2>. QED BY <2>1, <2>5
<1>9. CASE CloseServer
  <2>1. pc' = "top" /\ servers' = Blocks /\ labels' = <<>> /\ config' = config
    BY <1>9 DEF CloseServer, Blocks
  <2>2. Kept(Blocks, Blocks')
    BY <1>9, Closed
  <2>3. ASSUME NEW k \in 1..Len(Blocks'), NEW p \in 1..Len(Blocks'[k]) PROVE Fits(k, p)'
    <3>1. k \in 1..Len(Blocks) /\ Blocks'[k] = Blocks[k]
      BY <2>1, EmptyAtEnd
    <3>2. Fits(k, p)
      BY <1>1, <3>1 DEF AllFit
    <3>. QED BY <2>1, <2>2, <3>1, <3>2, FitsKept
  <2>. QED BY <2>1, <2>3 DEF AllFitNext
<1>10. CASE LocationLine
  <2>. DEFINE l == Head(lines)
              into == InLocation(l)
  <2>1. /\ pc = "location" /\ pc' = pc /\ lines # <<>> /\ lines' = Tail(lines)
        /\ ~IsComment(l) /\ l # Close /\ l \in Label
        /\ labels' = Append(labels, into) /\ servers' = servers /\ config' = config
    BY <1>10, HeadFacts DEF LocationLine, Reading, TypeInv
  <2>2. AsNested /\ Depth(Seen + 1) = 2
    BY <1>2, <2>1, Levels DEF AsNested, Reader
  <2>3. l # Open
    BY <1>1, <1>4, <2>1, <2>2, NextOfNested
  <2>4. HarmlessLabel(into)
    BY <1>1, <1>4, <2>1, <2>2, <2>3, LocationLabel
  <2>5. HasLocation(labels)
    BY <1>1, <2>1
  <2>. HIDE DEF into
  <2>6. HasLocation(labels')
    BY <2>1, <2>5, HasLocationFacts
  <2>7. AllFitNext
    BY <1>1, <2>1, <2>4, <2>5, FitsMore DEF AllFit, AllFitNext
  <2>. QED BY <2>1, <2>6, <2>7
<1>11. CASE EndOfFile
  <2>1. /\ pc \in Reader /\ lines = <<>>
        /\ pc' = IF pc = "top" THEN "add" ELSE "refused"
        /\ labels' = labels /\ servers' = servers /\ config' = config
    BY <1>11 DEF EndOfFile, Reader
  <2>2. Seen = Len(file)
    BY <2>1 DEF Seen, TypeInv
  <2>3. Level[pc] = 0
    BY <1>1, <1>2, <2>1, <2>2, NestedLines DEF AsNested
  <2>4. pc = "top"
    BY <2>1, <2>3, Levels DEF Reader
  <2>. QED BY <1>3, <2>1, <2>4
<1>12. CASE AddLabel
  <2>1. /\ pc = "add" /\ pc' \in {"add", "refused", "crashed"}
        /\ servers # <<>> /\ servers[1] # <<>> /\ servers[1] \in Seq(Label)
        /\ servers[1][1] \in Label
    BY <1>12, AddEnds
  <2>2. PICK o \in Add(config, servers[1][1]) : pc' = "add" <=> o.end = "ok"
    BY <1>12, AddEnds
  <2>3. 1 \in 1..Len(Blocks) /\ Blocks[1] = servers[1] /\ 1 \in 1..Len(Blocks[1])
    <3>. DEFINE L == Seq(Label)
    <3>1. servers \in Seq(L)
      BY DEF TypeInv
    <3>2. Len(servers[1]) \in Nat \ {0}
      BY <2>1, HeadFacts
    <3>. HIDE DEF L
    <3>3. Len(servers) \in Nat \ {0}
      BY <2>1, <3>1
    <3>. QED BY <3>2, <3>3, BlocksFacts
  <2>4. Fits(1, 1)
    BY <1>1, <2>3 DEF AllFit
  <2>5. HarmlessLabel(servers[1][1]) /\ (servers[1][1].prefixed => config.locations # <<>>)
    BY <2>3, <2>4 DEF Fits, HasPlace
  <2>6. pc' = "add"
    <3>1. o.end = "ok"
      BY <2>1, <2>2, <2>5, AddHarmless DEF TypeInv
    <3>. QED BY <2>2, <3>1
  <2>7. /\ Len(Blocks) \in Nat /\ Len(Blocks') = Len(Blocks) /\ Len(Blocks[1]) \in Nat
        /\ Len(Blocks'[1]) = Len(Blocks[1]) - 1
        /\ \A q \in 1..(Len(Blocks[1]) - 1) : Blocks'[1][q] = Blocks[1][q + 1]
        /\ \A j \in 2..Len(Blocks) : Blocks'[j] = Blocks[j]
    BY <1>12, <2>6, Popped
  <2>8. ASSUME NEW k \in 1..Len(Blocks'), NEW p \in 1..Len(Blocks'[k]) PROVE Fits(k, p)'
    <3>1. CASE k # 1
      <4>1. k \in 2..Len(Blocks) /\ k \in 1..Len(Blocks) /\ Blocks'[k] = Blocks[k]
        BY <2>7, <3>1
      <4>2. Fits(k, p)
        BY <1>1, <4>1 DEF AllFit
      <4>3. HasPlace(k, p) => HasPlace(k, p)'
        BY <1>12, <2>6, <4>1, PlacePopped
      <4>. QED BY <4>1, <4>2, <4>3 DEF Fits
    <3>2. CASE k = 1
      <4>1. p \in 1..(Len(Blocks[1]) - 1) /\ p + 1 \in 1..Len(Blocks[1])
            /\ Blocks'[1][p] = Blocks[1][p + 1]
        BY <2>7, <3>2
      <4>2. Fits(1, p + 1)
        BY <1>1, <2>3, <4>1 DEF AllFit
      <4>3. HasPlace(1, p + 1) => HasPlace(1, p)'
        BY <1>12, <2>6, <4>1, PlacePopped
      <4>. QED BY <3>2, <4>1, <4>2, <4>3 DEF Fits
    <3>. QED BY <3>1, <3>2
  <2>. QED BY <2>6, <2>8 DEF AllFitNext
<1>13. CASE FinishServer
  <2>1. pc' = pc /\ pc = "add"
    BY <1>13 DEF FinishServer
  <2>2. /\ Len(Blocks) \in Nat /\ Len(Blocks') = Len(Blocks) - 1
        /\ \A j \in 1..(Len(Blocks) - 1) : Blocks'[j] = Blocks[j + 1]
    BY <1>13, Shifted
  <2>3. ASSUME NEW k \in 1..Len(Blocks'), NEW p \in 1..Len(Blocks'[k]) PROVE Fits(k, p)'
    <3>1. k \in 1..(Len(Blocks) - 1) /\ k + 1 \in 1..Len(Blocks) /\ Blocks'[k] = Blocks[k + 1]
      BY <2>2
    <3>2. Fits(k + 1, p)
      BY <1>1, <3>1 DEF AllFit
    <3>3. HasPlace(k + 1, p) => HasPlace(k, p)'
      BY <1>13, <3>1, PlaceShifted
    <3>. QED BY <3>1, <3>2, <3>3 DEF Fits
  <2>. QED BY <2>1, <2>3 DEF AllFitNext
<1>14. CASE Finish \/ StartServer \/ EnterLoop
  <2>1. /\ pc' \in {"accepted", "failed", "unable", "serving", "stopped"}
        /\ labels' = labels /\ servers' = servers /\ config' = config
    BY <1>14 DEF Finish, StartServer, Starting, EnterLoop
  <2>. QED BY <1>3, <2>1
<1>15. CASE UNCHANGED vars
  BY <1>1, <1>3, <1>15 DEF vars
<1>. QED BY <1>5, <1>6, <1>7, <1>8, <1>9, <1>10, <1>11, <1>12, <1>13, <1>14, <1>15
         DEF Next, GetLabels, Terminated

------------------------------------------------------------------------------
(* The invariant, and what it shows. *)

LEMMA Initially == ASSUME Init PROVE IInv
<1>1. /\ lines = file /\ pc = "top" /\ labels = <<>> /\ servers = <<>>
      /\ config = NewConfig /\ data = <<>> /\ ports = <<>>
  BY DEF Init
<1>2. TypeInv /\ file \in Seq(Label)
  BY TypeInit DEF TypeInv
<1>3. Len(file) \in Nat
  BY <1>2
<1>4. Seen = 0
  BY <1>1, <1>3 DEF Seen
<1>5. LinesOfFile
  BY <1>1, <1>3, <1>4 DEF LinesOfFile
<1>6. Len(labels) = 0 /\ Len(servers) = 0 /\ Len(data) = 0 /\ Len(ports) = 0
  BY <1>1
<1>7. Len(Blocks) = 1 /\ \A k \in 1..Len(Blocks) : Len(Blocks[k]) = 0
  <2>1. Len(Blocks) = 1 /\ Blocks[1] = labels
    BY <1>2, <1>6, BlocksFacts
  <2>. QED BY <1>6, <2>1
<1>8. AsNested
  <2>1. Depth(0 + 1) = 0 /\ ServerOf(0) = 0
    BY DepthFacts
  <2>. QED BY <1>1, <1>4, <1>6, <2>1, Levels DEF AsNested, InServer
<1>9. Reads /\ LabelsOfServer /\ Parses
  BY <1>1, <1>8 DEF Reads, LabelsOfServer, Parses, Added
<1>10. Crashes /\ CrashesAsKnown
  BY <1>1, <1>7 DEF Crashes, CrashesAsKnown
<1>11. OnlyComments /\ Listens
  <2>1. OnlyComments
    BY <1>1, <1>4 DEF OnlyComments
  <2>2. Listens
    BY <1>1, <1>6 DEF Listens
  <2>. QED BY <2>1, <2>2
<1>12. AcceptsHarmless
  BY <1>1, <1>7 DEF AcceptsHarmless
<1>. QED BY <1>2, <1>5, <1>9, <1>10, <1>11, <1>12 DEF IInv

LEMMA Inductive == ASSUME IInv, [Next]_vars PROVE IInv'
<1>1. TypeInv'
  BY TypeStep DEF IInv
<1>2. LinesOfFile'
  BY LinesStep DEF IInv
<1>3. Reads'
  BY <1>1, ReadsStep DEF IInv
<1>4. LabelsOfServer'
  BY <1>1, LabelsStep DEF IInv
<1>5. Parses'
  BY <1>1, ParsesStep DEF IInv
<1>6. Crashes'
  BY <1>1, CrashesStep DEF IInv
<1>7. CrashesAsKnown'
  BY CrashesAsKnownStep DEF IInv
<1>8. OnlyComments'
  BY <1>1, OnlyCommentsStep DEF IInv
<1>9. Listens'
  BY <1>1, ListensStep DEF IInv
<1>10. AcceptsHarmless'
  BY <1>1, AcceptsHarmlessStep DEF IInv
<1>. QED BY <1>1, <1>2, <1>3, <1>4, <1>5, <1>6, <1>7, <1>8, <1>9, <1>10 DEF IInv

(* Where no label is left, none has been refused. *)
LEMMA AllAdded ==
  ASSUME IInv, pc \in Added \ {"add"}
  PROVE  /\ Nested /\ ServerOf(Len(file)) = Len(data)
         /\ Seen = Len(file) /\ servers = <<>>
<1>1. /\ TypeInv /\ LabelsOfServer /\ Parses
  BY DEF IInv
<1>2. servers = <<>> /\ labels = <<>> /\ lines = <<>>
  BY <1>1 DEF Parses, LabelsOfServer, Added
<1>3. Len(servers) = 0 /\ Len(labels) = 0
  BY <1>2
<1>4. ~AnyRefused(Blocks)
  <2>1. Len(Blocks) = 1 /\ Blocks[1] = labels
    BY <1>1, <1>3, BlocksFacts
  <2>2. \A k \in 1..Len(Blocks) : Len(Blocks[k]) = 0
    BY <1>3, <2>1
  <2>. QED BY <2>2 DEF AnyRefused
<1>5. Nested /\ ServerOf(Len(file)) = Len(data) + Len(servers)
  BY <1>1, <1>4 DEF Parses, Added
<1>6. Seen = Len(file) /\ Len(data) \in Nat
  BY <1>1, <1>2 DEF Seen, TypeInv
<1>. QED BY <1>2, <1>3, <1>5, <1>6

LEMMA AcceptedAsNestedOK == ASSUME IInv PROVE AcceptedAsNested
<1>1. pc = "accepted" => Nested
  BY AllAdded DEF Added
<1>2. ASSUME pc \in {"refused", "crashed"}, Nested PROVE \E i \in 1..Len(file) : ~Harmless(i)
  BY <1>2 DEF IInv, AcceptsHarmless, HarmlessFile
<1>. QED BY <1>1, <1>2 DEF AcceptedAsNested

LEMMA StartsAllOrNothingOK == ASSUME IInv PROVE StartsAllOrNothing
<1>. DEFINE servable == /\ \A k \in 1..Len(data) : data[k].port \notin Busy
                        /\ \A j, k \in 1..Len(data) : data[j].port = data[k].port => j = k
<1>1. Listens /\ OnlyComments /\ TypeInv
  BY DEF IInv
<1>2. ASSUME pc = "serving"
      PROVE  /\ Nested /\ servable
             /\ Len(ports) = Count(1, Len(file), LAMBDA l : l = Server)
  <2>1. Nested /\ ServerOf(Len(file)) = Len(data)
    BY <1>2, AllAdded DEF Added
  <2>2. /\ Len(ports) = Len(data)
        /\ \A k \in 1..Len(ports) : ports[k] = data[k].port /\ ports[k] \notin Busy
        /\ \A j, k \in 1..Len(ports) : ports[j] = ports[k] => j = k
    BY <1>1, <1>2 DEF Listens
  <2>3. servable
    BY <2>2
  <2>4. ServerOf(Len(file)) = Count(1, Len(file), LAMBDA l : l = Server)
    BY DEF ServerOf
  <2>. QED BY <2>1, <2>2, <2>3, <2>4
<1>3. ASSUME pc = "failed" PROVE ~servable
  <2>1. PICK k \in 1..Len(data) :
          data[k].port \in Busy \/ \E j \in 1..(k - 1) : data[j].port = data[k].port
    BY <1>1, <1>3 DEF Listens
  <2>2. ASSUME NEW j \in 1..(k - 1), data[j].port = data[k].port PROVE ~servable
    <3>1. j \in 1..Len(data) /\ j # k
      BY <1>1, <2>2 DEF TypeInv
    <3>. QED BY <2>2, <3>1
  <2>. QED BY <2>1, <2>2
<1>4. ASSUME pc = "stopped" PROVE \A i \in 1..Len(file) : IsComment(file[i])
  <2>1. Seen = Len(file) /\ servers = <<>>
    BY <1>4, AllAdded DEF Added
  <2>. QED BY <1>1, <1>4, <2>1 DEF OnlyComments
<1>. HIDE DEF servable
<1>. QED BY <1>2, <1>3, <1>4, Zenon DEF StartsAllOrNothing, servable

(* The invariant of parseConfig and of the start of the servers: the reader is in the block
   that counting braces tells, or a label is left that add refuses. *)
THEOREM Invariance == Spec => []IInv
<1>1. Init => IInv
  BY Initially
<1>2. IInv /\ [Next]_vars => IInv'
  BY Inductive
<1>. QED BY <1>1, <1>2, PTL DEF Spec

(* parseConfig leaves every Config within its ranges, whatever the file says: the port is
   not one of the system, the size fits a size_t, pages are for errors, methods are those
   of HTTP; and the lists of lines and labels are what the reader takes them for. *)
THEOREM TypeCorrect == Spec => []TypeOK
<1>1. IInv => TypeOK
  BY TypeInvOK DEF IInv
<1>. QED BY <1>1, Invariance, PTL

(* _getLabels and add accept no file whose blocks are not properly nested, and refuse a
   properly nested one only for a setting that can be refused. *)
THEOREM AcceptsExactlyNested == Spec => []AcceptedAsNested
<1>1. IInv => AcceptedAsNested
  BY AcceptedAsNestedOK
<1>. QED BY <1>1, Invariance, PTL

(* The only crashes of parseConfig are those of a file that ends behind a header, and of a
   setting with location_ in front in a server without a location. *)
THEOREM CrashesOnlyAsKnown == Spec => []CrashesAsKnown
<1>1. IInv => CrashesAsKnown
  BY DEF IInv
<1>. QED BY <1>1, Invariance, PTL

(* The loop is entered with one listening socket for each server of the file, on ports
   that differ and are free, or not at all. *)
THEOREM StartsAll == Spec => []StartsAllOrNothing
<1>1. IInv => StartsAllOrNothing
  BY StartsAllOrNothingOK
<1>. QED BY <1>1, Invariance, PTL
==============================================================================
