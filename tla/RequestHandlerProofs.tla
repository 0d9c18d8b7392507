------------------------- MODULE RequestHandlerProofs -------------------------
(***************************************************************************)
(* Proofs about RequestHandler for every configuration, every set of       *)
(* browsers, keys, values and files, and every request.                    *)
(***************************************************************************)
EXTENDS RequestHandler, Recursion, FiniteSetTheorems

------------------------------------------------------------------------------
(* The inductive invariant: a cookie that is a key was generated, and stands in the
   store for what the browser was given it for. *)

KeysAreUsed == \A u \in Users : \A n \in Names : jar[u][n] \in Keys => jar[u][n] \in used

StoreHasMeaning ==
  \A u \in Users : \A n \in Names : jar[u][n] \in Keys => db[n][jar[u][n]] = meant[u][n]

MeaningHasKey == \A u \in Users : \A n \in Names : meant[u][n] # None => jar[u][n] \in Keys

IInv == TypeOK /\ KeysAreUsed /\ StoreHasMeaning /\ MeaningHasKey

------------------------------------------------------------------------------
(* The configuration and the requests. *)

LEMMA LocationFacts ==
  ASSUME NEW i \in 1..Len(Locations)
  PROVE  /\ Locations[i].required \subseteq Names
         /\ Locations[i].set \in Seq(Cookies)
         /\ Len(Locations[i].set) \in Nat
         /\ \A j \in 1..Len(Locations[i].set) : Locations[i].set[j] \in Cookies
<1>1. Locations[i] \in LocationRecords
  BY LocationsAssumption
<1>2. Locations[i].required \subseteq Names /\ Locations[i].set \in Seq(Cookies)
  BY <1>1 DEF LocationRecords
<1>. QED BY <1>2

LEMMA LocationsLength == Len(Locations) \in Nat
BY LocationsAssumption

LEMMA CookieFacts ==
  ASSUME NEW c \in Cookies
  PROVE  /\ c.name \in Names /\ c.session \in BOOLEAN
         /\ ~c.session => c.value \in Values \ Keys
BY DEF Cookies

LEMMA RequestFacts ==
  ASSUME NEW q \in Requests
  PROVE  /\ q.path \in Files \cup Dirs /\ q.error \in {0, 413, 501} /\ q.size \in Nat
         /\ \A n \in Names : q.params[n] \in Values \cup {None, "bare"}
         /\ q.parts \in Seq(Parts)
BY RequestsAssumption DEF RequestRecords, Paths

LEMMA RequiredFacts ==
  ASSUME NEW path
  PROVE  /\ Required(path) \subseteq Names
         /\ \A i \in 1..Len(Locations) :
              path \in Locations[i].covers => Locations[i].required \subseteq Required(path)
         /\ \A n \in Required(path) : \E i \in 1..Len(Locations) :
              path \in Locations[i].covers /\ n \in Locations[i].required
<1>1. \A n : n \in Required(path) <=> \E i \in 1..Len(Locations) :
              path \in Locations[i].covers /\ n \in Locations[i].required
  BY DEF Required, GetLocations
<1>2. \A i \in 1..Len(Locations) : Locations[i].required \subseteq Names
  BY LocationFacts
<1>. HIDE DEF Required
<1>. QED BY <1>1, <1>2

LEMMA KeyFacts ==
  ASSUME NEW q \in Requests, NEW keys \in KeysFor(q), NEW i \in 1..Len(Locations),
         q.path \in Locations[i].covers,
         NEW j \in 1..Len(Locations[i].set), Locations[i].set[j].session
  PROVE  keys[i, j] \in Keys /\ keys[i, j] \notin used
<1>1. keys \in [Sessions(q.path) -> GenerateSession]
  BY DEF KeysFor
<1>2. i \in GetLocations(q.path)
  BY DEF GetLocations
<1>3. <<i, j>> \in {<<i, p>> : p \in {c \in 1..Len(Locations[i].set) : Locations[i].set[c].session}}
  OBVIOUS
<1>4. <<i, j>> \in Sessions(q.path)
  BY <1>2, <1>3 DEF Sessions
<1>. QED BY <1>1, <1>4 DEF GenerateSession

------------------------------------------------------------------------------
(* handleCookies. *)

(* The session that the cookie a browser sends under a name stands for. *)
Session(u, n) == Get(db, n, ValueCookie(u, n))

LEMMA SessionFacts ==
  ASSUME IInv, NEW u \in Users, NEW n \in Names
  PROVE  /\ Session(u, n) # None => Session(u, n) = meant[u][n] /\ Session(u, n) \in Values
         /\ Session(u, n) = None =>
              \/ meant[u][n] = None
              \/ \E m \in Names \ {n} : jar[u][m] # None /\ jar[u][n] # None
         /\ ValueCookie(u, n) \in Keys => ValueCookie(u, n) \in used
<1>1. /\ jar[u][n] \in Keys => jar[u][n] \in used /\ db[n][jar[u][n]] = meant[u][n]
      /\ meant[u][n] # None => jar[u][n] \in Keys
      /\ meant[u][n] \in Values \cup {None}
  BY DEF IInv, KeysAreUsed, StoreHasMeaning, MeaningHasKey, TypeOK
<1>2. None \notin Keys
  BY NoneAssumption
<1>. QED BY <1>1, <1>2 DEF Session, Get, ValueCookie

(* What handleCookies has done for a browser's request after any of its steps: the
   sessions that were there are there, what is shown is this browser's, and the cookie
   to be sent stands for what it is said to mean. *)
Accounts ==
  [store : [Names -> [Keys -> Values \cup {None}]], made : SUBSET Keys,
   shown : SUBSET (Names \X Values), cookie : {None} \cup (Names \X (Keys \cup Values)),
   meaning : Values \cup {None}, end : {"no", "forbidden", "thrown"}]

KeepsSessions(a) == \A n \in Names : \A k \in used : a.store[n][k] = db[n][k]

ShowsOwn(u, a) == \A s \in a.shown : meant[u][s[1]] = s[2]

SendsKey(a) ==
  a.cookie # None =>
    IF a.cookie[2] \in Keys
    THEN a.cookie[2] \in a.made /\ a.store[a.cookie[1]][a.cookie[2]] = a.meaning
    ELSE a.meaning = None

RefusesRightly(u, q, a) ==
  a.end = "forbidden" => \E n \in Required(q.path) : Session(u, n) = None

Good(u, q) ==
  {a \in Accounts : KeepsSessions(a) /\ ShowsOwn(u, a) /\ SendsKey(a) /\ RefusesRightly(u, q, a)}

LEMMA StartIsGood ==
  ASSUME IInv, NEW u \in Users, NEW q \in Requests
  PROVE  Start \in Good(u, q)
<1>1. Start \in Accounts
  BY DEF Start, Accounts, IInv, TypeOK
<1>. QED BY <1>1 DEF Start, Good, KeepsSessions, ShowsOwn, SendsKey, RefusesRightly

LEMMA SetCookieIsGood ==
  ASSUME IInv, NEW u \in Users, NEW q \in Requests, NEW keys \in KeysFor(q),
         NEW i \in 1..Len(Locations), q.path \in Locations[i].covers,
         NEW j \in 1..Len(Locations[i].set), NEW a \in Good(u, q)
  PROVE  SetCookie(a, q, i, j, keys) \in Good(u, q)
<1>. DEFINE cookie == Locations[i].set[j]
            value == q.params[cookie.name]
            key == keys[i, j]
            result == SetCookie(a, q, i, j, keys)
<1>1. cookie \in Cookies /\ cookie.name \in Names /\ cookie.session \in BOOLEAN
  BY LocationFacts, CookieFacts
<1>2. /\ a \in Accounts /\ KeepsSessions(a) /\ ShowsOwn(u, a) /\ SendsKey(a)
      /\ RefusesRightly(u, q, a)
  BY DEF Good
<1>3. value \in Values \cup {None, "bare"}
  BY <1>1, RequestFacts
<1>4. \/ result = a
      \/ /\ ~cookie.session /\ a.end = "no"
         /\ result = [a EXCEPT !.cookie = <<cookie.name, cookie.value>>, !.meaning = None]
      \/ a.end = "no" /\ result = [a EXCEPT !.end = "thrown"]
      \/ /\ cookie.session /\ value \in Values /\ a.end = "no"
         /\ result = [a EXCEPT !.store = Set(@, cookie.name, key, value),
                               !.made = @ \cup {key},
                               !.cookie = <<cookie.name, key>>,
                               !.meaning = value]
  <2>1. result = CASE a.end # "no" -> a
                   [] a.end = "no" /\ ~cookie.session ->
                        [a EXCEPT !.cookie = <<cookie.name, cookie.value>>, !.meaning = None]
                   [] a.end = "no" /\ cookie.session /\ value = "bare" ->
                        [a EXCEPT !.end = "thrown"]
                   [] a.end = "no" /\ cookie.session /\ value = None -> a
                   [] OTHER -> [a EXCEPT !.store = Set(@, cookie.name, key, value),
                                         !.made = @ \cup {key},
                                         !.cookie = <<cookie.name, key>>,
                                         !.meaning = value]
    BY DEF SetCookie
  <2>. HIDE DEF result, cookie, value, key
  <2>. QED BY <1>3, <2>1
<1>. HIDE DEF result
<1>5. CASE result = a
  BY <1>5 DEF result
<1>6. CASE /\ ~cookie.session /\ a.end = "no"
           /\ result = [a EXCEPT !.cookie = <<cookie.name, cookie.value>>, !.meaning = None]
  <2>1. cookie.value \in Values \ Keys
    BY <1>1, <1>6, CookieFacts
  <2>. HIDE DEF cookie
  <2>2. result \in Accounts
    BY <1>1, <1>2, <1>6, <2>1 DEF Accounts
  <2>3. /\ result.store = a.store /\ result.shown = a.shown /\ result.end = a.end
        /\ result.cookie = <<cookie.name, cookie.value>> /\ result.meaning = None
    BY <1>2, <1>6 DEF Accounts
  <2>4. KeepsSessions(result) /\ ShowsOwn(u, result) /\ RefusesRightly(u, q, result)
    BY <1>2, <2>3 DEF KeepsSessions, ShowsOwn, RefusesRightly
  <2>5. SendsKey(result)
    BY <2>1, <2>3 DEF SendsKey
  <2>. QED BY <2>2, <2>4, <2>5 DEF Good, result
<1>7. CASE a.end = "no" /\ result = [a EXCEPT !.end = "thrown"]
  <2>1. result \in Accounts
    BY <1>2, <1>7 DEF Accounts
  <2>2. /\ result.store = a.store /\ result.shown = a.shown /\ result.end = "thrown"
        /\ result.cookie = a.cookie /\ result.meaning = a.meaning /\ result.made = a.made
    BY <1>2, <1>7 DEF Accounts
  <2>3. /\ KeepsSessions(result) /\ ShowsOwn(u, result) /\ RefusesRightly(u, q, result)
        /\ SendsKey(result)
    BY <1>2, <2>2 DEF KeepsSessions, ShowsOwn, RefusesRightly, SendsKey
  <2>. QED BY <2>1, <2>3 DEF Good, result
<1>8. CASE /\ cookie.session /\ value \in Values /\ a.end = "no"
           /\ result = [a EXCEPT !.store = Set(@, cookie.name, key, value),
                                 !.made = @ \cup {key},
                                 !.cookie = <<cookie.name, key>>,
                                 !.meaning = value]
  <2>1. key \in Keys /\ key \notin used
    BY <1>8, KeyFacts
  <2>. DEFINE store == Set(a.store, cookie.name, key, value)
  <2>. HIDE DEF cookie, value, key
  <2>2. /\ a.store \in [Names -> [Keys -> Values \cup {None}]] /\ a.made \subseteq Keys
    BY <1>2 DEF Accounts
  <2>3. /\ store \in [Names -> [Keys -> Values \cup {None}]]
        /\ store[cookie.name][key] = value
        /\ \A n \in Names : \A k \in used \cap Keys : store[n][k] = a.store[n][k]
    BY <1>1, <1>8, <2>1, <2>2 DEF Set
  <2>. HIDE DEF store
  <2>4. result = [a EXCEPT !.store = store, !.made = a.made \cup {key},
                           !.cookie = <<cookie.name, key>>, !.meaning = value]
    BY <1>8 DEF store
  <2>5. result \in Accounts
    <3>1. a.made \cup {key} \in SUBSET Keys
      BY <2>1, <2>2
    <3>2. <<cookie.name, key>> \in {None} \cup (Names \X (Keys \cup Values))
      BY <1>1, <2>1
    <3>3. value \in Values \cup {None}
      BY <1>8
    <3>. DEFINE made == a.made \cup {key}
                sent == <<cookie.name, key>>
    <3>. HIDE DEF made, sent
    <3>4. result = [a EXCEPT !.store = store, !.made = made, !.cookie = sent,
                             !.meaning = value]
      BY <2>4 DEF made, sent
    <3>. QED BY <1>2, <2>3, <3>1, <3>2, <3>3, <3>4 DEF Accounts, made, sent
  <2>6. /\ result.store = store /\ result.shown = a.shown /\ result.end = a.end
        /\ result.cookie = <<cookie.name, key>> /\ result.meaning = value
        /\ result.made = a.made \cup {key}
    BY <1>2, <2>4 DEF Accounts
  <2>7. ShowsOwn(u, result) /\ RefusesRightly(u, q, result)
    BY <1>2, <2>6 DEF ShowsOwn, RefusesRightly
  <2>8. used \subseteq Keys
    BY DEF IInv, TypeOK
  <2>9. KeepsSessions(result)
    BY <1>2, <2>3, <2>6, <2>8 DEF KeepsSessions
  <2>10. SendsKey(result)
    BY <2>1, <2>3, <2>6 DEF SendsKey
  <2>. QED BY <2>5, <2>7, <2>9, <2>10 DEF Good, result
<1>. QED BY <1>4, <1>5, <1>6, <1>7, <1>8

LEMMA SetCookiesIsGood ==
  ASSUME IInv, NEW u \in Users, NEW q \in Requests, NEW keys \in KeysFor(q),
         NEW i \in 1..Len(Locations), q.path \in Locations[i].covers, NEW a \in Good(u, q)
  PROVE  SetCookies(a, q, i, keys) \in Good(u, q)
<1>. DEFINE n == Len(Locations[i].set)
            V == Good(u, q)
            E(v, j) == SetCookie(v, q, i, j, keys)
            After == CHOOSE f : f = [j \in 0..n |-> IF j = 0 THEN a ELSE E(f[j - 1], j)]
            k == [j \in 1..n |-> [v \in V |-> E(v, j)]]
<1>1. SetCookies(a, q, i, keys) = After[n]
  BY DEF SetCookies
<1>2. n \in Nat
  BY LocationFacts
<1>3. \A j \in 1..n : \A v \in V : E(v, j) \in V
  BY SetCookieIsGood
<1>. HIDE DEF E, V
<1>4. \A j \in 1..n : \A v \in V : k[j][v] = E(v, j)
  OBVIOUS
<1>. HIDE DEF k, n
<1>5. a \in V
  BY DEF V
<1>6. CanFold(n, V, a, k)
  BY <1>2, <1>3, <1>4, <1>5 DEF CanFold
<1>7. PICK acc \in [0..n -> V] : acc[0] = a /\ \A j \in 1..n : acc[j] = k[j][acc[j - 1]]
  BY <1>6, IterationExists
<1>8. \A j \in 1..n : j - 1 \in 0..n /\ j # 0
  BY <1>2
<1>9. acc = [j \in 0..n |-> IF j = 0 THEN a ELSE E(acc[j - 1], j)]
  <2>1. \A j \in 0..n : j = 0 \/ j \in 1..n
    BY <1>2
  <2>2. \A j \in 0..n : acc[j] = IF j = 0 THEN a ELSE E(acc[j - 1], j)
    BY <1>4, <1>7, <1>8, <2>1
  <2>. QED BY <1>7, <2>2
<1>10. After = [j \in 0..n |-> IF j = 0 THEN a ELSE E(After[j - 1], j)]
  BY <1>9
<1>. HIDE DEF After
<1>11. After[0] = a /\ \A j \in 1..n : After[j - 1] \in V => After[j] = k[j][After[j - 1]]
  <2>1. 0 \in 0..n /\ \A j \in 1..n : j \in 0..n
    BY <1>2
  <2>. QED BY <1>4, <1>8, <1>10, <2>1
<1>12. After[n] \in V
  <2>1. n \in 0..n
    BY <1>2
  <2>. QED BY <1>6, <1>11, <2>1, FoldStays
<1>. QED BY <1>1, <1>12 DEF V

(* A location that matches and lets the request pass has found all it requires. *)
LEMMA HandleLocationIsGood ==
  ASSUME IInv, NEW u \in Users, NEW q \in Requests, NEW keys \in KeysFor(q),
         NEW i \in 1..Len(Locations), NEW a \in Good(u, q)
  PROVE  LET r == HandleLocation(u, a, q, i, keys)
         IN /\ r \in Good(u, q)
            /\ r.end = "no" => a.end = "no"
            /\ r.end = "no" /\ q.path \in Locations[i].covers =>
                 \A n \in Locations[i].required : meant[u][n] # None
<1>. DEFINE required == Locations[i].required
            found(n) == Get(a.store, n, ValueCookie(u, n))
            shown == a.shown \cup {<<n, found(n)>> : n \in required}
            told == [a EXCEPT !.shown = shown]
            r == HandleLocation(u, a, q, i, keys)
<1>1. /\ a \in Accounts /\ KeepsSessions(a) /\ ShowsOwn(u, a) /\ SendsKey(a)
      /\ RefusesRightly(u, q, a)
  BY DEF Good
<1>2. required \subseteq Names
  BY LocationFacts
<1>3. \A n \in Names : found(n) = Session(u, n)
  <2>. SUFFICES ASSUME NEW n \in Names PROVE found(n) = Session(u, n)
    OBVIOUS
  <2>1. ValueCookie(u, n) \in Keys => ValueCookie(u, n) \in used
    BY SessionFacts
  <2>. QED BY <1>1, <2>1 DEF Get, Session, KeepsSessions
<1>4. r = CASE a.end # "no" \/ q.path \notin Locations[i].covers -> a
            [] /\ a.end = "no" /\ q.path \in Locations[i].covers
               /\ \E n \in required : found(n) = None -> [a EXCEPT !.end = "forbidden"]
            [] OTHER -> SetCookies(told, q, i, keys)
  BY DEF HandleLocation
<1>. HIDE DEF found, r, required, told
<1>5. CASE a.end # "no" \/ q.path \notin Locations[i].covers
  BY <1>4, <1>5 DEF r
<1>6. CASE /\ a.end = "no" /\ q.path \in Locations[i].covers
           /\ \E n \in required : found(n) = None
  <2>1. r = [a EXCEPT !.end = "forbidden"]
    BY <1>4, <1>6
  <2>2. PICK n \in required : Session(u, n) = None
    BY <1>2, <1>3, <1>6
  <2>3. n \in Required(q.path)
    BY <1>6, <2>2, RequiredFacts DEF required
  <2>4. r \in Accounts
    BY <1>1, <2>1 DEF Accounts
  <2>5. /\ r.store = a.store /\ r.shown = a.shown /\ r.end = "forbidden"
        /\ r.cookie = a.cookie /\ r.meaning = a.meaning /\ r.made = a.made
    BY <1>1, <2>1 DEF Accounts
  <2>6. RefusesRightly(u, q, r)
    BY <2>2, <2>3 DEF RefusesRightly
  <2>7. KeepsSessions(r) /\ ShowsOwn(u, r) /\ SendsKey(r)
    BY <1>1, <2>5 DEF KeepsSessions, ShowsOwn, SendsKey
  <2>. QED BY <2>4, <2>5, <2>6, <2>7 DEF Good, r
<1>7. CASE /\ a.end = "no" /\ q.path \in Locations[i].covers
           /\ \A n \in required : found(n) # None
  <2>1. r = SetCookies(told, q, i, keys)
    BY <1>4, <1>7
  <2>2. \A n \in required : found(n) = meant[u][n] /\ found(n) \in Values
    BY <1>2, <1>3, <1>7, SessionFacts
  <2>3. shown \in SUBSET (Names \X Values) /\ \A s \in shown : meant[u][s[1]] = s[2]
    BY <1>1, <1>2, <2>2 DEF Accounts, ShowsOwn
  <2>. HIDE DEF shown
  <2>4. told \in Accounts
    BY <1>1, <2>3 DEF told, Accounts
  <2>5. /\ told.store = a.store /\ told.shown = shown /\ told.end = a.end
        /\ told.cookie = a.cookie /\ told.meaning = a.meaning /\ told.made = a.made
    BY <1>1 DEF told, Accounts
  <2>6. KeepsSessions(told) /\ ShowsOwn(u, told) /\ SendsKey(told) /\ RefusesRightly(u, q, told)
    BY <1>1, <2>3, <2>5 DEF KeepsSessions, ShowsOwn, SendsKey, RefusesRightly
  <2>7. told \in Good(u, q)
    BY <2>4, <2>6 DEF Good
  <2>8. r \in Good(u, q)
    BY <1>7, <2>1, <2>7, SetCookiesIsGood
  <2>9. \A n \in required : meant[u][n] # None
    BY <1>7, <2>2
  <2>. QED BY <1>7, <2>8, <2>9 DEF r, required
<1>. QED BY <1>5, <1>6, <1>7

(* handleCookies as a whole: if it returns 0, this browser was given every cookie that
   a matching location requires. *)
LEMMA HandleCookiesIsGood ==
  ASSUME IInv, NEW u \in Users, NEW q \in Requests, NEW keys \in KeysFor(q)
  PROVE  LET r == HandleCookies(u, q, keys)
         IN /\ r \in Good(u, q)
            /\ r.end = "no" => \A n \in Required(q.path) : meant[u][n] # None
<1>. DEFINE n == Len(Locations)
            V == Good(u, q)
            E(v, i) == HandleLocation(u, v, q, i, keys)
            After == CHOOSE f : f = [i \in 0..n |-> IF i = 0 THEN Start ELSE E(f[i - 1], i)]
            k == [i \in 1..n |-> [v \in V |-> E(v, i)]]
            Passed(i) == q.path \in Locations[i].covers =>
                           \A m \in Locations[i].required : meant[u][m] # None
            P == [i \in 0..n |-> {v \in V : v.end = "no" => \A j \in 1..i : Passed(j)}]
<1>1. HandleCookies(u, q, keys) = After[n]
  BY DEF HandleCookies
<1>2. n \in Nat
  BY LocationsLength
<1>3. \A i \in 1..n : \A v \in V :
        /\ E(v, i) \in V
        /\ E(v, i).end = "no" => v.end = "no" /\ Passed(i)
  BY HandleLocationIsGood
<1>4. Start \in V
  BY StartIsGood
<1>5. ASSUME \A i \in 1..n : Passed(i) PROVE \A m \in Required(q.path) : meant[u][m] # None
  BY <1>5, RequiredFacts
<1>. HIDE DEF E, V, Passed
<1>6. \A i \in 1..n : \A v \in V : k[i][v] = E(v, i)
  OBVIOUS
<1>. HIDE DEF k, n
<1>7. CanFold(n, V, Start, k)
  BY <1>2, <1>3, <1>4, <1>6 DEF CanFold
<1>8. PICK acc \in [0..n -> V] : acc[0] = Start /\ \A i \in 1..n : acc[i] = k[i][acc[i - 1]]
  BY <1>7, IterationExists
<1>9. \A i \in 1..n : i - 1 \in 0..n /\ i # 0 /\ i \in 0..n
  BY <1>2
<1>10. acc = [i \in 0..n |-> IF i = 0 THEN Start ELSE E(acc[i - 1], i)]
  <2>1. \A i \in 0..n : i = 0 \/ i \in 1..n
    BY <1>2
  <2>2. \A i \in 0..n : acc[i] = IF i = 0 THEN Start ELSE E(acc[i - 1], i)
    BY <1>6, <1>8, <1>9, <2>1
  <2>. QED BY <1>8, <2>2
<1>11. After = [i \in 0..n |-> IF i = 0 THEN Start ELSE E(After[i - 1], i)]
  BY <1>10
<1>. HIDE DEF After
<1>12. 0 \in 0..n /\ n \in 0..n
  BY <1>2
<1>13. After[0] = Start /\ \A i \in 1..n : After[i] = E(After[i - 1], i)
  BY <1>9, <1>11, <1>12
<1>14. After[0] \in P[0]
  BY <1>4, <1>12, <1>13
<1>15. ASSUME NEW i \in 1..n, After[i - 1] \in P[i - 1] PROVE After[i] \in P[i]
  <2>1. After[i - 1] \in V /\ (After[i - 1].end = "no" => \A j \in 1..(i - 1) : Passed(j))
    BY <1>9, <1>15
  <2>2. After[i] \in V /\ (After[i].end = "no" => After[i - 1].end = "no" /\ Passed(i))
    BY <1>3, <1>13, <2>1
  <2>3. \A j \in 1..i : j = i \/ j \in 1..(i - 1)
    OBVIOUS
  <2>4. After[i].end = "no" => \A j \in 1..i : Passed(j)
    BY <2>1, <2>2, <2>3
  <2>. QED BY <1>9, <2>2, <2>4
<1>. HIDE DEF P
<1>16. After[n] \in P[n]
  BY <1>2, <1>12, <1>14, <1>15, StepByStep
<1>17. After[n] \in V /\ (After[n].end = "no" => \A i \in 1..n : Passed(i))
  BY <1>12, <1>16 DEF P
<1>. QED BY <1>1, <1>5, <1>17 DEF V

------------------------------------------------------------------------------
(* What follows the cookies. *)

Disks == [Files -> Contents \cup {None}]

LEMMA StoreType ==
  ASSUME NEW b \in Disks, NEW parts \in Seq(Parts)
  PROVE  Store(b, parts) \in Disks
<1>. DEFINE n == Len(parts)
            E(f, part) == IF part.file = None THEN f
                          ELSE [f EXCEPT ![part.file] = part.content]
            iter == CHOOSE iter : iter = [t \in SUBSET DOMAIN parts |->
                      IF t = {} THEN b ELSE E(iter[t \ {Max(t)}], parts[Max(t)])]
            k == [i \in 1..n |-> [f \in Disks |-> E(f, parts[i])]]
<1>1. Store(b, parts) = iter[DOMAIN parts]
  BY DEF Store, FoldLeft, MapThenFoldSet
<1>2. n \in Nat /\ DOMAIN parts = 1..n /\ \A i \in 1..n : parts[i] \in Parts
  OBVIOUS
<1>3. \A f \in Disks : \A part \in Parts : E(f, part) \in Disks
  BY DEF Disks, Parts
<1>. HIDE DEF E
<1>4. \A i \in 1..n : \A f \in Disks : k[i][f] = E(f, parts[i])
  OBVIOUS
<1>. HIDE DEF k, n
<1>5. CanFold(n, Disks, b, k)
  BY <1>2, <1>3, <1>4 DEF CanFold
<1>6. \A t \in SUBSET (1..n) : t # {} => Max(t) \in 1..n
  BY <1>2, MaxFacts
<1>7. PICK f : IsFold(f, n, Disks, b, k)
  BY <1>5, FoldExists
<1>8. \A t \in SUBSET (1..n) :
        f[t] = IF t = {} THEN b ELSE E(f[t \ {Max(t)}], parts[Max(t)])
  BY <1>4, <1>6, <1>7 DEF IsFold
<1>9. f = [t \in SUBSET DOMAIN parts |->
             IF t = {} THEN b ELSE E(f[t \ {Max(t)}], parts[Max(t)])]
  BY <1>2, <1>7, <1>8 DEF IsFold
<1>10. iter = [t \in SUBSET DOMAIN parts |->
                 IF t = {} THEN b ELSE E(iter[t \ {Max(t)}], parts[Max(t)])]
  BY <1>9
<1>. HIDE DEF iter
<1>11. ObeysFold(iter, n, Disks, b, k)
  BY <1>2, <1>4, <1>6, <1>10 DEF ObeysFold
<1>12. iter[1..n] \in Disks
  BY <1>2, <1>5, <1>11, FoldResult
<1>. QED BY <1>1, <1>2, <1>12

LEMMA RespondFacts ==
  ASSUME disk \in Disks, NEW q \in Requests, NEW r \in Respond(q)
  PROVE  /\ r.status \in {Thrown, 200, 303, 404, 413, 500}
         /\ r.files \in Disks
         /\ r.status >= 400 => r.files = disk
<1>1. \/ r.status \in {200, 303, 404, 413} /\ r.files = disk
      \/ r.status \in {Thrown, 303} /\ r.files = Store(disk, q.parts)
      \/ q.path \notin Dirs /\ r \in FileOutcomes(q)
  BY DEF Respond, DirectoryStatus
<1>2. CASE r.status \in {200, 303, 404, 413} /\ r.files = disk
  BY <1>2
<1>3. CASE r.status \in {Thrown, 303} /\ r.files = Store(disk, q.parts)
  <2>1. r.files \in Disks
    BY <1>3, RequestFacts, StoreType
  <2>. QED BY <1>3, <2>1 DEF Thrown
<1>4. CASE q.path \notin Dirs /\ r \in FileOutcomes(q)
  <2>1. q.path \in Files
    BY <1>4, RequestFacts
  <2>2. [disk EXCEPT ![q.path] = None] \in Disks
    BY <2>1 DEF Disks
  <2>3. \/ r.status \in {200, 500} /\ r.files = disk
        \/ r.status = 200 /\ r.files = [disk EXCEPT ![q.path] = None]
    BY <1>4 DEF FileOutcomes
  <2>. QED BY <2>2, <2>3
<1>. QED BY <1>1, <1>2, <1>3, <1>4

LEMMA OutcomeFacts ==
  ASSUME disk \in Disks, NEW q \in Requests, NEW acc \in Accounts, NEW r \in Outcomes(q, acc)
  PROVE  /\ r.status \in Statuses \cup {Thrown}
         /\ r.files \in Disks
         /\ r.status >= 400 => r.files = disk
         /\ r.status = 403 <=> acc.end = "forbidden"
         /\ r.status \notin {403, Thrown} => acc.end = "no"
<1>1. acc.end \in {"no", "forbidden", "thrown"}
  BY DEF Accounts
<1>2. CASE acc.end = "no"
  <2>1. r \in Respond(q)
    BY <1>2 DEF Outcomes
  <2>. QED BY <1>2, <2>1, RespondFacts DEF Statuses, Thrown
<1>3. CASE acc.end # "no"
  BY <1>1, <1>3 DEF Outcomes, Statuses, Thrown
<1>. QED BY <1>2, <1>3

------------------------------------------------------------------------------
(* The invariant. *)

LEMMA InitInvariant == Init => IInv
<1>. SUFFICES ASSUME Init PROVE IInv
  OBVIOUS
<1>1. TypeOK
  BY DEF Init, TypeOK, NoSessions, Nothing
<1>2. \A u \in Users : \A n \in Names : jar[u][n] = None /\ meant[u][n] = None
  BY DEF Init, Nothing
<1>3. None \notin Keys
  BY NoneAssumption
<1>. QED BY <1>1, <1>2, <1>3 DEF IInv, KeysAreUsed, StoreHasMeaning, MeaningHasKey

LEMMA RefuseInvariant ==
  ASSUME IInv, NEW u \in Users, NEW q \in Requests, Refuse(u, q)
  PROVE  IInv'
<1>1. /\ up' = up /\ disk' = disk /\ db' = db /\ used' = used /\ jar' = jar /\ meant' = meant
      /\ last' = [user |-> u, request |-> q, shown |-> {},
                  status |-> IF q.error # 0 THEN q.error ELSE 405]
  BY DEF Refuse
<1>2. (IF q.error # 0 THEN q.error ELSE 405) \in Statuses
  BY RequestFacts DEF Statuses
<1>3. last' \in [user : Users, request : Requests, status : Statuses,
                 shown : SUBSET (Names \X Values)]
  BY <1>1, <1>2
<1>. QED BY <1>1, <1>3 DEF IInv, TypeOK, KeysAreUsed, StoreHasMeaning, MeaningHasKey

LEMMA ForgetInvariant ==
  ASSUME IInv, NEW u \in Users, NEW n \in Names, Forget(u, n)
  PROVE  IInv'
<1>1. /\ up' = up /\ disk' = disk /\ db' = db /\ used' = used /\ last' = None
      /\ jar' = [jar EXCEPT ![u][n] = None] /\ meant' = [meant EXCEPT ![u][n] = None]
  BY DEF Forget
<1>2. TypeOK
  BY DEF IInv
<1>3. TypeOK'
  BY <1>1, <1>2 DEF TypeOK
<1>4. None \notin Keys
  BY NoneAssumption
<1>5. \A v \in Users : \A m \in Names :
        \/ jar'[v][m] = jar[v][m] /\ meant'[v][m] = meant[v][m]
        \/ jar'[v][m] = None /\ meant'[v][m] = None
  BY <1>1, <1>2 DEF TypeOK
<1>6. KeysAreUsed' /\ StoreHasMeaning' /\ MeaningHasKey'
  BY <1>1, <1>4, <1>5 DEF IInv, KeysAreUsed, StoreHasMeaning, MeaningHasKey
<1>. QED BY <1>3, <1>6 DEF IInv

LEMMA RestartInvariant == ASSUME IInv, Restart PROVE IInv'
<1>1. /\ up' = TRUE /\ disk' = disk /\ db' = NoSessions /\ used' = used /\ last' = None
      /\ jar' = jar /\ meant' = Nothing
  BY DEF Restart
<1>2. TypeOK
  BY DEF IInv
<1>3. TypeOK'
  BY <1>1, <1>2 DEF TypeOK, NoSessions, Nothing
<1>4. /\ \A u \in Users : \A n \in Names : meant'[u][n] = None
      /\ \A n \in Names : \A k \in Keys : db'[n][k] = None
  BY <1>1 DEF NoSessions, Nothing
<1>5. KeysAreUsed' /\ StoreHasMeaning' /\ MeaningHasKey'
  BY <1>1, <1>4 DEF IInv, KeysAreUsed, StoreHasMeaning, MeaningHasKey
<1>. QED BY <1>3, <1>5 DEF IInv

(* A response: the store, the keys and the cookie that the browser keeps change
   together. *)
LEMMA KeepInvariant ==
  ASSUME IInv, NEW u \in Users, NEW q \in Requests, NEW acc \in Good(u, q),
         NEW status \in Statuses, Keep(u, q, acc, status),
         up' = up, disk' \in Disks, db' = acc.store, used' = used \cup acc.made
  PROVE  IInv'
<1>1. /\ acc \in Accounts /\ KeepsSessions(acc) /\ ShowsOwn(u, acc) /\ SendsKey(acc)
  BY DEF Good
<1>2. TypeOK /\ KeysAreUsed /\ StoreHasMeaning /\ MeaningHasKey
  BY DEF IInv
<1>3. /\ acc.store \in [Names -> [Keys -> Values \cup {None}]]
      /\ acc.made \subseteq Keys /\ acc.shown \subseteq Names \X Values
      /\ acc.meaning \in Values \cup {None}
      /\ acc.cookie \in {None} \cup (Names \X (Keys \cup Values))
  BY <1>1 DEF Accounts
<1>4. last' \in [user : Users, request : Requests, status : Statuses,
                 shown : SUBSET (Names \X Values)]
  BY <1>3 DEF Keep
<1>5. /\ up' \in BOOLEAN /\ disk' \in [Files -> Contents \cup {None}]
      /\ db' \in [Names -> [Keys -> Values \cup {None}]] /\ used' \subseteq Keys
  BY <1>2, <1>3 DEF TypeOK, Disks
<1>6. \A n \in Names : \A k \in used : db'[n][k] = db[n][k] /\ k \in used'
  BY <1>1 DEF KeepsSessions
<1>7. CASE acc.cookie = None
  <2>1. jar' = jar /\ meant' = meant
    BY <1>7 DEF Keep
  <2>2. TypeOK'
    BY <1>2, <1>4, <1>5, <2>1 DEF TypeOK
  <2>3. KeysAreUsed' /\ StoreHasMeaning' /\ MeaningHasKey'
    BY <1>2, <1>6, <2>1 DEF KeysAreUsed, StoreHasMeaning, MeaningHasKey
  <2>. QED BY <2>2, <2>3 DEF IInv
<1>8. CASE acc.cookie # None
  <2>. DEFINE name == acc.cookie[1]
              value == acc.cookie[2]
  <2>1. name \in Names /\ value \in Keys \cup Values
    BY <1>3, <1>8
  <2>2. /\ jar' = [jar EXCEPT ![u][name] = value]
        /\ meant' = [meant EXCEPT ![u][name] = acc.meaning]
    BY <1>8 DEF Keep
  <2>3. /\ value \in Keys => value \in acc.made /\ acc.store[name][value] = acc.meaning
        /\ value \notin Keys => acc.meaning = None
    BY <1>1, <1>8 DEF SendsKey
  <2>. HIDE DEF name, value
  <2>4. /\ jar' \in [Users -> [Names -> Keys \cup Values \cup {None}]]
        /\ meant' \in [Users -> [Names -> Values \cup {None}]]
    BY <1>2, <1>3, <2>1, <2>2 DEF TypeOK
  <2>5. TypeOK'
    BY <1>4, <1>5, <2>4 DEF TypeOK
  <2>6. \A v \in Users : \A m \in Names :
          \/ jar'[v][m] = jar[v][m] /\ meant'[v][m] = meant[v][m]
          \/ m = name /\ jar'[v][m] = value /\ meant'[v][m] = acc.meaning
    BY <1>2, <2>1, <2>2 DEF TypeOK
  <2>7. KeysAreUsed'
    BY <1>2, <1>6, <2>3, <2>6 DEF KeysAreUsed
  <2>8. StoreHasMeaning'
    BY <1>2, <1>6, <2>3, <2>6 DEF StoreHasMeaning, KeysAreUsed
  <2>9. MeaningHasKey'
    BY <1>2, <2>3, <2>6 DEF MeaningHasKey
  <2>. QED BY <2>5, <2>7, <2>8, <2>9 DEF IInv
<1>. QED BY <1>7, <1>8

LEMMA HandleInvariant ==
  ASSUME IInv, NEW u \in Users, NEW q \in Requests, NEW keys \in KeysFor(q),
         Handle(u, q, keys)
  PROVE  IInv'
<1>. DEFINE acc == HandleCookies(u, q, keys)
<1>1. acc \in Good(u, q) /\ acc \in Accounts
  BY HandleCookiesIsGood DEF Good
<1>2. /\ used' = used \cup acc.made
      /\ \E r \in Outcomes(q, acc) :
           /\ disk' = r.files
           /\ \/ /\ r.status = Thrown /\ up' = FALSE /\ last' = None
                 /\ db' = db /\ jar' = jar /\ meant' = meant
              \/ /\ r.status # Thrown /\ db' = acc.store /\ Keep(u, q, acc, r.status)
                 /\ up' = up
  BY DEF Handle
<1>. HIDE DEF acc
<1>3. PICK r \in Outcomes(q, acc) :
           /\ disk' = r.files
           /\ \/ /\ r.status = Thrown /\ up' = FALSE /\ last' = None
                 /\ db' = db /\ jar' = jar /\ meant' = meant
              \/ /\ r.status # Thrown /\ db' = acc.store /\ Keep(u, q, acc, r.status)
                 /\ up' = up
  BY <1>2
<1>4. disk \in Disks
  BY DEF IInv, TypeOK, Disks
<1>5. r.files \in Disks /\ r.status \in Statuses \cup {Thrown}
  BY <1>1, <1>4, OutcomeFacts
<1>6. CASE /\ r.status = Thrown /\ up' = FALSE /\ last' = None
           /\ db' = db /\ jar' = jar /\ meant' = meant
  <2>1. used' \subseteq Keys /\ used \subseteq used'
    BY <1>1, <1>2 DEF Accounts, IInv, TypeOK
  <2>2. TypeOK'
    BY <1>3, <1>5, <1>6, <2>1 DEF IInv, TypeOK, Disks
  <2>3. KeysAreUsed' /\ StoreHasMeaning' /\ MeaningHasKey'
    BY <1>6, <2>1 DEF IInv, KeysAreUsed, StoreHasMeaning, MeaningHasKey
  <2>. QED BY <2>2, <2>3 DEF IInv
<1>7. CASE /\ r.status # Thrown /\ db' = acc.store /\ Keep(u, q, acc, r.status)
           /\ up' = up
  <2>1. disk' \in Disks /\ r.status \in Statuses
    BY <1>3, <1>5, <1>7
  <2>. QED BY <1>1, <1>2, <1>7, <2>1, KeepInvariant
<1>. QED BY <1>3, <1>6, <1>7

LEMMA NextInvariant == IInv /\ [Next]_vars => IInv'
<1>. SUFFICES ASSUME IInv, [Next]_vars PROVE IInv'
  OBVIOUS
<1>1. CASE Restart
  BY <1>1, RestartInvariant
<1>2. ASSUME NEW u \in Users, NEW n \in Names, Forget(u, n) PROVE IInv'
  BY <1>2, ForgetInvariant
<1>3. ASSUME NEW u \in Users, NEW q \in Requests, Refuse(u, q) PROVE IInv'
  BY <1>3, RefuseInvariant
<1>4. ASSUME NEW u \in Users, NEW q \in Requests, NEW keys \in KeysFor(q),
             Handle(u, q, keys)
      PROVE  IInv'
  BY <1>4, HandleInvariant
<1>5. CASE UNCHANGED vars
  BY <1>5 DEF vars, IInv, TypeOK, KeysAreUsed, StoreHasMeaning, MeaningHasKey
<1>. QED BY <1>1, <1>2, <1>3, <1>4, <1>5 DEF Next

(* The invariant holds of every site, however often the process ends and starts. *)
THEOREM Invariance == Spec => []IInv
<1>1. Init => IInv
  BY InitInvariant
<1>2. IInv /\ [Next]_vars => IInv'
  BY NextInvariant
<1>. QED BY <1>1, <1>2, PTL DEF Spec

------------------------------------------------------------------------------
(* What follows from the invariant. *)

(* The store, the files, the cookies and the response are what they are declared to be:
   no key is stored that was not generated, no cookie kept that was not sent. *)
THEOREM TypeCorrect == Spec => []TypeOK
<1>1. IInv => TypeOK
  BY DEF IInv
<1>. QED BY <1>1, Invariance, PTL

(* The steps that answer a request. *)
LEMMA Answers ==
  ASSUME IInv, Next, Answered
  PROVE  \E u \in Users : \E q \in Requests :
           /\ last'.user = u /\ last'.request = q
           /\ \/ /\ last'.status \in {405, 413, 501} /\ last'.shown = {} /\ disk' = disk
              \/ \E acc \in Good(u, q) :
                   /\ last'.shown = acc.shown
                   /\ last'.status = 403 => acc.end = "forbidden"
                   /\ last'.status # 403 => acc.end = "no"
                   /\ acc.end = "no" => \A n \in Required(q.path) : meant[u][n] # None
                   /\ last'.status >= 400 => disk' = disk
<1>. DEFINE Goal(u, q) ==
       /\ last'.user = u /\ last'.request = q
       /\ \/ /\ last'.status \in {405, 413, 501} /\ last'.shown = {} /\ disk' = disk
          \/ \E acc \in Good(u, q) :
               /\ last'.shown = acc.shown
               /\ last'.status = 403 => acc.end = "forbidden"
               /\ last'.status # 403 => acc.end = "no"
               /\ acc.end = "no" => \A n \in Required(q.path) : meant[u][n] # None
               /\ last'.status >= 400 => disk' = disk
<1>1. CASE Restart
  BY <1>1 DEF Restart, Answered
<1>2. ASSUME NEW u \in Users, NEW n \in Names, Forget(u, n) PROVE FALSE
  BY <1>2 DEF Forget, Answered
<1>3. ASSUME NEW u \in Users, NEW q \in Requests, Refuse(u, q) PROVE Goal(u, q)
  <2>1. (IF q.error # 0 THEN q.error ELSE 405) \in {405, 413, 501}
    BY RequestFacts
  <2>. QED BY <1>3, <2>1 DEF Refuse
<1>4. ASSUME NEW u \in Users, NEW q \in Requests, NEW keys \in KeysFor(q),
             Handle(u, q, keys)
      PROVE  Goal(u, q)
  <2>. DEFINE acc == HandleCookies(u, q, keys)
  <2>1. /\ acc \in Good(u, q) /\ acc \in Accounts
        /\ acc.end = "no" => \A n \in Required(q.path) : meant[u][n] # None
    BY HandleCookiesIsGood DEF Good
  <2>2. \E r \in Outcomes(q, acc) :
          disk' = r.files /\ r.status # Thrown /\ Keep(u, q, acc, r.status)
    BY <1>4 DEF Handle, Answered
  <2>. HIDE DEF acc
  <2>3. PICK r \in Outcomes(q, acc) :
          disk' = r.files /\ r.status # Thrown /\ Keep(u, q, acc, r.status)
    BY <2>2
  <2>4. disk \in Disks
    BY DEF IInv, TypeOK, Disks
  <2>5. /\ r.status >= 400 => r.files = disk
        /\ r.status = 403 => acc.end = "forbidden"
        /\ r.status # 403 => acc.end = "no"
    BY <2>1, <2>3, <2>4, OutcomeFacts
  <2>6. /\ last'.user = u /\ last'.request = q /\ last'.status = r.status
        /\ last'.shown = acc.shown
    BY <2>3 DEF Keep
  <2>. QED BY <2>1, <2>3, <2>5, <2>6
<1>. QED BY <1>1, <1>2, <1>3, <1>4 DEF Next

(* Only a browser that was given, by this process, every cookie that the path requires
   gets anything but a refusal, whatever else it or others have done before. *)
THEOREM LoggedIn == Spec => OnlyLoggedIn
<1>. DEFINE A == Answered /\ last'.status \notin {403, 405, 413, 501} =>
                   \A n \in Required(last'.request.path) : meant[last'.user][n] # None
<1>1. ASSUME IInv, Next PROVE A
  BY <1>1, Answers
<1>2. IInv /\ [Next]_vars => [A]_vars
  BY <1>1
<1>. QED BY <1>2, Invariance, PTL DEF Spec, OnlyLoggedIn

(* No response shows a browser the value of somebody else's session. *)
THEOREM ShownIsOwn == Spec => OwnValueShown
<1>. DEFINE A == Answered => \A s \in last'.shown : meant[last'.user][s[1]] = s[2]
<1>1. ASSUME IInv, Next PROVE A
  BY <1>1, Answers DEF Good, ShowsOwn
<1>2. IInv /\ [Next]_vars => [A]_vars
  BY <1>1
<1>. QED BY <1>2, Invariance, PTL DEF Spec, OwnValueShown

LEMMA TwoAreMore ==
  ASSUME NEW S, IsFiniteSet(S), NEW x \in S, NEW y \in S, x # y
  PROVE  Cardinality(S) > 1
<1>1. IsFiniteSet({x}) /\ Cardinality({x}) = 1 /\ {x} \in SUBSET S /\ {x} # S
  BY FS_Singleton
<1>2. Cardinality({x}) <= Cardinality(S) /\ Cardinality(S) # Cardinality({x})
  BY <1>1, FS_Subset
<1>3. Cardinality(S) \in Nat
  BY FS_CardinalityType
<1>. QED BY <1>1, <1>2, <1>3

(* A browser that has all the sessions a path requires is refused only if it keeps more
   than one cookie. *)
THEOREM NotRefusedInVain == Spec => LoggedInGetsIn
<1>. DEFINE A == Answered /\ last'.status = 403 =>
                   \/ \E n \in Required(last'.request.path) : meant[last'.user][n] = None
                   \/ Cardinality({n \in Names : jar[last'.user][n] # None}) > 1
<1>1. ASSUME IInv, Next, Answered, last'.status = 403 PROVE A
  <2>1. PICK u \in Users, q \in Requests :
          /\ last'.user = u /\ last'.request = q
          /\ \E acc \in Good(u, q) : acc.end = "forbidden"
    BY <1>1, Answers
  <2>2. PICK n \in Required(q.path) : Session(u, n) = None
    BY <2>1 DEF Good, RefusesRightly
  <2>3. n \in Names
    BY RequiredFacts
  <2>4. \/ meant[u][n] = None
        \/ \E m \in Names \ {n} : jar[u][m] # None /\ jar[u][n] # None
    BY <1>1, <2>2, <2>3, SessionFacts
  <2>5. CASE meant[u][n] = None
    BY <2>1, <2>5
  <2>6. ASSUME NEW m \in Names \ {n}, jar[u][m] # None, jar[u][n] # None PROVE A
    <3>. DEFINE S == {c \in Names : jar[u][c] # None}
    <3>1. IsFiniteSet(S)
      BY NamesAssumption, FS_Subset
    <3>2. m \in S /\ n \in S /\ m # n
      BY <2>3, <2>6
    <3>. HIDE DEF S
    <3>3. Cardinality(S) > 1
      BY <3>1, <3>2, TwoAreMore
    <3>. QED BY <2>1, <3>3 DEF S
  <2>. QED BY <2>4, <2>5, <2>6
<1>2. IInv /\ [Next]_vars => [A]_vars
  BY <1>1
<1>. QED BY <1>2, Invariance, PTL DEF Spec, LoggedInGetsIn

(* A response with an error status has left the files as they were, whatever the
   request was about to do. *)
THEOREM RefusalsChangeNothing == Spec => RefusedChangesNothing
<1>. DEFINE A == Answered /\ last'.status >= 400 => disk' = disk
<1>1. ASSUME IInv, Next PROVE A
  BY <1>1, Answers
<1>2. IInv /\ [Next]_vars => [A]_vars
  BY <1>1
<1>. QED BY <1>2, Invariance, PTL DEF Spec, RefusedChangesNothing
==============================================================================
