--------------------------- MODULE MCRequestHandler ---------------------------
(* A site in the manner of the default configuration for TLC: a login page, a page
   that sets another cookie and redirects, a page that requires a session, with a
   directory below it whose files are not uploaded by a POST, and a script. *)
EXTENDS RequestHandler, TLC

CONSTANTS v1, v2, x

Session(name) == <<[name |-> name, session |-> TRUE, value |-> None]>>

Fixed(name, v) == <<[name |-> name, session |-> FALSE, value |-> v]>>

Plain(path, covers) ==
  [location |-> path, covers |-> covers, methods |-> Methods, redirection |-> FALSE,
   cgi |-> {}, listing |-> FALSE, required |-> {}, set |-> <<>>]

Site == <<[Plain("/login", {"/login"}) EXCEPT !.set = Session("session")],
          [Plain("/theme", {"/theme"}) EXCEPT !.set = Fixed("theme", v1), !.redirection = TRUE],
          [Plain("/admin", {"/admin", "/admin/file"}) EXCEPT !.required = {"session"}],
          [Plain("/admin/file", {"/admin/file"}) EXCEPT !.methods = {"GET", "DELETE"}],
          [Plain("/cgi", {"/cgi"}) EXCEPT !.cgi = {"/cgi"}]>>

SiteFiles == {"/admin/file", "/cgi"}
SiteDirs == {"/", "/login", "/theme", "/admin"}
SiteIndex == [d \in SiteDirs |-> IF d = "/login" THEN <<"/cgi">> ELSE
                                 IF d = "/admin" THEN <<"/admin/file">> ELSE <<>>]

NoParams == [n \in {"session", "theme"} |-> None]

Plainly(method, path) ==
  [method |-> method, path |-> path, error |-> 0, size |-> 0, params |-> NoParams,
   multipart |-> FALSE, cut |-> FALSE, parts |-> <<>>]

Upload(path, content, size) ==
  [Plainly("POST", path) EXCEPT !.multipart = TRUE, !.size = size,
                                !.parts = <<[file |-> None, content |-> None],
                                            [file |-> "/admin/file", content |-> content]>>]

LogIn(path, name, v) == [Plainly("GET", path) EXCEPT !.params = [NoParams EXCEPT ![name] = v]]

SiteRequests ==
  {Plainly("GET", "/"), Plainly("GET", "/cgi"), Plainly("GET", "/theme"),
   Plainly("GET", "/admin"), Plainly("DELETE", "/admin/file"),
   Plainly("POST", "/admin/file"), Upload("/admin", x, 1),
   [Upload("/admin", x, 1) EXCEPT !.cut = TRUE],
   [Plainly("DELETE", "/admin/file") EXCEPT !.size = Limit + 1],
   [Plainly("POST", "/admin") EXCEPT !.size = Limit + 1, !.error = 413],
   [Plainly("POST", "/") EXCEPT !.error = 501]}
  \cup {LogIn("/login", "session", v) : v \in {v1, v2, "bare", None}}

(* Chunked bodies, whose size the parser does not look at. *)
LargeRequests == {Upload("/", x, Limit + 1), Plainly("POST", "/cgi")}
==============================================================================
