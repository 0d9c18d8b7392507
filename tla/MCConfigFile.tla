----------------------------- MODULE MCConfigFile -----------------------------
(* Configuration files for TLC: two servers with locations and comments, with every
   line of a list put in, with every line left out or exchanged with the next; and all
   short files made of headers, braces and the settings that look for a location. *)
EXTENDS ConfigFile, TLC

WordSet == {"a", "b", "GET", "POST", "DELETE", "PUT", "2000", "3000", "1023", "49152", "404",
            "404x", "399", "301", "2K", "9M", "4M", "-1K", "20K", "0K", "3", "name", "bad",
            "secure", "lax"}

Numbers ==
  "2000" :> 2000 @@ "3000" :> 3000 @@ "1023" :> 1023 @@ "49152" :> 49152
  @@ "404" :> 404 @@ "404x" :> 404 @@ "399" :> 399 @@ "301" :> 301
  @@ "2K" :> 2 @@ "9M" :> 9 @@ "4M" :> 4 @@ "-1K" :> -1 @@ "20K" :> 20 @@ "0K" :> 0 @@ "3" :> 3

Rests == [w \in DOMAIN Numbers |->
            CASE w = "404x" -> "x" [] w \in {"2K", "-1K", "20K", "0K"} -> "K"
              [] w \in {"9M", "4M"} -> "M" [] OTHER -> ""]

KeySet == {"", "#", "{", "}", "{}", "server", "location", "location_location", "port",
           "server_name", "error_page", "client_max_body_size", "root", "index",
           "upload_path", "allowed_methods", "http_methods", "http_redirection",
           "directory_listing", "response_is_dir", "cgi_pass", "required_cookie",
           "set_cookie"}

KiloWords == {"2K", "-1K", "20K", "0K"}
MegaWords == {"9M", "4M"}

Attributes == "name" :> [field |-> "name", text |-> "n"]
              @@ "secure" :> [field |-> "secure", text |-> TRUE]
              @@ "lax" :> [field |-> "samesite", text |-> "lax"]

------------------------------------------------------------------------------
Line(key, value) ==
  [text |-> [prefixed |-> FALSE, key |-> key, value |-> value], brace |-> FALSE]
Braced(l)   == [l EXCEPT !.brace = TRUE]
Prefixed(l) == [l EXCEPT !.text.prefixed = TRUE]

Blank   == Line("", <<>>)
Comment == Line("#", <<"a">>)
Begin   == Line("{", <<>>)
End     == Line("}", <<>>)
Root(w) == Line("root", <<w>>)
Server_ == Line("server", <<>>)
At(w)   == Line("location", <<w>>)

TwoServers ==
  <<Braced(Server_), Line("port", <<"2000">>), Root("a"),
    Braced(At("a")), Root("b"), End,
    At("b"), Begin, Line("http_methods", <<"GET">>), End,
    Line("client_max_body_size", <<"2K">>), End,
    Comment, Server_, Begin, Line("allowed_methods", <<"POST", "GET", "POST">>),
    Braced(At("a")), Comment, End, End>>

Inserted ==
  {Blank, Comment, Braced(Comment), Begin, End, Server_, Braced(Server_), At("b"),
   Braced(At("b")), Line("{}", <<>>), Line("root", <<>>), Root("b"), Braced(Root("b")),
   Prefixed(Root("b")), Braced(Prefixed(Root("b"))),
   Line("port", <<"2000", "a">>), Line("server_name", <<>>), Line("index", <<"a", "b">>),
   Line("upload_path", <<"b">>), Braced(Prefixed(At("b")))}
  \cup {Line("port", v) : v \in {<<>>, <<"1023">>, <<"49152">>, <<"3000">>,
                            <<"a">>}}
  \cup {Line("server_name", <<w>>) : w \in {"a", "b"}}
  \cup {Line("error_page", v) :
          v \in {<<"404">>, <<"404", "a">>, <<"404x">>, <<"404", "a", "b">>, <<"399", "a">>}}
  \cup {Line("client_max_body_size", v) :
          v \in {<<>>, <<"3">>} \cup {<<w>> : w \in KiloWords \cup MegaWords}}
  \cup {Line(key, v) : key \in {"allowed_methods", "http_methods"},
                       v \in {<<>>, <<"GET">>, <<"POST", "GET">>, <<"DELETE">>, <<"PUT">>}}
  \cup {Line("http_redirection", v) :
          v \in {<<>>, <<"301">>, <<"301", "a">>, <<"399">>, <<"404">>, <<"a">>}}
  \cup {Line("directory_listing", <<"a">>), Line("response_is_dir", <<"a">>),
        Line("cgi_pass", <<"a">>), Line("required_cookie", <<>>),
        Line("required_cookie", <<"a">>), Line("set_cookie", <<"name", "secure">>),
        Line("set_cookie", <<"lax">>), Line("set_cookie", <<"name", "bad">>)}

Swapped(f, i) == [f EXCEPT ![i] = f[i + 1], ![i + 1] = f[i]]

Variations(f) ==
  {InsertAt(f, i, l) : i \in 1..(Len(f) + 1), l \in Inserted}
  \cup {RemoveAt(f, i) : i \in 1..Len(f)}
  \cup {Swapped(f, i) : i \in 1..(Len(f) - 1)}
  \cup {SubSeq(f, 1, i) : i \in 0..Len(f)}

(* Two settings of a server, of a location, between others that have one or none. *)
Twice(key, v, w) ==
  <<Braced(Server_), Line(key, w), Line(key, v), Line(key, w), End,
    Braced(Server_), Braced(At("a")), End, End>>

TwiceIn(key, v, w) ==
  <<Braced(Server_), Braced(At("a")), Line(key, w), End,
    Braced(At("b")), Line(key, v), Line(key, w), End, Braced(At("a")), End, End,
    Braced(Server_), Braced(At("b")), Line(key, v), End, End>>

Repeated ==
  {Twice("error_page", v, w) : v, w \in {<<"404">>, <<"404", "a">>, <<"404x">>}}
  \cup {Twice(key, v, w) : key \in {"index", "upload_path", "root"},
                           v \in {<<>>, <<"a">>}, w \in {<<"b">>, <<"a", "b">>}}
  \cup {TwiceIn("http_redirection", <<"301", "a">>, w) :
           w \in {<<>>, <<"399">>, <<"301", "b">>, <<"a">>}}
  \cup {TwiceIn(key, v, w) : key \in {"root", "directory_listing", "response_is_dir", "cgi_pass",
                                     "required_cookie"},
                             v \in {<<>>, <<"a">>}, w \in {<<"b">>, <<"a", "b">>}}
  \cup {TwiceIn("set_cookie", v, w) : v \in {<<"name">>, <<"name", "secure">>},
                                      w \in {<<"name", "lax">>, <<"lax">>}}

(* Settings of a location where there may be none. *)
Unplaced ==
  {<<Braced(Server_), Braced(Prefixed(Line(key, v))), End, End>> :
     key \in {"http_methods", "http_redirection", "root", "directory_listing",
              "response_is_dir", "cgi_pass", "required_cookie", "set_cookie"},
     v \in {<<>>, <<"GET">>, <<"PUT">>, <<"301">>, <<"name">>}}

Short == BoundedSeq({Comment, Begin, End, Server_, Braced(Server_), Braced(At("a")), Root("a")},
                    4)

AllFiles == Variations(TwoServers) \cup Repeated \cup Unplaced \cup Short
==============================================================================
