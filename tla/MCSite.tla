------------------------------- MODULE MCSite -------------------------------
EXTENDS Site

St(name, args) == Statement(name, args)
W(s) == <<Word(s)>>
P(p) == <<Path(p)>>
N(n) == <<Number(n, "")>>
Loc(path, body) == Block("location", P(path), body)
Srv(body) == Block("server", <<>>, body)

\* Names: "filesx" begins as "files" does; only "a.py" is a script.
NameBegins == {<<"files", "filesx">>}
NameEnds   == {<<"a.py", ".py">>}

Methods == [k \in {"GET", "POST", "DELETE"} |-> Word(k)]

\* Two servers on one port and one on another, each with what the first has
\* not; every directive is said somewhere, some twice.
Main ==
    <<Srv(<<St("listen", N(80)), St("server_name", W("a")),
            St("root", P(<<"www">>)),
            St("error_page", <<Number(404, ""), Number(403, "")>> \o P(<<"", "e">>)),
            Loc(<<"", "">>, <<St("allow_methods", W("GET")), St("index", P(<<"i">>))>>),
            Loc(<<"", "files">>, <<St("client_max_body_size", N(2)), St("autoindex", W("on")),
                                   St("upload_store", P(<<"www", "files">>))>>),
            Loc(<<"", "files", "">>, <<St("client_max_body_size", N(1)),
                                   St("allow_methods", <<Methods["GET"], Methods["POST"], Methods["DELETE"]>>),
                                   St("upload_store", P(<<"www", "files", "">>))>>)>>),
      Srv(<<St("listen", <<Addr("0.0.0.0", 80)>>), St("server_name", <<Word("b"), Word("c")>>),
            St("client_max_body_size", <<Number(2, "k")>>), St("autoindex", W("on")),
            Loc(<<"", "old">>, <<St("return", N(301) \o P(<<"", "new">>))>>)>>),
      Srv(<<St("listen", N(81)), St("server_name", W("a")), St("index", P(<<"i">>)),
            Loc(<<"", "">>, <<St("root", P(<<"www">>)), St("cgi_ext", W(".py")),
                              St("cgi_pass", P(<<"py">>)), St("index", P(<<"a.py">>))>>)>>)>>

\* Sizes that do not fit, or are not there; two of each directive.
Odd ==
    <<Srv(<<St("server_name", W("c")), St("listen", N(80)),
            St("client_max_body_size", <<Number(18, "m")>>),
            St("root", P(<<"x">>)), St("root", P(<<"www">>)),
            Loc(<<"", "files">>, <<St("client_max_body_size", <<Unit("k")>>),
                                   St("autoindex", W("on")), St("autoindex", W("off"))>>),
            St("index", W("i"))>>)>>

\* Two addresses that cannot both be bound.
Clash ==
    <<Srv(<<St("listen", N(80))>>),
      Srv(<<St("listen", <<Addr("127.0.0.1", 80)>>), St("error_page", N(404) \o P(<<"", "e">>)),
            St("error_page", N(404) \o P(<<"", "f">>))>>)>>

\* Lists followed by blocks, and something of everything that takes a value.
Short ==
    <<Srv(<<St("listen", N(80)),
            Loc(<<"", "">>, <<St("allow_methods", W("GET")), St("index", W("i"))>>),
            Loc(<<"", "files">>, <<St("return", N(301) \o P(<<"", "new">>))>>),
            Loc(<<"", "up">>, <<St("upload_store", P(<<"www">>)), St("cgi_ext", W(".py")),
                                St("cgi_pass", P(<<"py">>)), St("index", W("i"))>>),
            St("server_name", W("a"))>>),
      Srv(<<St("autoindex", W("on")), St("root", P(<<"www">>)), St("listen", N(81)),
            St("server_name", W("b"))>>)>>

\* A listen without a port, lists of nothing, arguments that read like names.
Loose ==
    <<Srv(<<St("server_name", <<Word("listen"), Number(81, "")>>), St("listen", W("localhost")),
            St("index", <<>>), St("error_page", <<>>),
            Loc(<<"", "">>, <<St("cgi_ext", W("index"))>>)>>)>>

\* The address of another machine.
Away == <<Srv(<<St("listen", <<Addr("10.0.0.9", 80)>>)>>)>>

HereHosts == {"0.0.0.0", "127.0.0.1"}
ReadableHosts == HereHosts \cup {"10.0.0.9"}

TextsToRead == {Main, Odd, Clash, Short, Loose, Away}

\* Each of them, and each but the first with any token left out.
FilesToRead ==
    {Written(t) : t \in TextsToRead}
        \cup UNION {{Without(t, k) : k \in DOMAIN Written(t)} : t \in TextsToRead \ {Main}}

DiskAtStart ==
    [p \in {<<"www">>, <<"www", "files">>} |-> "dir"]
      @@ [p \in {<<"www", "e">>, <<"www", "i">>, <<"www", "files", "x">>,
                 <<"www", "a.py">>} |-> "file"]
      @@ (<<"www", "k">> :> "locked")

-----------------------------------------------------------------------------
(* Requests *)

Ask(method, uri, host) ==
    [to |-> [host |-> "127.0.0.1", port |-> 80], host |-> host, error |-> 0,
     method |-> method, uri |-> uri, size |-> 0, form |-> FALSE, parts |-> <<<<"">>>>]

Uris == {<<"", "">>, <<"", "files">>, <<"", "files", "">>, <<"", "files", "x">>,
         <<"", "filesx">>, <<"", "k">>, <<"files", "", "x">>, <<"", ".", "files", "x", "..", "">>,
         <<"", "files", "..", "..", "i">>, <<"", "files", "..", "a.py">>, <<"", "old">>}

Send(name, form, size) ==
    [Ask("POST", <<"", "files", "">>, "a") EXCEPT !.parts = name, !.form = form, !.size = size]

AllRequests ==
    {Ask(m, u, "a") : m \in {"GET", "DELETE"}, u \in Uris}
    \cup {[Ask("GET", u, h) EXCEPT !.to.port = p] :
             u \in {<<"", "old">>, <<"", "">>, <<"", "a.py">>}, h \in {"a", "c"}, p \in {80, 81}}
    \cup {Send(<<<<"y">>>>, FALSE, 1), Send(<<<<"..", "x">>>>, FALSE, 1), Send(<<<<"y", "..">>>>, FALSE, 2),
          Send(<<<<>>, <<"..", "y">>>>, TRUE, 1), Send(<<<<>>>>, TRUE, 1)}
    \cup {[Ask("POST", u, "a") EXCEPT !.size = s] :
             u \in {<<"", "files">>, <<"", "files", "x">>, <<"", "old">>, <<"", "files", ".">>},
             s \in {1, 2, 3}}
    \cup {[Ask("GET", <<"">>, "") EXCEPT !.error = 400], Ask("PUT", <<"", "">>, "a")}
=============================================================================
