--------------------------- MODULE MCRouteHandlers --------------------------
(* Instances of RouteHandlers, and with it of HttpRequest.                 *)
EXTENDS RouteHandlers

MCLower == ("content-type" :> "Content-Type") @@ ("Application/JSON" :> "application/json")
MCNumbers == {"0", "7"}
MCBodies == (<<"{all}">> :> [source_code |-> "s", stdin |-> "i"])
            @@ (<<"{source}">> :> [source_code |-> "s"])
            @@ (<<"{stdin}">> :> [stdin |-> "i"])

Ends == <<"CRLF", "CRLF">>
CT == <<"Content-Type", ":", " ", "application/json", "CRLF">>

\* Start lines of up to five tokens, with the headers that go with them.
StartLines == {l \o <<"CRLF", "k", ":", "v">> \o Ends : l \in SeqOf({"GET", " ", "/", "?", "CRLF"}, 5)}

\* Header lines: anything of up to five tokens, alone and with a line behind it.
HeaderLines == {<<"GET", " ", "/", " ", "HTTP/1.1", "CRLF">> \o l \o b \o Ends :
                   l \in SeqOf({"x", " ", ":", Quote}, 5),
                   b \in {<<>>, <<"CRLF", "k", ":", " ", "v", " ">>}}

\* Queries of up to six tokens, and one parameter too many.
Queries == {<<"GET", " ", "/", "?">> \o q \o <<" ", "HTTP/1.1", "CRLF", "k", ":", "v">> \o Ends :
               q \in SeqOf({"a", "=", "&"}, 6)
                     \cup {<<"a", "=", "a", "&", "a", "=", "a", "&", "a", "=", "a">>}}

\* Calls of the API, complete and incomplete.
Targets == {<<"/", "stop">>, <<"/", "stop", "/">>, <<"/", "input">>, <<"/", "program">>,
            <<"/", "run", "/", "text-mode">>, <<"/", "run", "/", "debugger", "/">>, <<"/">>,
            <<"/", "favicon.ico">>}
PidQueries == {<<>>, <<"pid", "=", "7">>, <<"pid", "=", "x">>, <<"a", "pid", "=", "7">>, <<"a", "=", "7", "&", "pid", "=", "7">>}
RunQueries == {<<"language", "=", l, "&", "compiler_type", "=", c>> :
                  l \in {"c", "java"}, c \in {"gcc", "tcc"}}
              \cup {<<"compiler_type", "=", "clang", "&", "language", "=", "cpp">>, <<"language", "=", "c">>}
ApiHeaders == {CT, <<"content-type", ":", "Application/JSON", "CRLF">>,
               <<"content-type", ":", "application/json", "CRLF">>, <<"k", ":", "v", "CRLF">>,
               <<"k", ":", "v", "CRLF">> \o CT, CT \o <<"k", "CRLF">>,
               <<"k", ":", "v", "CRLF">> \o CT \o <<"l", ":", "v", "CRLF">>}
ApiBodies == {<<"{all}">>, <<"{source}">>, <<"{stdin}">>, <<>>}
Request(m, t, q, h, b) ==
    <<m, " ">> \o t \o <<"?">> \o q \o <<" ", "HTTP/1.1", "CRLF">> \o h \o <<"CRLF">> \o b
ApiCalls == {Request("POST", t, q, h, b) :
                t \in Targets, q \in PidQueries \cup RunQueries, h \in ApiHeaders, b \in ApiBodies}
            \cup {Request("GET", t, q, CT, <<"{all}">>) : t \in Targets, q \in PidQueries \cup RunQueries}
Preflight == {<<"OPTIONS", " ">> \o t \o <<" ", "HTTP/1.1", "CRLF">> \o CT \o <<"CRLF">> : t \in Targets}

MCRequests == StartLines \cup HeaderLines \cup Queries \cup ApiCalls \cup Preflight
=============================================================================
