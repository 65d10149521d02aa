--------------------------- MODULE RouteHandlers ----------------------------
(***************************************************************************)
(* What becomes of one request: parsed (HttpRequest), routed by            *)
(* handle_http_request (src/src/runner.c), answered by a static file or by *)
(* one of the callbacks of src/gdbc/src/main.c, and written by             *)
(* http_response_stringify.  The operations of service.c that a callback   *)
(* calls are modelled in ProcessTable, parse_json in JsonDocument; here    *)
(* their results are taken as they may be, the end of the server inside a  *)
(* call included (ProcessTable!fault: SIGPIPE, an assertion, a stream or a *)
(* path of another run).                                                   *)
(***************************************************************************)
EXTENDS HttpRequest

CONSTANTS Bodies,               \* a JSON object for each body that is one
          Lower,                \* a token in lower case
          Numbers,              \* tokens atoi makes a number of
          Debug                 \* built with the DLOG output

ASSUME HandlersAssumption == Debug \in BOOLEAN

VARIABLES callback,             \* the route that was found
          file,                 \* a source file was left in temp/
          started,              \* build_and_run returned an id
          fault,                \* what ended the server
          response              \* status, headers and body

handlerVars == <<callback, file, started, fault, response>>
vars == <<requestVars, handlerVars>>

Routes == <<
    [path |-> <<"/", "stop">>, method |-> "POST", callback |-> "stop"],
    [path |-> <<"/", "input">>, method |-> "POST", callback |-> "input"],
    [path |-> <<"/", "program">>, method |-> "GET", callback |-> "program"],
    [path |-> <<"/", "run", "/", "text-mode">>, method |-> "POST", callback |-> "run"],
    [path |-> <<"/", "run", "/", "interactive-mode">>, method |-> "POST", callback |-> "run"],
    [path |-> <<"/", "run", "/", "debugger">>, method |-> "POST", callback |-> "run"]>>

find_route(path, method) ==
    SelectInSeq(Routes, LAMBDA r : r.method = method /\ url_path_cmp(path, r.path))

\* find_json_element on the parsed body; whether that is NULL.
Malformed == request.body \notin DOMAIN Bodies
Element(name) == ~Malformed /\ name \in DOMAIN Bodies[request.body]

find_header(name) == SelectInSeq(headers.items, LAMBDA h : h.key = name)
find_query_parameter(name) == SelectInSeq(params, LAMBDA p : p.key = <<name>>)
Parameter(name) == params[find_query_parameter(name)].val
Has(name) == find_query_parameter(name) # 0
atoi(s) == IF s # <<>> /\ s[1] \in Numbers THEN s[1] ELSE "0"

LowerCase(s) == [i \in DOMAIN s |-> IF s[i] \in DOMAIN Lower THEN Lower[s[i]] ELSE s[i]]
ContentType == <<"Content-Type">>
Json == <<"application/json">>

-----------------------------------------------------------------------------
(* http_response_stringify.                                                *)

Cors == <<[key |-> <<"Access-Control-Allow-Origin">>, val |-> <<"*">>],
          [key |-> <<"Access-Control-Allow-Methods">>, val |-> <<"GET, POST">>],
          [key |-> <<"Access-Control-Allow-Headers">>, val |-> <<"*">>]>>
JsonCors == <<[key |-> ContentType, val |-> Json]>> \o Cors

http_status_code_stringify(code) ==
    CASE code = 200 -> "OK"
      [] code = 204 -> "No Content"
      [] code = 400 -> "Bad Request"
      [] code = 404 -> "Not Found"
      [] code = 500 -> "Internal Server Error"

http_response_stringify(r) ==
    <<"HTTP/1.1", http_status_code_stringify(r.status), "CRLF">>
    \o http_headers_stringify(r.headers) \o <<"CRLF">> \o r.body

HandlersInit ==
    /\ Init
    /\ callback = "none"
    /\ file = FALSE
    /\ started = FALSE
    /\ fault = "none"
    /\ response = [status |-> 0, headers |-> <<>>, body |-> <<>>]

Goto(where) == stage' = where /\ UNCHANGED <<lines, pos, key, headers, params>>
Answer(status, hs, body) ==
    /\ Goto("answered")
    /\ response' = [status |-> status, headers |-> hs, body |-> body]
    /\ UNCHANGED <<callback, fault>>
Stop(what) ==
    /\ Goto("fault")
    /\ fault' = what
    /\ UNCHANGED <<callback, response>>
Quiet == UNCHANGED <<file, started>>

-----------------------------------------------------------------------------
(* handle_http_request between reading and writing.                        *)

AnswerNull == stage = "NULL" /\ Answer(500, Cors, <<>>) /\ Quiet
AnswerOptions ==
    stage = "parsed" /\ request.method = "OPTIONS" /\ Answer(204, Cors, <<>>) /\ Quiet

\* A file that is there and can be read, or not.
get_static_file ==
    {[status |-> 200, headers |-> Cors, body |-> <<"file">>],
     [status |-> 404, headers |-> Cors, body |-> <<>>]}

\* What no route takes is a file below static_files_dir; one has a type.
AnswerStatic ==
    /\ stage = "parsed" /\ request.method # "OPTIONS"
    /\ find_route(request.path, request.method) = 0
    /\ \E r \in get_static_file :
          LET icon == [key |-> ContentType, val |-> <<"image/x-icon">>]
          IN  Answer(r.status,
                     IF request.path = <<"/", "favicon.ico">> THEN Append(r.headers, icon) ELSE r.headers,
                     r.body)
    /\ Quiet

Call ==
    /\ stage = "parsed" /\ request.method # "OPTIONS"
    /\ LET r == find_route(request.path, request.method)
       IN  r # 0 /\ callback' = Routes[r].callback
    /\ Goto("called")
    /\ UNCHANGED <<file, started, fault, response>>

-----------------------------------------------------------------------------
(* The callbacks of /run/...                                               *)

\* Mutant: the case of the name counts.
RunContentTypeExact ==
    LET i == SelectInSeq(headers.items, LAMBDA h : h.key = ContentType)
    IN  i # 0 /\ LowerCase(headers.items[i].val) = Json

\* Names and values in any case; the first header of that name counts.
RunContentType ==
    LET i == SelectInSeq(headers.items, LAMBDA h : LowerCase(h.key) = LowerCase(ContentType))
    IN  i # 0 /\ LowerCase(headers.items[i].val) = Json

\* What validate_run_request refuses, and why.  Its answer has no headers.  The
\* test for an empty body comes behind parse_json, which has refused it.
Refusal ==
    IF ~RunContentType THEN "Content-Type must be application/json"
    ELSE IF Malformed THEN "JSON data is malformed"
    ELSE IF ~Has("language") THEN "Missing required query parameter: language"
    ELSE IF ~Has("compiler_type") THEN "Missing required query parameter: compiler_type"
    ELSE "none"

Validate ==
    /\ stage = "called" /\ callback = "run"
    /\ IF Refusal # "none" THEN Answer(400, <<>>, <<Refusal>>)
       ELSE IF ~Element("source_code") THEN Stop("null source_code")
       ELSE Goto("execute") /\ UNCHANGED <<callback, fault, response>>
    /\ Quiet

\* Mutant: the file is not removed if writing fails.
CreateFileLeft ==
    /\ stage = "execute"
    /\ \/ /\ Parameter("language") \notin {<<"c">>, <<"cpp">>}
          /\ Stop("assert language") /\ UNCHANGED file
       \/ /\ Parameter("language") \in {<<"c">>, <<"cpp">>}
          /\ \/ Answer(500, JsonCors, <<"Failed to create source code file">>) /\ UNCHANGED file
             \/ Answer(500, JsonCors, <<"Failed to write source code to file">>) /\ file' = TRUE
             \/ Goto("compile") /\ file' = TRUE /\ UNCHANGED <<callback, fault, response>>
    /\ UNCHANGED started

\* The language decides on the name of the file; then fopen, fprintf, fclose.
CreateFile ==
    /\ stage = "execute"
    /\ \/ /\ Parameter("language") \notin {<<"c">>, <<"cpp">>}
          /\ Stop("assert language") /\ UNCHANGED file
       \/ /\ Parameter("language") \in {<<"c">>, <<"cpp">>}
          /\ \/ Answer(500, JsonCors, <<"Failed to create source code file">>) /\ UNCHANGED file
             \/ Answer(500, JsonCors, <<"Failed to write source code to file">>) /\ file' = FALSE
             \/ Goto("compile") /\ file' = TRUE /\ UNCHANGED <<callback, fault, response>>
    /\ UNCHANGED started

Compile ==
    /\ stage = "compile"
    /\ IF Parameter("compiler_type") \notin {<<"gcc">>, <<"clang">>}
       THEN Answer(400, JsonCors, <<"Invalid compiler type specified">>) /\ UNCHANGED started
       ELSE \/ /\ Answer(500, JsonCors, <<"Failed to build and run program">>)
               /\ UNCHANGED started
            \/ /\ Goto("pass input") /\ started' = TRUE
               /\ UNCHANGED <<callback, fault, response>>
            \/ Stop("service") /\ UNCHANGED started
    /\ UNCHANGED file

\* Mutant: a request without input is refused, when its program runs already.
PassInputRefusing ==
    /\ stage = "pass input"
    /\ IF ~Element("stdin") THEN Answer(400, JsonCors, <<"Missing stdin">>)
       ELSE Answer(200, JsonCors, <<"pid">>) \/ Stop("assert pass_input") \/ Stop("service")
    /\ Quiet

\* The result of pass_input_to_child may be -2, if its program was stopped; it
\* has none if writing raises SIGPIPE.
PassInput ==
    /\ stage = "pass input"
    /\ IF ~Element("stdin") THEN Stop("null stdin")
       ELSE Answer(200, JsonCors, <<"pid">>) \/ Stop("assert pass_input") \/ Stop("service")
    /\ Quiet

-----------------------------------------------------------------------------
(* The callbacks of /stop, /input and /program.                            *)

\* Here name and value of the header count as they are written.
ExactContentType ==
    LET i == find_header(ContentType) IN i # 0 /\ headers.items[i].val = Json

NoContentType == Answer(400, JsonCors, <<"Content-Type must be application/json">>)
NoPid == Answer(400, JsonCors, <<"Missing required query parameter: pid">>)

StopCallback ==
    /\ stage = "called" /\ callback = "stop"
    /\ IF ~ExactContentType THEN NoContentType
       ELSE IF ~Has("pid") THEN NoPid
       ELSE Answer(200, JsonCors, <<"pid", atoi(Parameter("pid"))>>) \/ Stop("service")
    /\ Quiet

\* The log of a debug build reads the parameter before it is tested.
InputCallback ==
    /\ stage = "called" /\ callback = "input"
    /\ IF ~ExactContentType THEN NoContentType
       ELSE IF ~Has("pid") THEN IF Debug THEN Stop("null pid") ELSE NoPid
       ELSE IF ~Element("stdin") THEN Stop("null stdin")
       ELSE Answer(200, JsonCors, <<"pid", atoi(Parameter("pid"))>>) \/ Stop("service")
    /\ Quiet

\* get_output_from_child: output, nothing yet, no more to come, no such program.
ProgramCallback ==
    /\ stage = "called" /\ callback = "program"
    /\ IF ~Has("pid") THEN NoPid
       ELSE \/ Answer(200, JsonCors, <<"pid", atoi(Parameter("pid")), "output">>)
            \/ Answer(200, JsonCors, <<"pid", atoi(Parameter("pid")), "empty">>)
            \/ Answer(204, JsonCors, <<>>)
            \/ Answer(400, JsonCors, <<"Invalid parameter: pid">>)
            \/ Stop("service")
    /\ Quiet

HandlerStep ==
    \/ AnswerNull \/ AnswerOptions \/ AnswerStatic \/ Call
    \/ Validate \/ CreateFile \/ Compile \/ PassInput
    \/ StopCallback \/ InputCallback \/ ProgramCallback

HandlersNext == (ParserStep /\ UNCHANGED handlerVars) \/ HandlerStep

HandlersSpec == HandlersInit /\ [][HandlersNext]_vars

-----------------------------------------------------------------------------
HandlerStages == {"called", "execute", "compile", "pass input"}
Final == {"answered", "outside", "fault"}

TypeOK ==
    /\ stage \in Parsing \cup {"NULL", "parsed"} \cup HandlerStages \cup Final
    /\ request.method \in Methods \cup {"UNKNOWN"}
    /\ request.version \in Versions \cup {"UNKNOWN"}
    /\ pos \in 1 .. Len(header) + 1 /\ key.stat \in {"none", "key"}
    /\ Fits(headers) /\ Len(params) <= MaxParameters
    /\ callback \in {"none", "run", "stop", "input", "program"}
    /\ {file, started} \subseteq BOOLEAN
    /\ fault \in {"none", "assert language", "null source_code", "assert pass_input",
                 "null stdin", "null pid", "service"}
    /\ response.status \in {0, 200, 204, 400, 404, 500}

(* What a client has sent, read off the text without the parser.           *)
PathText == SubSeq(Target, 1, First({i \in 2 .. Len(Target) + 1 : At(Target, i) \in {"?", "NUL"}}) - 1)
\* Of the parameters one has this name, and one of these values.
Sent(name, values) ==
    LET at == {i \in Starts : At(QueryText, i + 1) = name /\ At(QueryText, i + 2) = "="}
    IN  /\ Cardinality(at) = 1
        /\ \A i \in at : At(QueryText, i + 3) \in values /\ At(QueryText, i + 4) \in {"&", "NUL"}
Calls(method, callbacks) ==
    /\ SubSeq(StartLine, 1, Blank1 - 1) = <<method>>
    /\ \E i \in DOMAIN Routes : Routes[i].callback \in callbacks /\ PathText = Routes[i].path
SentBody(name) == LET b == SubSeq(text, BlankLine + 2, Len(text))
                  IN  b \in DOMAIN Bodies /\ name \in DOMAIN Bodies[b]

CompleteRun ==
    /\ Calls("POST", {"run"})
    /\ Sent("language", {"c", "cpp"}) /\ Sent("compiler_type", {"gcc", "clang"})
    /\ SentBody("source_code") /\ SentBody("stdin")
    /\ \E i \in DOMAIN Meaning : /\ LowerCase(Meaning[i].key) = LowerCase(ContentType)
                                 /\ LowerCase(Meaning[i].val) = Json
ExactJson == \E i \in DOMAIN Meaning : Meaning[i] = [key |-> ContentType, val |-> Json]
CompleteStop == Calls("POST", {"stop"}) /\ Sent("pid", Numbers) /\ ExactJson
CompleteInput ==
    Calls("POST", {"input"}) /\ Sent("pid", Numbers) /\ ExactJson /\ SentBody("stdin")
CompleteProgram == Calls("GET", {"program"}) /\ Sent("pid", Numbers)
Complete ==
    /\ WellFormed /\ CleanHeader
    /\ CleanQuery /\ Cardinality(Starts) <= MaxParameters
    /\ \A i, j \in DOMAIN Meaning :
          LowerCase(Meaning[i].key) = LowerCase(Meaning[j].key) => i = j

\* A client reads what is wrong off the status line, and the body behind the
\* first empty line.
Seen ==
    LET w == http_response_stringify(response)
        blank == First({i \in 1 .. Len(w) - 1 : w[i] = "CRLF" /\ w[i + 1] = "CRLF"})
    IN  [reason |-> w[2], body |-> SubSeq(w, blank + 2, Len(w))]

(* A request that has everything the API asks for is parsed, routed and    *)
(* answered with 200, unless the operation that it asks for says otherwise *)
(* itself (500, 204 and 400 for a program that is gone); in whatever order *)
(* its headers and parameters come, and for /run in whatever case they are *)
(* written (/stop and /input compare Content-Type as it is).  There are    *)
(* two ways to get no answer: a program is stopped before it got its first *)
(* input (main.c:292), and the call into service.c ends the server, as     *)
(* passing input does by SIGPIPE (ProcessTable).  Nothing in the request,  *)
(* and nothing in what else main.c, http.c and runner.c do, is another.    *)
CompleteAnswered ==
    stage \in Final \cup {"NULL"} /\ Complete =>
        /\ CompleteRun => \/ stage = "answered" /\ Seen.reason \in {"OK", "Internal Server Error"}
                          \/ fault \in {"assert pass_input", "service"}
        /\ CompleteStop \/ CompleteInput =>
              \/ stage = "answered" /\ Seen.reason = "OK"
              \/ fault = "service"
        /\ CompleteProgram =>
              \/ /\ stage = "answered"
                 /\ Seen.reason \in {"OK", "No Content"} \/ Seen.body = <<"Invalid parameter: pid">>
              \/ fault = "service"

(* A client that is told of an error does not own a running program.       *)
ErrorStartsNothing ==
    stage = "answered" /\ Seen.reason \notin {"OK", "No Content"} => ~started

(* A source file outlives a request that started no program only if the    *)
(* compiler is unknown or build_and_run failed (main.c:247, 275).          *)
LeftoverFileExplained ==
    stage = "answered" /\ file /\ ~started =>
        \/ Parameter("compiler_type") \notin {<<"gcc">>, <<"clang">>}
        \/ Seen.body = <<"Failed to build and run program">>

(* http.h:153 calls headers case-insensitive: then no request is refused   *)
(* for want of a Content-Type that it has under a name in another case.    *)
(* /stop and /input do refuse it, /run takes it (main.c:96, 370, 439).     *)
NamesIgnoreCase ==
    /\ stage = "answered" /\ CleanHeader
    /\ response.body = <<"Content-Type must be application/json">>
    => \A i \in DOMAIN Meaning :
          LowerCase(Meaning[i].key) = LowerCase(ContentType) => Meaning[i].val # Json
=============================================================================
