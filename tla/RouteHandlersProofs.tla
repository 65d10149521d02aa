------------------------- MODULE RouteHandlersProofs -------------------------
(***************************************************************************)
(* Proofs about RouteHandlers, and with it about HttpRequest: whatever     *)
(* text is parsed, the lists that are made of it fit, and what a client    *)
(* reads off its answer agrees with what was done: it is told of an error  *)
(* only if no program runs for it, and if a source file is left the answer *)
(* tells why.  Of a text that is in order the headers and the query arrive *)
(* as they were sent, and a request that has all it needs is served.       *)
(***************************************************************************)
EXTENDS RouteHandlers, UtilityProofs

Compilers == {<<"gcc">>, <<"clang">>}
BuildFailed == [status |-> 500, headers |-> JsonCors,
                body |-> <<"Failed to build and run program">>]

\* A sequence of whatever it may be of.
IsSeq(s) == \E S : s \in Seq(S)

\* The headers an answer may have.
Icon == [key |-> ContentType, val |-> <<"image/x-icon">>]
HeaderLists == {<<>>, Cors, JsonCors, Append(Cors, Icon)}
Codes == {200, 204, 400, 404, 500}

\* The type invariant, in what the parser has and what the callbacks have.
ParserType ==
    /\ stage \in Parsing \cup {"NULL", "parsed"} \cup HandlerStages \cup Final
    /\ request.method \in Methods \cup {"UNKNOWN"}
    /\ request.version \in Versions \cup {"UNKNOWN"}
    /\ pos \in 1 .. Len(header) + 1 /\ key.stat \in {"none", "key"}
    /\ Fits(headers) /\ Len(params) <= MaxParameters
Callbacks == {"none", "run", "stop", "input", "program"}
Faults == {"none", "assert language", "null source_code", "assert pass_input",
           "null stdin", "null pid", "service"}
Statuses == {0, 200, 204, 400, 404, 500}
HandlerType ==
    /\ callback \in Callbacks /\ fault \in Faults
    /\ file \in BOOLEAN /\ started \in BOOLEAN
    /\ response.status \in Statuses

\* What the parser has: the header lines are a part of the text, and there is
\* room for a header as long as one is expected.
ParserInv ==
    /\ text \in Seq(STRING) /\ header \in Seq(STRING)
    /\ \E S : headers \in [items : Seq(S), capacity : Nat]
    /\ stage \in {"start", "headers", "value"} => headers.capacity # 0
    /\ \E S : params \in Seq(S)
    /\ stage = "start" => pos = 1

\* What the callbacks have done at each stage.  The source file of a request
\* that started nothing is there while it is compiled, and afterwards only if
\* the compiler is unknown or build_and_run failed, or if the server has ended.
WorkInv ==
    /\ started => stage \in {"pass input", "fault"}
                  \/ (stage = "answered" /\ response.status = 200)
    /\ file => \/ started \/ stage \in {"compile", "fault"}
               \/ /\ stage = "answered"
                  /\ Parameter("compiler_type") \notin Compilers \/ response = BuildFailed

\* An answer can be written: its headers are some of those in the code.
AnswerInv ==
    stage = "answered" => /\ response.status \in Codes /\ response.headers \in HeaderLists
                          /\ IsSeq(response.body)

HandlersInv ==
    /\ ParserType /\ HandlerType
    /\ ParserInv
    /\ WorkInv
    /\ AnswerInv

-----------------------------------------------------------------------------
(* The parser *)

\* The header lines are between the start line and the empty line.
LEMMA HeaderType ==
    ASSUME text \in Seq(STRING), WellFormed
    PROVE  SubSeq(text, EndOfLine + 1, BlankLine) \in Seq(STRING)
<1> DEFINE B == {i \in EndOfLine + 1 .. Len(text) - 1 :
                 text[i] = "CRLF" /\ text[i + 1] = "CRLF"}
<1>1. EndOfLine \in 0..Len(text) /\ Len(text) \in Nat
  BY FindRange DEF EndOfLine
<1>2. B \in SUBSET Nat
  BY <1>1
<1>3. BlankLine = IF B = {} THEN 0 ELSE Min(B)
  BY DEF BlankLine, First
<1>4. B # {}
  BY <1>3 DEF WellFormed
<1>5. Min(B) \in B
  <2> HIDE DEF B
  <2> QED
    BY <1>2, <1>4, MinFacts
<1>6. BlankLine \in 0..Len(text)
  BY <1>1, <1>3, <1>4, <1>5
<1>7. EndOfLine + 1 \in Nat \ {0}
  BY <1>1
<1> QED
  BY <1>6, <1>7, PartType

\* What a step of the parser leaves behind, whatever the callbacks have.
LEMMA StartLineKeeps ==
    ASSUME ParserType, ParserInv, ParseStartLine
    PROVE  ParserType' /\ ParserInv'
<1>1. /\ header' = SubSeq(text, EndOfLine + 1, BlankLine) /\ WellFormed
      /\ stage = "start" /\ stage' = "headers"
      /\ UNCHANGED <<text, pos, key, headers, params>>
  BY Zenon DEF ParseStartLine
<1>2. /\ request'.method \in Methods \cup {"UNKNOWN"}
      /\ request'.version \in Versions \cup {"UNKNOWN"}
  <2>1. \A S, s : Known(S, s) \in S \cup {"UNKNOWN"}
    BY DEF Known
  <2>2. \E s, t : request'.method = Known(Methods, s) /\ request'.version = Known(Versions, t)
    BY DEF ParseStartLine, parse_http_method, parse_http_version
  <2> QED
    BY <2>1, <2>2
<1>3. header' \in Seq(STRING)
  BY <1>1, HeaderType DEF ParserInv
<1>4. pos' \in 1 .. Len(header') + 1
  <2>1. pos' = 1 /\ Len(header') \in Nat
    BY <1>1, <1>3 DEF ParserInv
  <2> QED
    BY <2>1
<1>5. stage' \in Parsing /\ stage' # "start"
  BY <1>1 DEF Parsing
<1>6. ParserType'
  BY <1>1, <1>2, <1>4, <1>5 DEF ParserType
<1>7. ParserInv'
  BY <1>1, <1>3, <1>5 DEF ParserInv
<1> QED
  BY <1>6, <1>7

\* The end of a list, and a text without the lines of a request.
LEMMA EndKeeps ==
    ASSUME ParserType, ParserInv, RefuseStartLine \/ EndHeaders \/ EndQuery
    PROVE  ParserType' /\ ParserInv'
<1>1. /\ stage' \in {"NULL", "query", "parsed"}
      /\ UNCHANGED <<text, request, header, query, pos, key, headers, params>>
  BY DEF RefuseStartLine, EndHeaders, EndQuery, lines
<1>2. stage' \in Parsing \cup {"NULL", "parsed"} /\ stage' \notin {"start", "headers", "value"}
  BY <1>1 DEF Parsing
<1>3. ParserType'
  BY <1>1, <1>2 DEF ParserType
<1>4. ParserInv'
  BY <1>1, <1>2 DEF ParserInv
<1> QED
  BY <1>3, <1>4

\* A list that was destructed has no items.
LEMMA FailureKeeps ==
    ASSUME ParserType, ParserInv, NEW r, ParseFailure(r), UNCHANGED <<lines, params>>
    PROVE  ParserType' /\ ParserInv'
<1>1. /\ stage' \in {"outside", "query"} /\ headers' \in {headers, Destructed}
      /\ UNCHANGED <<text, request, header, query, pos, key, params>>
  BY DEF ParseFailure, lines
<1>2. stage' \in Parsing \cup Final /\ stage' \notin {"start", "headers", "value"}
  BY <1>1 DEF Parsing, Final
<1>3. Fits(Destructed) /\ \E S : Destructed \in [items : Seq(S), capacity : Nat]
  BY EmptyListed DEF Destructed
<1>4. Fits(headers') /\ \E S : headers' \in [items : Seq(S), capacity : Nat]
  BY <1>1, <1>3 DEF ParserType, ParserInv
<1>5. ParserType'
  BY <1>1, <1>2, <1>4 DEF ParserType
<1>6. ParserInv'
  BY <1>1, <1>2, <1>4 DEF ParserInv
<1> QED
  BY <1>5, <1>6

\* A key is read, or the headers are given up.
LEMMA KeyKeeps ==
    ASSUME ParserType, ParserInv, ParseHeaderKey
    PROVE  ParserType' /\ ParserInv'
<1>1. stage = "headers" /\ UNCHANGED <<lines, params>>
  BY DEF ParseHeaderKey
<1>2. PICK r : IF r.stat = "key" THEN stage' = "value" /\ key' = r /\ UNCHANGED <<pos, headers>>
               ELSE ParseFailure(r)
  BY DEF ParseHeaderKey
<1>3. CASE r.stat = "key"
  <2>1. /\ stage' = "value" /\ key'.stat = "key"
        /\ UNCHANGED <<text, request, header, query, pos, headers, params>>
    BY <1>1, <1>2, <1>3 DEF lines
  <2>2. stage' \in Parsing
    BY <2>1 DEF Parsing
  <2>3. ParserType'
    BY <2>1, <2>2 DEF ParserType
  <2>4. ParserInv'
    BY <1>1, <2>1 DEF ParserInv
  <2> QED
    BY <2>3, <2>4
<1>4. CASE r.stat # "key"
  BY <1>1, <1>2, <1>4, FailureKeeps
<1> QED
  BY <1>3, <1>4

\* A header goes into the list, or the headers are given up.
LEMMA ValueKeeps ==
    ASSUME ParserType, ParserInv, ParseHeaderValue
    PROVE  ParserType' /\ ParserInv'
<1>1. stage = "value" /\ UNCHANGED <<lines, params>>
  BY DEF ParseHeaderValue
<1>2. PICK r : IF r.stat = "value"
               THEN /\ stage' = "headers"
                    /\ headers' = Push(headers, [key |-> key.string, val |-> r.val])
                    /\ pos' = LineEnd + 1 /\ key' = NoKey
               ELSE ParseFailure(r)
  BY DEF ParseHeaderValue
<1>3. CASE r.stat = "value"
  <2>1. /\ stage' = "headers" /\ pos' = LineEnd + 1 /\ key' = NoKey
        /\ headers' = Push(headers, [key |-> key.string, val |-> r.val])
        /\ UNCHANGED <<text, request, header, query, params>>
    BY <1>1, <1>2, <1>3 DEF lines
  <2>2. /\ \E S : headers' \in [items : Seq(S), capacity : Nat]
        /\ Fits(headers') /\ headers'.capacity # 0
    BY <1>1, <2>1, PushKeeps DEF ParserType, ParserInv
  <2>3. LineEnd + 1 \in 1 .. Len(header) + 1
    <3>1. Len(header) \in Nat /\ pos \in Nat
      BY DEF ParserType, ParserInv
    <3>2. LineEnd \in 0..Len(header)
      BY <3>1, FindRange DEF LineEnd, ParserInv
    <3> QED
      BY <3>1, <3>2
  <2>4. stage' \in Parsing /\ key'.stat = "none"
    BY <2>1 DEF Parsing, NoKey
  <2>5. ParserType'
    BY <2>1, <2>2, <2>3, <2>4 DEF ParserType
  <2>6. ParserInv'
    BY <2>1, <2>2 DEF ParserInv
  <2> QED
    BY <2>5, <2>6
<1>4. CASE r.stat # "value"
  BY <1>1, <1>2, <1>4, FailureKeeps
<1> QED
  BY <1>3, <1>4

\* A parameter goes into the list, or the list is given up.
LEMMA InsertKeeps ==
    ASSUME ParserType, ParserInv, InsertParameter
    PROVE  ParserType' /\ ParserInv'
<1>1. /\ stage' \in {"query", "parsed"}
      /\ UNCHANGED <<text, request, header, pos, key, headers>>
  BY DEF InsertParameter
<1>2. \/ params' = NoParameters
      \/ Len(params) < MaxParameters /\ \E p : params' = Append(params, p)
  BY DEF InsertParameter
<1>3. MaxParameters \in Nat /\ MaxParameters # 0
  BY RequestAssumption
<1>4. (\E S : params' \in Seq(S)) /\ Len(params') <= MaxParameters
  <2>1. CASE params' = NoParameters
    <3>1. <<>> \in Seq({}) /\ Len(<<>>) = 0
      OBVIOUS
    <3> QED
      BY <1>3, <2>1, <3>1 DEF NoParameters
  <2>2. ASSUME NEW p, params' = Append(params, p), Len(params) < MaxParameters
        PROVE  (\E S : params' \in Seq(S)) /\ Len(params') <= MaxParameters
    <3>1. PICK S : params \in Seq(S)
      BY DEF ParserInv
    <3> DEFINE T == S \cup {p}
    <3>2. params \in Seq(T) /\ p \in T
      BY <3>1
    <3> HIDE DEF T
    <3>3. Append(params, p) \in Seq(T) /\ Len(Append(params, p)) = Len(params) + 1
          /\ Len(params) \in Nat
      BY <3>2, AppendFacts
    <3> QED
      BY <1>3, <2>2, <3>3
  <2> QED
    BY <1>2, <2>1, <2>2
<1>5. stage' \in Parsing \cup {"NULL", "parsed"} /\ stage' \notin {"start", "headers", "value"}
  BY <1>1 DEF Parsing
<1>6. ParserType'
  BY <1>1, <1>4, <1>5 DEF ParserType
<1>7. ParserInv'
  BY <1>1, <1>4, <1>5 DEF ParserInv
<1> QED
  BY <1>6, <1>7

-----------------------------------------------------------------------------
(* The callbacks *)

\* The type invariant follows from both parts of it.
LEMMA TypeSplit ==
    ASSUME ParserType, HandlerType
    PROVE  TypeOK
<1>1. {file, started} \subseteq BOOLEAN
  BY Zenon DEF HandlerType
<1>2. /\ callback \in {"none", "run", "stop", "input", "program"}
      /\ fault \in {"none", "assert language", "null source_code", "assert pass_input",
                   "null stdin", "null pid", "service"}
      /\ response.status \in {0, 200, 204, 400, 404, 500}
  BY DEF HandlerType, Callbacks, Faults, Statuses
<1> QED
  BY <1>1, <1>2, Zenon DEF TypeOK, ParserType

\* Each step of the parser is one of the above; nothing was started before it.
LEMMA ParserKeeps ==
    ASSUME HandlersInv, ParserStep, UNCHANGED handlerVars
    PROVE  HandlersInv'
<1>1. ParserType' /\ ParserInv'
  <2>1. CASE ParseStartLine
    BY <2>1, StartLineKeeps DEF HandlersInv
  <2>2. CASE RefuseStartLine \/ EndHeaders \/ EndQuery
    BY <2>2, EndKeeps DEF HandlersInv
  <2>3. CASE ParseHeaderKey
    BY <2>3, KeyKeeps DEF HandlersInv
  <2>4. CASE ParseHeaderValue
    BY <2>4, ValueKeeps DEF HandlersInv
  <2>5. CASE InsertParameter
    BY <2>5, InsertKeeps DEF HandlersInv
  <2> QED
    BY <2>1, <2>2, <2>3, <2>4, <2>5 DEF ParserStep
<1>2. stage \in Parsing
  BY DEF ParserStep, ParseStartLine, RefuseStartLine, ParseHeaderKey, ParseHeaderValue,
         EndHeaders, InsertParameter, EndQuery, Parsing
<1>3. ~file /\ ~started
  BY <1>2 DEF HandlersInv, WorkInv, HandlerType, Parsing
<1>4. stage' # "answered"
  <2>1. stage' \in {"headers", "NULL", "query", "value", "outside", "parsed"}
    BY DEF ParserStep, ParseStartLine, RefuseStartLine, ParseHeaderKey, ParseHeaderValue,
           ParseFailure, EndHeaders, InsertParameter, EndQuery
  <2> QED
    BY <2>1
<1>5. HandlerType'
  <2>1. /\ callback' = callback /\ file' = file /\ started' = started
        /\ fault' = fault /\ response' = response
    BY DEF handlerVars
  <2> QED
    BY <2>1, Zenon DEF HandlersInv, HandlerType
<1>6. WorkInv' /\ AnswerInv'
  BY <1>3, <1>4 DEF WorkInv, AnswerInv, handlerVars
<1> QED
  BY <1>1, <1>5, <1>6 DEF HandlersInv

\* A callback leaves alone what was parsed.
LEMMA RestKeeps ==
    ASSUME HandlersInv, NEW where \in HandlerStages \cup Final, Goto(where)
    PROVE  /\ ParserType' /\ ParserInv' /\ stage' = where
           /\ Parameter("compiler_type")' = Parameter("compiler_type")
<1>1. stage' = where /\ UNCHANGED <<text, request, header, query, pos, key, headers, params>>
  BY DEF Goto, lines
<1>2. where \notin {"start", "headers", "value"}
  BY DEF HandlerStages, Final
<1>3. ParserType'
  BY <1>1 DEF HandlersInv, ParserType
<1>4. ParserInv'
  BY <1>1, <1>2 DEF HandlersInv, ParserInv
<1>5. Parameter("compiler_type")' = Parameter("compiler_type")
  BY <1>1 DEF Parameter, find_query_parameter, SelectInSeq, SelectInSubSeq
<1> QED
  BY <1>1, <1>3, <1>4, <1>5

\* An answer of the code is one that can be written.
LEMMA AnswerKeeps ==
    ASSUME HandlersInv, NEW status \in Codes, NEW hs \in HeaderLists, NEW body,
           IsSeq(body), Answer(status, hs, body)
    PROVE  /\ ParserType' /\ ParserInv' /\ AnswerInv' /\ stage' = "answered"
           /\ response' = [status |-> status, headers |-> hs, body |-> body]
           /\ UNCHANGED <<callback, fault>>
           /\ Parameter("compiler_type")' = Parameter("compiler_type")
<1>1. "answered" \in HandlerStages \cup Final /\ Goto("answered")
  BY DEF Answer, Final
<1>2. ParserType' /\ ParserInv' /\ stage' = "answered"
      /\ Parameter("compiler_type")' = Parameter("compiler_type")
  BY <1>1, RestKeeps
<1>3. response' = [status |-> status, headers |-> hs, body |-> body]
      /\ UNCHANGED <<callback, fault>>
  BY DEF Answer
<1>4. response'.status = status /\ response'.headers = hs /\ response'.body = body
  BY <1>3
<1>5. AnswerInv'
  BY <1>4 DEF AnswerInv
<1> QED
  BY <1>2, <1>3, <1>5

\* A body that is made of up to three words is a sequence.
LEMMA TupleIsSeq ==
    ASSUME NEW a, NEW b, NEW c
    PROVE  IsSeq(<<>>) /\ IsSeq(<<a>>) /\ IsSeq(<<a, b>>) /\ IsSeq(<<a, b, c>>)
<1> DEFINE S == {a, b, c}
<1>1. a \in S /\ b \in S /\ c \in S
  OBVIOUS
<1> HIDE DEF S
<1>2. <<>> \in Seq(S) /\ <<a>> \in Seq(S) /\ <<a, b>> \in Seq(S) /\ <<a, b, c>> \in Seq(S)
  BY <1>1
<1> QED
  BY <1>2 DEF IsSeq

\* What an answer that starts nothing and leaves no file does to the invariant.
LEMMA PlainAnswer ==
    ASSUME HandlersInv, NEW status \in Codes, NEW hs \in HeaderLists, NEW body,
           IsSeq(body), Answer(status, hs, body),
           file' = FALSE, started' = FALSE
    PROVE  HandlersInv'
<1>1. /\ ParserType' /\ ParserInv' /\ AnswerInv' /\ stage' = "answered"
      /\ response' = [status |-> status, headers |-> hs, body |-> body]
      /\ callback' = callback /\ fault' = fault
  BY AnswerKeeps
<1>2. file' \in BOOLEAN /\ started' \in BOOLEAN
  OBVIOUS
<1>3. response'.status \in Statuses
  <2>1. response'.status = status
    BY <1>1
  <2> QED
    BY <2>1 DEF Codes, Statuses
<1>4. HandlerType'
  BY <1>1, <1>2, <1>3, Zenon DEF HandlersInv, HandlerType
<1>5. WorkInv'
  BY DEF WorkInv
<1> QED
  BY <1>1, <1>4, <1>5 DEF HandlersInv

\* A route that is found is one of the routes.
LEMMA RouteRange ==
    ASSUME NEW path, NEW method, find_route(path, method) # 0
    PROVE  find_route(path, method) \in 1..Len(Routes)
<1> DEFINE Fitting(i) == Routes[i].method = method /\ url_path_cmp(path, Routes[i].path)
           I == {i \in 1..Len(Routes) : Fitting(i)}
<1>1. find_route(path, method) = IF I # {} THEN Min(I) ELSE 0
  BY DEF find_route, SelectInSeq, SelectInSubSeq
<1>2. Len(Routes) = 6
  BY DEF Routes
<1> HIDE DEF Fitting
<1>3. I \in SUBSET Nat /\ I \subseteq 1..Len(Routes)
  BY <1>2
<1> HIDE DEF I
<1>4. I # {} => Min(I) \in I
  BY <1>3, MinFacts
<1> QED
  BY <1>1, <1>3, <1>4

\* Each of the callbacks keeps the invariant.  Only PassInput answers when a
\* program runs, and with 200; only a request whose file is compiled leaves it.
LEMMA CallbackKeeps ==
    ASSUME HandlersInv, HandlerStep
    PROVE  HandlersInv'
<1>1. /\ 200 \in Codes /\ 204 \in Codes /\ 400 \in Codes /\ 404 \in Codes /\ 500 \in Codes
      /\ <<>> \in HeaderLists /\ Cors \in HeaderLists /\ JsonCors \in HeaderLists
      /\ Append(Cors, Icon) \in HeaderLists
  BY DEF Codes, HeaderLists
<1> DEFINE Later == HandlerStages \cup Final
<1>0. /\ "called" \in Later /\ "execute" \in Later /\ "compile" \in Later
      /\ "pass input" \in Later /\ "fault" \in Later
  BY DEF HandlerStages, Final
<1>2. file \in BOOLEAN /\ started \in BOOLEAN
  BY DEF HandlersInv, HandlerType
<1>3. stage \in {"NULL", "parsed", "called", "execute"} => file = FALSE /\ started = FALSE
  BY <1>2 DEF HandlersInv, WorkInv
<1>4. stage = "compile" => started = FALSE
  BY <1>2 DEF HandlersInv, WorkInv
<1>5. /\ IsSeq(<<>>)
      /\ \A a : IsSeq(<<a>>)
      /\ \A a, b : IsSeq(<<a, b>>)
      /\ \A a, b, c : IsSeq(<<a, b, c>>)
  BY TupleIsSeq, Zenon
<1>6. ASSUME NEW where \in {"called", "execute"}, Goto(where),
             callback' \in Callbacks, UNCHANGED <<file, started, fault, response>>,
             file = FALSE, started = FALSE
      PROVE  HandlersInv'
  <2>1. ParserType' /\ ParserInv' /\ stage' = where
    BY <1>0, <1>6, RestKeeps
  <2>2. /\ file' = FALSE /\ started' = FALSE /\ stage' # "answered"
        /\ fault' = fault /\ response' = response
    BY <1>6, <2>1
  <2>3. HandlerType'
    BY <1>6, <2>2, Zenon DEF HandlersInv, HandlerType
  <2>4. WorkInv' /\ AnswerInv'
    BY <2>2 DEF WorkInv, AnswerInv
  <2> QED
    BY <2>1, <2>3, <2>4 DEF HandlersInv
<1>7. ASSUME NEW what \in Faults, Stop(what), file' \in BOOLEAN, started' = started
      PROVE  HandlersInv'
  <2>1. Goto("fault") /\ fault' = what /\ callback' = callback /\ response' = response
    BY <1>7 DEF Stop
  <2>2. ParserType' /\ ParserInv' /\ stage' = "fault"
    BY <1>0, <2>1, RestKeeps
  <2>3. HandlerType'
    BY <1>7, <2>1, Zenon DEF HandlersInv, HandlerType
  <2>4. WorkInv' /\ AnswerInv'
    BY <1>7, <2>2 DEF WorkInv, AnswerInv
  <2> QED
    BY <2>2, <2>3, <2>4 DEF HandlersInv
<1>8. ASSUME AnswerNull \/ AnswerOptions \/ AnswerStatic \/ Call PROVE HandlersInv'
  <2>1. file = FALSE /\ started = FALSE
    BY <1>3, <1>8 DEF AnswerNull, AnswerOptions, AnswerStatic, Call
  <2>2. CASE AnswerNull \/ AnswerOptions
    <3>1. /\ Answer(500, Cors, <<>>) \/ Answer(204, Cors, <<>>)
          /\ file' = FALSE /\ started' = FALSE
      BY <2>1, <2>2 DEF AnswerNull, AnswerOptions, Quiet
    <3>2. IsSeq(<<>>) /\ 500 \in Codes /\ 204 \in Codes /\ Cors \in HeaderLists
      BY <1>1, <1>5
    <3>3. CASE Answer(500, Cors, <<>>)
      BY <3>1, <3>2, <3>3, PlainAnswer, Zenon
    <3>4. CASE Answer(204, Cors, <<>>)
      BY <3>1, <3>2, <3>4, PlainAnswer, Zenon
    <3> QED
      BY <3>1, <3>3, <3>4
  <2>3. CASE AnswerStatic
    <3>1. PICK r \in get_static_file :
             Answer(r.status,
                    IF request.path = <<"/", "favicon.ico">> THEN Append(r.headers, Icon)
                    ELSE r.headers,
                    r.body)
      BY <2>3 DEF AnswerStatic, Icon
    <3>2. /\ r.status \in {200, 404} /\ r.headers = Cors
          /\ r.body = <<"file">> \/ r.body = <<>>
      BY DEF get_static_file
    <3>3. IsSeq(r.body)
      <4>1. IsSeq(<<"file">>) /\ IsSeq(<<>>)
        BY <1>5
      <4> QED
        BY <3>2, <4>1
    <3>4. /\ Append(r.headers, Icon) \in HeaderLists /\ r.headers \in HeaderLists
          /\ r.status \in Codes
      BY <1>1, <3>2
    <3>5. file' = FALSE /\ started' = FALSE
      BY <2>1, <2>3 DEF AnswerStatic, Quiet
    <3> QED
      BY <3>1, <3>3, <3>4, <3>5, PlainAnswer
  <2>4. CASE Call
    <3>1. Goto("called") /\ UNCHANGED <<file, started, fault, response>>
      BY <2>4 DEF Call
    <3>2. callback' \in Callbacks
      <4>1. PICK r : r = find_route(request.path, request.method)
        OBVIOUS
      <4>2. r # 0 /\ callback' = Routes[r].callback
        BY <2>4, <4>1 DEF Call
      <4>3. r \in 1..Len(Routes)
        BY <4>1, <4>2, RouteRange
      <4>4. \A i \in 1..6 : Routes[i].callback \in Callbacks
        BY DEF Routes, Callbacks
      <4>5. Len(Routes) = 6
        BY DEF Routes
      <4> QED
        BY <4>2, <4>3, <4>4, <4>5
    <3> QED
      BY <1>6, <2>1, <3>1, <3>2
  <2> QED
    BY <1>8, <2>2, <2>3, <2>4
<1>9. ASSUME Validate PROVE HandlersInv'
  <2>1. /\ stage = "called" /\ file = FALSE /\ started = FALSE
        /\ file' = FALSE /\ started' = FALSE
    BY <1>3, <1>9 DEF Validate, Quiet
  <2>2. \/ Answer(400, <<>>, <<Refusal>>)
        \/ Stop("null source_code")
        \/ Goto("execute") /\ UNCHANGED <<callback, fault, response>>
    BY <1>9 DEF Validate
  <2>3. CASE Answer(400, <<>>, <<Refusal>>)
    <3> HIDE DEF Refusal
    <3> QED
      BY <1>1, <1>5, <2>1, <2>3, PlainAnswer, Zenon
  <2>4. CASE Stop("null source_code")
    <3>1. "null source_code" \in Faults
      BY DEF Faults
    <3> QED
      BY <1>7, <2>1, <2>4, <3>1
  <2>5. CASE Goto("execute") /\ UNCHANGED <<callback, fault, response>>
    <3>1. callback' \in Callbacks
      BY <2>5 DEF HandlersInv, HandlerType
    <3> QED
      BY <1>6, <2>1, <2>5, <3>1
  <2> QED
    BY <2>2, <2>3, <2>4, <2>5
<1>10. ASSUME CreateFile PROVE HandlersInv'
  <2>1. /\ stage = "execute" /\ file = FALSE /\ started = FALSE /\ started' = FALSE
    BY <1>3, <1>10 DEF CreateFile
  <2>2. \/ Stop("assert language") /\ file' = FALSE
        \/ Answer(500, JsonCors, <<"Failed to create source code file">>) /\ file' = FALSE
        \/ Answer(500, JsonCors, <<"Failed to write source code to file">>) /\ file' = FALSE
        \/ Goto("compile") /\ file' = TRUE /\ UNCHANGED <<callback, fault, response>>
    BY <1>10, <2>1 DEF CreateFile
  <2>3. CASE Stop("assert language") /\ file' = FALSE
    <3>1. "assert language" \in Faults
      BY DEF Faults
    <3> QED
      BY <1>7, <2>1, <2>3, <3>1
  <2>4. ASSUME NEW why, Answer(500, JsonCors, <<why>>), file' = FALSE PROVE HandlersInv'
    <3>1. IsSeq(<<why>>) /\ 500 \in Codes /\ JsonCors \in HeaderLists
      BY <1>1, <1>5
    <3> QED
      BY <2>1, <2>4, <3>1, PlainAnswer, Zenon
  <2>5. CASE Goto("compile") /\ file' = TRUE /\ UNCHANGED <<callback, fault, response>>
    <3>1. ParserType' /\ ParserInv' /\ stage' = "compile"
      BY <1>0, <2>5, RestKeeps
    <3>2. /\ callback' = callback /\ fault' = fault /\ response' = response
          /\ file' \in BOOLEAN /\ started' \in BOOLEAN
      BY <2>1, <2>5
    <3>3. HandlerType'
      BY <3>2, Zenon DEF HandlersInv, HandlerType
    <3>4. WorkInv' /\ AnswerInv'
      BY <2>1, <3>1 DEF WorkInv, AnswerInv
    <3> QED
      BY <3>1, <3>3, <3>4 DEF HandlersInv
  <2> QED
    BY <2>2, <2>3, <2>4, <2>5
<1>11. ASSUME Compile PROVE HandlersInv'
  <2>1. stage = "compile" /\ started = FALSE /\ file' = file
    BY <1>4, <1>11 DEF Compile
  <2> DEFINE Ran(status, why) == Parameter("compiler_type") \notin Compilers
                                 \/ (status = 500 /\ why = "Failed to build and run program")
  <2>2. \/ /\ Parameter("compiler_type") \notin Compilers
           /\ Answer(400, JsonCors, <<"Invalid compiler type specified">>) /\ started' = FALSE
        \/ Answer(500, JsonCors, <<"Failed to build and run program">>) /\ started' = FALSE
        \/ Goto("pass input") /\ started' = TRUE /\ UNCHANGED <<callback, fault, response>>
        \/ Stop("service") /\ started' = started
    <3> HIDE DEF Parameter
    <3> QED
      BY <1>11, <2>1 DEF Compile, Compilers
  <2>3. ASSUME NEW status \in Codes, NEW why, started' = FALSE,
               Answer(status, JsonCors, <<why>>),
               Ran(status, why)
        PROVE  HandlersInv'
    <3>1. /\ ParserType' /\ ParserInv' /\ AnswerInv' /\ stage' = "answered"
          /\ response' = [status |-> status, headers |-> JsonCors, body |-> <<why>>]
          /\ callback' = callback /\ fault' = fault
          /\ Parameter("compiler_type")' = Parameter("compiler_type")
      BY <1>1, <1>5, <2>3, AnswerKeeps
    <3>2. response'.status \in Statuses
      <4>1. status \in Statuses
        BY DEF Codes, Statuses
      <4> QED
        BY <3>1, <4>1
    <3>3. file' \in BOOLEAN /\ started' \in BOOLEAN
      BY <1>2, <2>1, <2>3
    <3>4. HandlerType'
      BY <3>1, <3>2, <3>3, Zenon DEF HandlersInv, HandlerType
    <3>5. Parameter("compiler_type")' \notin Compilers \/ response' = BuildFailed
      BY <2>3, <3>1, Zenon DEF BuildFailed
    <3>6. WorkInv'
      BY <2>3, <3>1, <3>5 DEF WorkInv
    <3> QED
      BY <3>1, <3>4, <3>6 DEF HandlersInv
  <2>4. CASE Goto("pass input") /\ started' = TRUE /\ UNCHANGED <<callback, fault, response>>
    <3>1. ParserType' /\ ParserInv' /\ stage' = "pass input"
      BY <1>0, <2>4, RestKeeps
    <3>2. /\ callback' = callback /\ fault' = fault /\ response' = response
          /\ file' \in BOOLEAN /\ started' \in BOOLEAN
      BY <1>2, <2>1, <2>4
    <3>3. HandlerType'
      BY <3>2, Zenon DEF HandlersInv, HandlerType
    <3>4. WorkInv' /\ AnswerInv'
      BY <2>4, <3>1 DEF WorkInv, AnswerInv
    <3> QED
      BY <3>1, <3>3, <3>4 DEF HandlersInv
  <2>5. ASSUME Ran(400, "Invalid compiler type specified"), started' = FALSE,
               Answer(400, JsonCors, <<"Invalid compiler type specified">>)
        PROVE  HandlersInv'
    <3> HIDE DEF Ran
    <3> QED
      BY <1>1, <2>3, <2>5, Zenon
  <2>6. ASSUME Ran(500, "Failed to build and run program"), started' = FALSE,
               Answer(500, JsonCors, <<"Failed to build and run program">>)
        PROVE  HandlersInv'
    <3> HIDE DEF Ran
    <3> QED
      BY <1>1, <2>3, <2>6, Zenon
  <2>7. CASE Stop("service") /\ started' = started
    <3>1. "service" \in Faults /\ file' \in BOOLEAN
      BY <1>2, <2>1 DEF Faults
    <3> QED
      BY <1>7, <2>7, <3>1
  <2> QED
    BY <2>2, <2>4, <2>5, <2>6, <2>7
<1>12. ASSUME PassInput PROVE HandlersInv'
  <2>1. stage = "pass input" /\ file' = file /\ started' = started
    BY <1>12 DEF PassInput, Quiet
  <2>2. file => started
    BY <2>1 DEF HandlersInv, WorkInv
  <2>3. \/ Stop("null stdin") \/ Stop("assert pass_input") \/ Stop("service")
        \/ Answer(200, JsonCors, <<"pid">>)
    BY <1>12 DEF PassInput
  <2>4. CASE Answer(200, JsonCors, <<"pid">>)
    <3>1. /\ ParserType' /\ ParserInv' /\ AnswerInv' /\ stage' = "answered"
          /\ response' = [status |-> 200, headers |-> JsonCors, body |-> <<"pid">>]
          /\ callback' = callback /\ fault' = fault
      BY <1>1, <1>5, <2>4, AnswerKeeps
    <3>2. response'.status = 200
      BY <3>1
    <3>3. response'.status \in Statuses
      BY <3>2 DEF Statuses
    <3>4. HandlerType'
      BY <2>1, <3>1, <3>3, Zenon DEF HandlersInv, HandlerType
    <3>5. WorkInv'
      BY <2>1, <2>2, <3>1, <3>2 DEF WorkInv
    <3> QED
      BY <3>1, <3>4, <3>5 DEF HandlersInv
  <2>5. {"null stdin", "assert pass_input", "service"} \subseteq Faults
    BY DEF Faults
  <2>6. file' \in BOOLEAN
    BY <1>2, <2>1
  <2> QED
    BY <1>7, <2>1, <2>3, <2>4, <2>5, <2>6
<1>13. ASSUME StopCallback \/ InputCallback \/ ProgramCallback PROVE HandlersInv'
  <2>1. /\ stage = "called" /\ file = FALSE /\ started = FALSE
        /\ file' = FALSE /\ started' = FALSE
    BY <1>3, <1>13 DEF StopCallback, InputCallback, ProgramCallback, Quiet
  <2>2. ASSUME NEW status \in Codes, NEW body, IsSeq(body),
               Answer(status, JsonCors, body)
        PROVE  HandlersInv'
    BY <1>1, <2>1, <2>2, PlainAnswer
  <2>3. ASSUME NEW what \in {"null stdin", "null pid", "service"}, Stop(what)
        PROVE  HandlersInv'
    <3>1. what \in Faults
      BY DEF Faults
    <3> QED
      BY <1>7, <2>1, <2>3, <3>1
  <2>4. /\ \A a : Answer(400, JsonCors, <<a>>) => HandlersInv'
        /\ \A a, b : Answer(200, JsonCors, <<a, b>>) => HandlersInv'
        /\ \A a, b, c : Answer(200, JsonCors, <<a, b, c>>) => HandlersInv'
        /\ Answer(204, JsonCors, <<>>) => HandlersInv'
    BY <1>1, <1>5, <2>2
  <2>5. CASE StopCallback
    <3>1. \/ NoContentType \/ NoPid \/ \E b : Answer(200, JsonCors, <<"pid", b>>)
          \/ Stop("service")
      BY <2>5, Zenon DEF StopCallback
    <3>2. NoContentType \/ NoPid => HandlersInv'
      BY <2>4 DEF NoContentType, NoPid
    <3> QED
      BY <2>3, <2>4, <3>1, <3>2
  <2>6. CASE InputCallback
    <3>1. \/ NoContentType \/ NoPid \/ \E b : Answer(200, JsonCors, <<"pid", b>>)
          \/ Stop("null pid") \/ Stop("null stdin") \/ Stop("service")
      BY <2>6, Zenon DEF InputCallback
    <3>2. NoContentType \/ NoPid => HandlersInv'
      BY <2>4 DEF NoContentType, NoPid
    <3> QED
      BY <2>3, <2>4, <3>1, <3>2
  <2>7. CASE ProgramCallback
    <3>1. \/ NoPid \/ \E b, c : Answer(200, JsonCors, <<"pid", b, c>>)
          \/ Answer(204, JsonCors, <<>>)
          \/ Answer(400, JsonCors, <<"Invalid parameter: pid">>)
          \/ Stop("service")
      BY <2>7, Zenon DEF ProgramCallback
    <3>2. NoPid => HandlersInv'
      BY <2>4 DEF NoPid
    <3> QED
      BY <2>3, <2>4, <3>1, <3>2
  <2> QED
    BY <1>13, <2>5, <2>6, <2>7
<1> QED
  BY <1>8, <1>9, <1>10, <1>11, <1>12, <1>13 DEF HandlerStep

-----------------------------------------------------------------------------
(* What a client reads *)

\* Lines that each end with CRLF, the empty line not among them.
Closed(s) ==
    /\ Len(s) \in Nat \ {0} /\ s[1] # "CRLF" /\ s[Len(s)] = "CRLF"
    /\ \A i \in 1 .. Len(s) - 1 : ~(s[i] = "CRLF" /\ s[i + 1] = "CRLF")

\* Words and the end of a line are a line.
LEMMA LineClosed ==
    ASSUME NEW S, NEW s \in Seq(S), s # <<>>, "CRLF" \notin S
    PROVE  Closed(s \o <<"CRLF">>) /\ s \o <<"CRLF">> \in Seq(S \cup {"CRLF"})
<1> DEFINE U == S \cup {"CRLF"}
           e == <<"CRLF">>
           l == s \o e
<1>1. s \in Seq(U) /\ "CRLF" \in U
  OBVIOUS
<1>2. Len(s) \in Nat \ {0} /\ \A i \in 1..Len(s) : s[i] # "CRLF"
  OBVIOUS
<1>3. e \in Seq(U) /\ Len(e) = 1 /\ e[1] = "CRLF"
  <2> HIDE DEF U
  <2> QED
    BY <1>1
<1> HIDE DEF e, U
<1>4. l \in Seq(U) /\ Len(l) = Len(s) + 1
  <2>1. l \in Seq(U) /\ Len(l) = Len(s) + Len(e)
    BY <1>1, <1>3, JoinType
  <2> QED
    BY <1>3, <2>1
<1>5. \A i \in 1..Len(s) : l[i] = s[i]
  BY <1>1, <1>3, JoinFirst
<1>6. l[Len(l)] = "CRLF"
  <2>1. \A i \in 1..Len(e), j \in Nat : j = Len(s) + i => l[j] = e[i]
    <3>1. e \in Seq(U)
      BY <1>3
    <3> QED
      BY <1>1, <3>1, JoinSecond
  <2>2. 1 \in 1..Len(e) /\ Len(l) \in Nat
    BY <1>2, <1>3, <1>4
  <2> QED
    BY <1>3, <1>4, <2>1, <2>2
<1> HIDE DEF l
<1>7. Closed(l)
  <2>1. Len(l) \in Nat \ {0} /\ 1 \in 1..Len(s)
    BY <1>2, <1>4
  <2>2. l[1] # "CRLF"
    BY <1>2, <1>5, <2>1
  <2>3. \A i \in 1 .. Len(l) - 1 : l[i] # "CRLF"
    <3>1. \A i \in 1 .. Len(l) - 1 : i \in 1..Len(s)
      BY <1>2, <1>4
    <3> QED
      BY <1>2, <1>5, <3>1
  <2> QED
    BY <1>6, <2>1, <2>2, <2>3 DEF Closed
<1> QED
  BY <1>4, <1>7 DEF l, e, U

\* Lines behind lines are lines.
LEMMA JoinClosed ==
    ASSUME NEW S, NEW s \in Seq(S), NEW t \in Seq(S), Closed(s), Closed(t)
    PROVE  Closed(s \o t) /\ s \o t \in Seq(S)
<1> DEFINE l == s \o t
<1>1. /\ l \in Seq(S) /\ Len(l) = Len(s) + Len(t)
      /\ \A i \in 1 .. Len(s) + Len(t) : l[i] = IF i <= Len(s) THEN s[i] ELSE t[i - Len(s)]
  BY ConcatProperties
<1> HIDE DEF l
<1>2. PICK m \in Nat \ {0} : m = Len(s)
  BY DEF Closed
<1>3. PICK n \in Nat \ {0} : n = Len(t)
  BY DEF Closed
<1>4. l[1] = s[1] /\ l[m + n] = t[n]
  <2>1. 1 <= m /\ 1 \in 1..m + n /\ m + n \in 1..m + n /\ ~(m + n <= m) /\ m + n - m = n
    OBVIOUS
  <2> QED
    BY <1>1, <1>2, <1>3, <2>1
<1>5. ASSUME NEW i \in 1 .. m + n - 1, l[i] = "CRLF", l[i + 1] = "CRLF"
      PROVE  FALSE
  <2>1. CASE i < m
    <3>1. i \in 1..m + n /\ i + 1 \in 1..m + n /\ i <= m /\ i + 1 <= m /\ i \in 1..m - 1
      BY <2>1
    <3>2. l[i] = s[i] /\ l[i + 1] = s[i + 1]
      BY <1>1, <1>2, <1>3, <3>1
    <3> QED
      BY <1>2, <1>5, <3>1, <3>2 DEF Closed
  <2>2. CASE i = m
    <3>1. m + 1 \in 1..m + n /\ ~(m + 1 <= m) /\ m + 1 - m = 1
      OBVIOUS
    <3>2. l[m] = s[m] /\ l[m + 1] = t[1]
      BY <1>1, <1>2, <1>3, <3>1
    <3> QED
      BY <1>5, <2>2, <3>2 DEF Closed
  <2>3. CASE i > m
    <3>1. PICK j \in 1 .. n - 1 : j = i - m
      BY <2>3
    <3>2. /\ i \in 1..m + n /\ i + 1 \in 1..m + n /\ ~(i <= m) /\ ~(i + 1 <= m)
          /\ i - m = j /\ i + 1 - m = j + 1
      BY <2>3, <3>1
    <3>3. l[i] = t[j] /\ l[i + 1] = t[j + 1]
      BY <1>1, <1>2, <1>3, <3>2
    <3> QED
      BY <1>3, <1>5, <3>1, <3>3 DEF Closed
  <2> QED
    BY <2>1, <2>2, <2>3
<1>6. Closed(l)
  <2>1. Len(l) = m + n /\ m + n \in Nat \ {0}
    BY <1>1, <1>2, <1>3
  <2>2. l[1] # "CRLF" /\ l[Len(l)] = "CRLF"
    BY <1>2, <1>3, <1>4, <2>1 DEF Closed
  <2> QED
    BY <1>5, <2>1, <2>2 DEF Closed
<1> QED
  BY <1>1, <1>6 DEF l

\* Lines put together are lines.
LEMMA FlattenClosed ==
    ASSUME NEW U, NEW s \in Seq(Seq(U)), s # <<>>, \A i \in 1..Len(s) : Closed(s[i])
    PROVE  Closed(FlattenSeq(s)) /\ FlattenSeq(s) \in Seq(U)
<1>1. Len(s) \in Nat \ {0} /\ \A i \in 1..Len(s) : s[i] \in Seq(U)
  OBVIOUS
<1>2. PICK f : /\ FlattenSeq(s) = f[Len(s)]
               /\ \A i \in 1..Len(s) : f[i] = IF i = 1 THEN s[i] ELSE f[i-1] \o s[i]
  BY FlattenSteps
<1> DEFINE Good(i) == f[i] \in Seq(U) /\ Closed(f[i])
           Bad == {i \in 1..Len(s) : ~Good(i)}
<1>3. Bad = {}
  <2> SUFFICES ASSUME Bad # {} PROVE FALSE
    OBVIOUS
  <2> HIDE DEF Good
  <2>1. PICK n \in Bad : n - 1 \notin Bad
    <3>1. 1..Len(s) \subseteq Nat
      BY <1>1
    <3>2. Bad \subseteq Nat
      BY <3>1
    <3> HIDE DEF Bad
    <3> QED
      BY <3>2, FirstOf
  <2>2. n \in 1..Len(s) /\ ~Good(n) /\ (n # 1 => n - 1 \in 1..Len(s) /\ Good(n - 1))
    BY <1>1, <2>1
  <2>3. f[n] = IF n = 1 THEN s[n] ELSE f[n-1] \o s[n]
    BY <1>2, <2>2
  <2>4. s[n] \in Seq(U) /\ Closed(s[n])
    BY <1>1, <2>2
  <2>5. CASE n = 1
    BY <2>2, <2>3, <2>4, <2>5 DEF Good
  <2>6. CASE n # 1
    <3>1. f[n - 1] \in Seq(U) /\ Closed(f[n - 1]) /\ f[n] = f[n - 1] \o s[n]
      BY <2>2, <2>3, <2>6 DEF Good
    <3> QED
      BY <2>2, <2>4, <3>1, JoinClosed DEF Good
  <2> QED
    BY <2>5, <2>6
<1>4. Good(Len(s))
  <2> HIDE DEF Good
  <2>1. Len(s) \in 1..Len(s)
    BY <1>1
  <2> QED
    BY <1>3, <2>1
<1> QED
  BY <1>2, <1>4

\* A header without CRLF in it is written as a line.
LEMMA PieceClosed ==
    ASSUME NEW S, "CRLF" \notin S, ":" \in S, " " \in S,
           NEW k \in Seq(S), k # <<>>, NEW v \in Seq(S)
    PROVE  /\ Closed(k \o <<":", " ">> \o v \o <<"CRLF">>)
           /\ k \o <<":", " ">> \o v \o <<"CRLF">> \in Seq(S \cup {"CRLF"})
<1> DEFINE c == <<":", " ">>
           l == k \o c
<1>1. c \in Seq(S)
  BY PairType
<1> HIDE DEF c
<1>2. \A x, y \in Seq(S) : x # <<>> => x \o y \in Seq(S) /\ x \o y # <<>>
  BY JoinNotEmpty
<1>3. l \in Seq(S) /\ l # <<>>
  BY <1>1, <1>2
<1> HIDE DEF l
<1>4. l \o v \in Seq(S) /\ l \o v # <<>>
  BY <1>2, <1>3
<1>5. Closed((l \o v) \o <<"CRLF">>) /\ (l \o v) \o <<"CRLF">> \in Seq(S \cup {"CRLF"})
  BY <1>4, LineClosed
<1> QED
  BY <1>5 DEF c, l

\* http_headers_stringify makes lines of headers without CRLF in them.
LEMMA HeadersClosed ==
    ASSUME NEW S, "CRLF" \notin S, ":" \in S, " " \in S, NEW items, NEW n \in Nat \ {0},
           DOMAIN items = 1..n,
           \A i \in 1..n : /\ items[i].key \in Seq(S) /\ items[i].key # <<>>
                           /\ items[i].val \in Seq(S)
    PROVE  /\ http_headers_stringify(items) \in Seq(S \cup {"CRLF"})
           /\ Closed(http_headers_stringify(items))
<1> DEFINE U == S \cup {"CRLF"}
           Piece(i) == items[i].key \o <<":", " ">> \o items[i].val \o <<"CRLF">>
           s == [i \in 1..n |-> Piece(i)]
<1>1. \A i \in 1..n : Closed(Piece(i)) /\ Piece(i) \in Seq(U)
  BY PieceClosed
<1>2. http_headers_stringify(items) = FlattenSeq(s)
  BY DEF http_headers_stringify
<1> HIDE DEF Piece, U
<1>3. s \in Seq(Seq(U)) /\ Len(s) = n /\ \A i \in 1..n : s[i] = Piece(i)
  <2> DEFINE V == Seq(U)
  <2>1. \A i \in 1..n : Piece(i) \in V
    BY <1>1
  <2> HIDE DEF V
  <2>2. s \in [1..n -> V] /\ n \in Nat
    BY <2>1
  <2>3. \A i \in 1..n : s[i] = Piece(i)
    BY Zenon
  <2> HIDE DEF s
  <2> QED
    BY <2>2, <2>3, FunctionType DEF V
<1>4. s # <<>> /\ \A i \in 1..Len(s) : Closed(s[i])
  <2> HIDE DEF s
  <2>1. Len(<<>>) = 0
    OBVIOUS
  <2> QED
    BY <1>1, <1>3, <2>1
<1> HIDE DEF s
<1>5. Closed(FlattenSeq(s)) /\ FlattenSeq(s) \in Seq(U)
  BY <1>3, <1>4, FlattenClosed
<1> QED
  BY <1>2, <1>5 DEF U

\* Lines, the empty line, and a body.
Message(a, body) == a \o <<"CRLF">> \o body
BlankAt(w) == First({i \in 1 .. Len(w) - 1 : w[i] = "CRLF" /\ w[i + 1] = "CRLF"})

\* Behind lines and the empty line that ends them is the body.
LEMMA BodyFound ==
    ASSUME NEW S, "CRLF" \in S, NEW a \in Seq(S), Closed(a), NEW body \in Seq(S), NEW w,
           w = Message(a, body)
    PROVE  /\ BlankAt(w) = Len(a)
           /\ SubSeq(w, Len(a) + 2, Len(w)) = body
           /\ \A i \in 1..Len(a) : w[i] = a[i]
<1> DEFINE e == <<"CRLF">>
           l == a \o e
           B == {i \in 1 .. Len(w) - 1 : w[i] = "CRLF" /\ w[i + 1] = "CRLF"}
<1>1. e \in Seq(S) /\ Len(e) = 1 /\ e[1] = "CRLF"
  OBVIOUS
<1>2. PICK m \in Nat \ {0} : m = Len(a)
  BY DEF Closed
<1>3. PICK n \in Nat : n = Len(body)
  OBVIOUS
<1> HIDE DEF e
<1>4. /\ l \in Seq(S) /\ Len(l) = m + 1
      /\ \A i \in 1..m : l[i] = a[i]
      /\ l[m + 1] = "CRLF"
  <2>1. m + 1 \in Nat /\ 1 \in 1..1
    OBVIOUS
  <2>2. l \in Seq(S) /\ Len(l) = Len(a) + Len(e)
    BY <1>1, JoinType
  <2>3. \A i \in 1..Len(a) : l[i] = a[i]
    BY <1>1, JoinFirst
  <2>4. \A i \in 1..Len(e), j \in Nat : j = Len(a) + i => l[j] = e[i]
    <3>1. e \in Seq(S)
      BY <1>1
    <3> QED
      BY <3>1, JoinSecond
  <2> HIDE DEF l
  <2> QED
    BY <1>1, <1>2, <2>1, <2>2, <2>3, <2>4
<1>5. /\ w \in Seq(S) /\ Len(w) = m + 1 + n
      /\ \A i \in 1 .. m + 1 : w[i] = l[i]
      /\ \A i \in 1..n : w[m + 1 + i] = body[i]
  <2>1. w = l \o body
    BY DEF Message, e
  <2> HIDE DEF l
  <2>2. w \in Seq(S) /\ Len(w) = Len(l) + Len(body)
    BY <1>4, <2>1, JoinType
  <2>3. \A i \in 1..Len(l) : w[i] = l[i]
    BY <1>4, <2>1, JoinFirst
  <2>4. \A i \in 1..Len(body), j \in Nat : j = Len(l) + i => w[j] = body[i]
    BY <1>4, <2>1, JoinSecond
  <2>5. ASSUME NEW i \in 1..n PROVE w[m + 1 + i] = body[i]
    <3>1. m + 1 + i \in Nat
      OBVIOUS
    <3> QED
      BY <1>3, <1>4, <2>4, <3>1
  <2> QED
    BY <1>3, <1>4, <2>2, <2>3, <2>5
<1> HIDE DEF l
<1>6. \A i \in 1..m : w[i] = a[i]
  <2>1. \A i \in 1..m : i \in 1..m + 1
    OBVIOUS
  <2> QED
    BY <1>4, <1>5, <2>1
<1>7. w[m + 1] = "CRLF"
  <2>1. m + 1 \in 1..m + 1
    OBVIOUS
  <2> QED
    BY <1>4, <1>5, <2>1
<1>8. m \in B
  <2>1. m \in 1..m /\ m \in 1 .. Len(w) - 1
    BY <1>5
  <2>2. w[m] = a[m] /\ a[m] = "CRLF"
    BY <1>2, <1>6, <2>1 DEF Closed
  <2> QED
    BY <1>7, <2>1, <2>2
<1>9. \A i \in B : ~(i < m)
  <2> SUFFICES ASSUME NEW i \in B, i < m PROVE FALSE
    OBVIOUS
  <2>1. i \in 1..m /\ i + 1 \in 1..m /\ i \in 1..m - 1
    BY <1>5
  <2>2. w[i] = a[i] /\ w[i + 1] = a[i + 1]
    BY <1>6, <2>1
  <2> QED
    BY <1>2, <2>1, <2>2 DEF Closed
<1>10. First(B) = m
  <2>1. B \in SUBSET Nat /\ B # {}
    <3>1. \A i \in 1 .. Len(w) - 1 : i \in Nat
      BY <1>5
    <3> QED
      BY <1>8, <3>1
  <2> HIDE DEF B
  <2>2. Min(B) \in B /\ Min(B) <= m
    BY <1>8, <2>1, MinFacts
  <2>3. Min(B) \in Nat /\ ~(Min(B) < m)
    BY <1>9, <2>1, <2>2
  <2>4. Min(B) = m
    BY <2>2, <2>3
  <2> QED
    BY <2>1, <2>4 DEF First
<1>11. SubSeq(w, Len(a) + 2, Len(w)) = body
  <2> DEFINE p == Len(a) + 2
             q == Len(w)
  <2>1. p \in Nat \ {0} /\ q \in Nat /\ q + 1 = p + Len(body) /\ Len(w) = q
    BY <1>2, <1>3, <1>5
  <2>2. \A i \in 1..Len(body) : w[p + i - 1] = body[i]
    <3> SUFFICES ASSUME NEW i \in 1..n PROVE w[p + i - 1] = body[i]
      BY <1>3
    <3>1. p + i - 1 = m + 1 + i
      BY <1>2
    <3> HIDE DEF p
    <3> QED
      BY <1>5, <3>1
  <2> HIDE DEF p, q
  <2>3. SubSeq(w, p, q) = body
    BY <1>5, <2>1, <2>2, TailFacts
  <2> QED
    BY <2>3 DEF p, q
<1>12. First(B) = Len(a) /\ SubSeq(w, Len(a) + 2, Len(w)) = body
       /\ \A i \in 1..Len(a) : w[i] = a[i]
  BY <1>2, <1>6, <1>10, <1>11
<1> QED
  BY <1>12 DEF BlankAt

\* One header in front of three.
LEMMA OneInFront ==
    ASSUME NEW a, NEW b, NEW c, NEW d
    PROVE  <<d>> \o <<a, b, c>> = <<d, a, b, c>>
<1> DEFINE S == {a, b, c, d}
           s == <<d>>
           t == <<a, b, c>>
           l == s \o t
           r == <<d, a, b, c>>
<1>1. a \in S /\ b \in S /\ c \in S /\ d \in S
  OBVIOUS
<1> HIDE DEF S
<1>2. s \in Seq(S) /\ t \in Seq(S) /\ r \in Seq(S)
  BY <1>1
<1>3. /\ Len(s) = 1 /\ s[1] = d
      /\ Len(t) = 3 /\ t[1] = a /\ t[2] = b /\ t[3] = c
      /\ Len(r) = 4 /\ r[1] = d /\ r[2] = a /\ r[3] = b /\ r[4] = c
  OBVIOUS
<1> HIDE DEF s, t, r
<1>4. l \in Seq(S) /\ Len(l) = Len(s) + Len(t)
  BY <1>2, JoinType
<1>5. \A i \in 1..Len(s) : l[i] = s[i]
  BY <1>2, JoinFirst
<1>6. \A i \in 1..Len(t), j \in Nat : j = Len(s) + i => l[j] = t[i]
  BY <1>2, JoinSecond
<1> HIDE DEF l
<1>7. l[1] = d /\ l[2] = a /\ l[3] = b /\ l[4] = c
  BY <1>3, <1>5, <1>6
<1>8. l = r
  <2>1. Len(l) = 4 /\ \A i \in 1..4 : l[i] = r[i]
    BY <1>3, <1>4, <1>7
  <2>2. l \in Seq(S) /\ r \in Seq(S) /\ Len(r) = 4
    BY <1>2, <1>3, <1>4
  <2> QED
    BY <2>1, <2>2, SeqEqual
<1> QED
  BY <1>8 DEF l, r, s, t

\* One header behind three.
LEMMA OneBehind ==
    ASSUME NEW a, NEW b, NEW c, NEW d
    PROVE  Append(<<a, b, c>>, d) = <<a, b, c, d>>
<1> DEFINE S == {a, b, c, d}
           t == <<a, b, c>>
           l == Append(t, d)
           r == <<a, b, c, d>>
<1>1. a \in S /\ b \in S /\ c \in S /\ d \in S
  OBVIOUS
<1> HIDE DEF S
<1>2. t \in Seq(S) /\ r \in Seq(S)
  BY <1>1
<1>3. /\ Len(t) = 3 /\ t[1] = a /\ t[2] = b /\ t[3] = c
      /\ Len(r) = 4 /\ r[1] = a /\ r[2] = b /\ r[3] = c /\ r[4] = d
  OBVIOUS
<1> HIDE DEF t, r
<1>4. /\ l \in Seq(S) /\ Len(l) = Len(t) + 1
      /\ \A i \in 1..Len(l) : l[i] = IF i = Len(t) + 1 THEN d ELSE t[i]
  BY <1>1, <1>2, AppendFacts
<1> HIDE DEF l
<1>5. Len(l) = 4 /\ \A i \in 1..4 : l[i] = r[i]
  BY <1>3, <1>4
<1>6. l = r
  <2>1. l \in Seq(S) /\ r \in Seq(S) /\ Len(r) = 4
    BY <1>2, <1>3, <1>4
  <2> QED
    BY <1>5, <2>1, SeqEqual
<1> QED
  BY <1>6 DEF l, r, t

\* A header whose name and value are words.
LEMMA ListsOfWords ==
    ASSUME NEW hs \in HeaderLists
    PROVE  \E S, n : /\ "CRLF" \notin S /\ ":" \in S /\ " " \in S
                     /\ n \in Nat /\ DOMAIN hs = 1..n /\ (n = 0 <=> hs = <<>>)
                     /\ \A i \in 1..n : /\ hs[i].key \in Seq(S) /\ hs[i].key # <<>>
                                        /\ hs[i].val \in Seq(S)
<1> DEFINE S == {"Access-Control-Allow-Origin", "*", "Access-Control-Allow-Methods",
                "GET, POST", "Access-Control-Allow-Headers", "Content-Type",
                "application/json", "image/x-icon", ":", " "}
           Word(h) == h.key \in Seq(S) /\ h.key # <<>> /\ h.val \in Seq(S)
<1>1. "CRLF" \notin S /\ ":" \in S /\ " " \in S
  OBVIOUS
<1> DEFINE Header(k, v) == [key |-> <<k>>, val |-> <<v>>]
<1>2. \A k, v \in S : Word(Header(k, v))
  <2> HIDE DEF S
  <2> QED
    OBVIOUS
<1> HIDE DEF Word
<1> DEFINE h1 == Header("Access-Control-Allow-Origin", "*")
           h2 == Header("Access-Control-Allow-Methods", "GET, POST")
           h3 == Header("Access-Control-Allow-Headers", "*")
           h4 == Header("Content-Type", "application/json")
           h5 == Header("Content-Type", "image/x-icon")
<1>3. Word(h1) /\ Word(h2) /\ Word(h3) /\ Word(h4) /\ Word(h5)
  <2>1. /\ "Access-Control-Allow-Origin" \in S /\ "*" \in S
        /\ "Access-Control-Allow-Methods" \in S /\ "GET, POST" \in S
        /\ "Access-Control-Allow-Headers" \in S /\ "Content-Type" \in S
        /\ "application/json" \in S /\ "image/x-icon" \in S
    OBVIOUS
  <2> HIDE DEF S, Header
  <2> QED
    BY <1>2, <2>1
<1>4. /\ Cors = <<h1, h2, h3>> /\ JsonCors = <<h4>> \o <<h1, h2, h3>>
      /\ Append(Cors, Icon) = Append(<<h1, h2, h3>>, h5)
  BY DEF Cors, JsonCors, ContentType, Json, Icon
<1> HIDE DEF S, Header, h1, h2, h3, h4, h5
<1>5. /\ <<h4>> \o <<h1, h2, h3>> = <<h4, h1, h2, h3>>
      /\ Append(<<h1, h2, h3>>, h5) = <<h1, h2, h3, h5>>
  BY OneInFront, OneBehind
<1>6. hs \in {<<>>, <<h1, h2, h3>>, <<h4, h1, h2, h3>>, <<h1, h2, h3, h5>>}
  BY <1>4, <1>5 DEF HeaderLists
<1>7. \E n \in Nat : /\ DOMAIN hs = 1..n /\ (n = 0 <=> hs = <<>>)
                     /\ \A i \in 1..n : Word(hs[i])
  <2>1. CASE hs = <<>>
    <3>1. DOMAIN hs = 1..0 /\ 1..0 = {}
      BY <2>1
    <3> QED
      BY <2>1, <3>1
  <2>2. ASSUME NEW a, NEW b, NEW c, Word(a), Word(b), Word(c), hs = <<a, b, c>>
        PROVE  DOMAIN hs = 1..3 /\ hs # <<>> /\ \A i \in 1..3 : Word(hs[i])
    BY <2>2
  <2>3. ASSUME NEW a, NEW b, NEW c, NEW d, Word(a), Word(b), Word(c), Word(d),
               hs = <<a, b, c, d>>
        PROVE  DOMAIN hs = 1..4 /\ hs # <<>> /\ \A i \in 1..4 : Word(hs[i])
    BY <2>3
  <2>4. CASE hs = <<h1, h2, h3>>
    <3>1. DOMAIN hs = 1..3 /\ hs # <<>> /\ \A i \in 1..3 : Word(hs[i])
      BY <1>3, <2>2, <2>4
    <3> QED
      BY <3>1
  <2>5. CASE hs \in {<<h4, h1, h2, h3>>, <<h1, h2, h3, h5>>}
    <3>1. DOMAIN hs = 1..4 /\ hs # <<>> /\ \A i \in 1..4 : Word(hs[i])
      BY <1>3, <2>3, <2>5
    <3> QED
      BY <3>1
  <2> QED
    BY <1>6, <2>1, <2>4, <2>5
<1> QED
  BY <1>1, <1>7 DEF Word

\* The status line says what the status is, and the body is what was sent.
LEMMA SeenFacts ==
    ASSUME AnswerInv, stage = "answered"
    PROVE  /\ Seen.reason = http_status_code_stringify(response.status)
           /\ Seen.body = response.body
<1> DEFINE reason == http_status_code_stringify(response.status)
           hs == response.headers
           body == response.body
           H == http_headers_stringify(hs)
           line == <<"HTTP/1.1", reason, "CRLF">>
           a == line \o H
           w == http_response_stringify(response)
<1>1. response.status \in Codes /\ hs \in HeaderLists /\ IsSeq(body)
  BY DEF AnswerInv
<1>2. reason # "CRLF"
  BY <1>1 DEF Codes, http_status_code_stringify
<1> HIDE DEF reason
<1>3. PICK T : body \in Seq(T)
  BY <1>1 DEF IsSeq
<1>4. PICK S, n : /\ "CRLF" \notin S /\ ":" \in S /\ " " \in S
                  /\ n \in Nat /\ DOMAIN hs = 1..n /\ (n = 0 <=> hs = <<>>)
                  /\ \A i \in 1..n : /\ hs[i].key \in Seq(S) /\ hs[i].key # <<>>
                                     /\ hs[i].val \in Seq(S)
  BY <1>1, ListsOfWords
<1> DEFINE U == S \cup {"CRLF"} \cup T \cup {"HTTP/1.1", reason}
<1>5. body \in Seq(U) /\ \A s : s \in Seq(S \cup {"CRLF"}) => s \in Seq(U)
  BY <1>3
<1>6. "CRLF" \in U /\ "HTTP/1.1" \in U /\ reason \in U
  OBVIOUS
<1> HIDE DEF U
<1>7. line \in Seq(U) /\ Closed(line) /\ Len(line) = 3 /\ line[2] = reason
  BY <1>2, <1>6 DEF Closed
<1> HIDE DEF line
<1>8. H \in Seq(U) /\ a \in Seq(U) /\ Closed(a)
  <2>1. CASE n = 0
    <3>1. H = <<>>
      <4> DEFINE f == [i \in DOMAIN hs |->
                          hs[i].key \o <<":", " ">> \o hs[i].val \o <<"CRLF">>]
      <4>1. DOMAIN hs = {}
        <5>1. 1..0 = {}
          OBVIOUS
        <5> QED
          BY <1>4, <2>1, <5>1
      <4>2. f = <<>>
        BY <4>1
      <4>3. H = FlattenSeq(f)
        BY DEF http_headers_stringify
      <4> HIDE DEF f, H
      <4> QED
        BY <4>2, <4>3 DEF FlattenSeq
    <3>2. <<>> \in Seq(U)
      OBVIOUS
    <3>3. line \o <<>> = line
      BY <1>7, ConcatEmptySeq
    <3> QED
      BY <1>7, <3>1, <3>2, <3>3
  <2>2. CASE n # 0
    <3>1. H \in Seq(S \cup {"CRLF"}) /\ Closed(H)
      BY <1>4, <2>2, HeadersClosed
    <3> QED
      BY <1>5, <1>7, <3>1, JoinClosed
  <2> QED
    BY <2>1, <2>2
<1>9. w = Message(a, body)
  BY DEF http_response_stringify, Message, line, reason
<1>10. 2 \in 1..Len(a) /\ a[2] = reason
  <2>1. H \in Seq(U)
    BY <1>8
  <2>2. Len(a) = Len(line) + Len(H)
    BY <1>7, <2>1, JoinType
  <2>3. \A i \in 1..Len(line) : a[i] = line[i]
    BY <1>7, <2>1, JoinFirst
  <2>4. Len(H) \in Nat
    BY <2>1
  <2> HIDE DEF a
  <2> QED
    BY <1>7, <2>2, <2>3, <2>4
<1> HIDE DEF a, w, body
<1>11. /\ BlankAt(w) = Len(a)
       /\ SubSeq(w, Len(a) + 2, Len(w)) = body
       /\ \A i \in 1..Len(a) : w[i] = a[i]
  BY <1>5, <1>6, <1>8, <1>9, BodyFound
<1>12. Seen = [reason |-> w[2], body |-> SubSeq(w, Len(a) + 2, Len(w))]
  BY <1>11 DEF Seen, BlankAt, w
<1> QED
  BY <1>10, <1>11, <1>12 DEF reason, body

-----------------------------------------------------------------------------
(* The handlers *)

\* Whatever is sent, the parser and the callbacks keep the invariant.
THEOREM HandlersInvariance ==
    HandlersSpec => []HandlersInv
<1>1. HandlersInit => HandlersInv
  <2> SUFFICES ASSUME HandlersInit PROVE HandlersInv
    OBVIOUS
  <2>1. /\ text \in Requests /\ stage = "start" /\ header = <<>> /\ pos = 1 /\ key = NoKey
        /\ headers = EmptyList(HeaderCapacity) /\ params = NoParameters
        /\ request.method = "UNKNOWN" /\ request.version = "UNKNOWN"
    BY DEF HandlersInit, Init
  <2>2. callback = "none" /\ file = FALSE /\ started = FALSE /\ fault = "none"
        /\ response.status = 0
    BY DEF HandlersInit
  <2>3. HeaderCapacity \in Nat /\ HeaderCapacity # 0 /\ MaxParameters \in Nat
    BY RequestAssumption
  <2>4. /\ Fits(headers) /\ headers.capacity # 0
        /\ \E S : headers \in [items : Seq(S), capacity : Nat]
    BY <2>1, <2>3, EmptyListed
  <2>5. header \in Seq(STRING) /\ Len(header) = 0 /\ Len(params) = 0 /\ params \in Seq({})
    BY <2>1 DEF NoParameters
  <2>6. ParserType
    BY <2>1, <2>3, <2>4, <2>5 DEF ParserType, Parsing, NoKey
  <2>7. HandlerType
    BY <2>2 DEF HandlerType, Callbacks, Faults, Statuses
  <2>8. text \in Seq(STRING)
    BY <2>1, RequestAssumption
  <2>9. ParserInv
    BY <2>1, <2>4, <2>5, <2>8 DEF ParserInv
  <2>10. WorkInv /\ AnswerInv
    BY <2>1, <2>2 DEF WorkInv, AnswerInv
  <2> QED
    BY <2>6, <2>7, <2>9, <2>10 DEF HandlersInv
<1>2. HandlersInv /\ [HandlersNext]_vars => HandlersInv'
  <2> SUFFICES ASSUME HandlersInv, [HandlersNext]_vars PROVE HandlersInv'
    OBVIOUS
  <2>1. CASE ParserStep /\ UNCHANGED handlerVars
    BY <2>1, ParserKeeps
  <2>2. CASE HandlerStep
    BY <2>2, CallbackKeeps
  <2>3. CASE UNCHANGED vars
    <3>1. /\ UNCHANGED <<text, stage, request, header, pos, key, headers, query, params>>
          /\ callback' = callback /\ fault' = fault /\ response' = response
          /\ file' = file /\ started' = started
      BY <2>3 DEF vars, requestVars, lines, handlerVars
    <3>2. ParserType' /\ ParserInv'
      BY <3>1 DEF HandlersInv, ParserType, ParserInv
    <3>3. HandlerType'
      BY <3>1, Zenon DEF HandlersInv, HandlerType
    <3>4. Parameter("compiler_type")' = Parameter("compiler_type")
      BY <3>1 DEF Parameter, find_query_parameter, SelectInSeq, SelectInSubSeq
    <3>5. WorkInv' /\ AnswerInv'
      BY <3>1, <3>4 DEF HandlersInv, WorkInv, AnswerInv
    <3> QED
      BY <3>2, <3>3, <3>5 DEF HandlersInv
  <2> QED
    BY <2>1, <2>2, <2>3 DEF HandlersNext
<1> QED
  BY <1>1, <1>2, PTL DEF HandlersSpec

\* Each variable has its type; a list of headers has room for all of them, and
\* there are never more parameters than fit.
THEOREM HandlersTypeCorrect ==
    HandlersSpec => []TypeOK
<1>1. HandlersInv => TypeOK
  BY TypeSplit DEF HandlersInv
<1> QED
  BY <1>1, HandlersInvariance, PTL

\* A client that reads an error off the status line owns no running program.
THEOREM ErrorsStartNothing ==
    HandlersSpec => []ErrorStartsNothing
<1>1. HandlersInv => ErrorStartsNothing
  <2> SUFFICES ASSUME HandlersInv, stage = "answered", started
               PROVE  Seen.reason = "OK"
    BY DEF ErrorStartsNothing
  <2>1. response.status = 200
    BY DEF HandlersInv, WorkInv
  <2>2. Seen.reason = http_status_code_stringify(response.status)
    BY SeenFacts DEF HandlersInv
  <2> QED
    BY <2>1, <2>2 DEF http_status_code_stringify
<1> QED
  BY <1>1, HandlersInvariance, PTL

\* If a source file is left for a request that started nothing, the compiler is
\* unknown or the client reads that its program could not be built and run.
THEOREM LeftoversExplained ==
    HandlersSpec => []LeftoverFileExplained
<1>1. HandlersInv => LeftoverFileExplained
  <2> SUFFICES ASSUME HandlersInv, stage = "answered", file, ~started,
                      Parameter("compiler_type") \in Compilers
               PROVE  Seen.body = <<"Failed to build and run program">>
    BY DEF LeftoverFileExplained, Compilers
  <2>1. response = BuildFailed
    BY DEF HandlersInv, WorkInv
  <2>2. Seen.body = response.body
    BY SeenFacts DEF HandlersInv
  <2> QED
    BY <2>1, <2>2 DEF BuildFailed
<1> QED
  BY <1>1, HandlersInvariance, PTL

-----------------------------------------------------------------------------
(* The start line and its query *)

\* Where the parts of the start line are.
IsLine(e, b, c, n) ==
    /\ EndOfLine = e /\ Blank1 = b /\ Blank2 = c
    /\ 1 <= b /\ b < c /\ c < e /\ e <= Len(text) /\ n = c - b - 1
    /\ StartLine \in Seq(STRING) /\ Len(StartLine) = e - 1
    /\ StartLine[b] = " " /\ \A i \in 1 .. b - 1 : StartLine[i] # " "
    /\ Target \in Seq(STRING) /\ Len(Target) = n
    /\ \A i \in 1..n : Target[i] = StartLine[b + i]

\* The two blanks of the start line of a request, and the target between them.
LEMMA StartLineFacts ==
    ASSUME text \in Seq(STRING), WellFormed
    PROVE  \E e, b, c, n \in Nat : IsLine(e, b, c, n)
<1>0. EndOfLine # 0 /\ Blank1 # 0 /\ Blank2 # 0
  BY DEF WellFormed
<1>1. PICK e \in Nat : e = EndOfLine /\ 1 <= e /\ e <= Len(text)
  <2>1. EndOfLine \in 1..Len(text)
    BY <1>0, FindFacts DEF EndOfLine
  <2> QED
    BY <2>1
<1>2. PICK l \in Nat : l = e - 1
  BY <1>1
<1>3. StartLine \in Seq(STRING) /\ Len(StartLine) = l
  <2>1. 1 \in Nat \ {0} /\ 1 <= l + 1 /\ l <= Len(text) /\ l - 1 + 1 = l
    BY <1>1, <1>2
  <2>2. StartLine = SubSeq(text, 1, l)
    BY <1>1, <1>2 DEF StartLine
  <2> QED
    BY <2>1, <2>2, PartFacts
<1>4. PICK b \in Nat : /\ b = Blank1 /\ 1 <= b /\ b <= l
                       /\ StartLine[b] = " " /\ \A i \in 1 .. b - 1 : StartLine[i] # " "
  <2>1. PICK b : b = Find(StartLine, 1, " ")
    OBVIOUS
  <2>a. b = Blank1
    BY <2>1 DEF Blank1
  <2>2. b = Blank1 /\ b # 0
    BY <1>0, <2>a
  <2>b. 1 \in Nat \ {0}
    OBVIOUS
  <2>3. b \in 1..Len(StartLine) /\ StartLine[b] = " " /\ \A i \in 1 .. b - 1 : StartLine[i] # " "
    <3>1. /\ Find(StartLine, 1, " ") # 0 =>
                /\ Find(StartLine, 1, " ") \in 1..Len(StartLine)
                /\ StartLine[Find(StartLine, 1, " ")] = " "
                /\ \A k \in 1..(Find(StartLine, 1, " ") - 1) : StartLine[k] # " "
      BY <1>3, <2>b, FindFacts
    <3> QED
      BY <2>1, <2>2, <3>1
  <2>4. b \in Nat /\ 1 <= b /\ b <= l
    <3>1. b \in 1..l
      BY <1>3, <2>3
    <3> QED
      BY <3>1
  <2> QED
    BY <2>2, <2>3, <2>4
<1>5. PICK c \in Nat : c = Blank2 /\ b < c /\ c <= l
  <2>1. PICK d \in Nat : d = b + 1 /\ d # 0
    OBVIOUS
  <2>2. PICK c : c = Find(StartLine, d, " ")
    OBVIOUS
  <2>3. c = Blank2 /\ c # 0
    BY <1>0, <1>4, <2>1, <2>2 DEF Blank2
  <2>4. c \in d .. Len(StartLine)
    <3>1. d \in Nat \ {0}
      BY <2>1
    <3>2. Find(StartLine, d, " ") # 0 => Find(StartLine, d, " ") \in d .. Len(StartLine)
      BY <1>3, <3>1, FindFacts
    <3> QED
      BY <2>2, <2>3, <3>2
  <2>5. c \in Nat /\ b < c /\ c <= l
    <3>1. c \in d..l
      BY <1>3, <2>4
    <3> QED
      BY <2>1, <3>1
  <2> QED
    BY <2>3, <2>5
<1>6. PICK m, k, n \in Nat : m = b + 1 /\ k = c - 1 /\ n = c - b - 1
  <2>1. b + 1 \in Nat /\ c - 1 \in Nat /\ c - b - 1 \in Nat
    BY <1>5
  <2> QED
    BY <2>1
<1>7. Target \in Seq(STRING) /\ Len(Target) = n /\ \A i \in 1..n : Target[i] = StartLine[b + i]
  <2>1. m \in Nat \ {0} /\ m <= k + 1 /\ k <= Len(StartLine) /\ k - m + 1 = n
    BY <1>3, <1>5, <1>6
  <2>2. Target = SubSeq(StartLine, m, k)
    BY <1>4, <1>5, <1>6 DEF Target
  <2>3. \A i \in 1..n : m + i - 1 = b + i
    BY <1>6
  <2>4. Target \in Seq(STRING) /\ Len(Target) = n /\ \A i \in 1..n : Target[i] = StartLine[m + i - 1]
    BY <1>3, <2>1, <2>2, PartFacts
  <2> QED
    BY <2>3, <2>4
<1>8. c < e /\ Len(StartLine) = e - 1
  BY <1>2, <1>3, <1>5
<1>9. IsLine(e, b, c, n)
  BY <1>1, <1>3, <1>4, <1>5, <1>6, <1>7, <1>8 DEF IsLine
<1> QED
  BY <1>9

\* The query begins behind the first question mark of the target that is not
\* its first character.
Mark == First({i \in 2 .. Len(Target) : Target[i] = "?"})

IsQuery(b, c, f, n) ==
    /\ Blank1 = b /\ Blank2 = c /\ Mark = f /\ Len(Target) = n
    /\ 1 <= b /\ n = c - b - 1 /\ 2 <= f /\ f <= n
    /\ c <= Len(StartLine) /\ StartLine \in Seq(STRING)
    /\ Target \in Seq(STRING)
    /\ Target[f] = "?" /\ \A i \in 2 .. f - 1 : Target[i] # "?"
    /\ SelectInSubSeq(StartLine, b + 2, c - 1, LAMBDA d : d = "?") = b + f
    /\ QueryText = SubSeq(StartLine, b + f + 1, c - 1)
    /\ QueryText \in Seq(STRING) /\ Starts = Begins(QueryText)
    /\ CleanQuery => CleanParts(QueryText)

\* The query is behind the first question mark of the target.
LEMMA QueryFacts ==
    ASSUME text \in Seq(STRING), WellFormed, HasQuery
    PROVE  \E b, c, f, n \in Nat : IsQuery(b, c, f, n)
<1>0. PICK e, b, c, n \in Nat : IsLine(e, b, c, n)
  BY StartLineFacts
<1>1. /\ Blank1 = b /\ Blank2 = c
      /\ 1 <= b /\ b < c /\ c < e /\ n = c - b - 1
      /\ StartLine \in Seq(STRING) /\ Len(StartLine) = e - 1
      /\ Target \in Seq(STRING) /\ Len(Target) = n
      /\ \A i \in 1..n : Target[i] = StartLine[b + i]
  BY <1>0 DEF IsLine
<1> DEFINE J == {i \in 2 .. Len(Target) : Target[i] = "?"}
<1>2. J \in SUBSET Nat /\ J # {}
  <2>1. \E i \in 2 .. Len(Target) : Target[i] = "?"
    BY DEF HasQuery
  <2>2. Len(Target) = n
    BY <1>1
  <2>3. \A i \in 2 .. Len(Target) : i \in Nat
    BY <2>2
  <2> QED
    BY <2>1, <2>3
<1>3. Mark = Min(J)
  <2>1. Mark = First(J)
    BY DEF Mark
  <2> HIDE DEF J
  <2> QED
    BY <1>2, <2>1 DEF First
<1>4. PICK f \in Nat : f = Mark
  <2>1. Min(J) \in J
    <3> HIDE DEF J
    <3> QED
      BY <1>2, MinFacts
  <2>2. Min(J) \in Nat
    BY <1>2, <2>1
  <2>3. Mark \in Nat
    BY <1>3, <2>2
  <2> QED
    BY <2>3
<1>5. f \in J /\ \A i \in J : f <= i
  <2> HIDE DEF J
  <2> QED
    BY <1>2, <1>3, <1>4, MinFacts
<1>6. f \in Nat /\ 2 <= f /\ f <= n /\ Target[f] = "?"
  BY <1>1, <1>5
<1>7. ASSUME NEW i \in 2 .. f - 1 PROVE Target[i] # "?"
  <2>1. i \in 2 .. Len(Target) /\ ~(f <= i)
    BY <1>1, <1>6
  <2> QED
    BY <1>5, <2>1
<1> DEFINE I == {i \in b + 2 .. c - 1 : StartLine[i] = "?"}
<1>8. SelectInSubSeq(StartLine, b + 2, c - 1, LAMBDA d : d = "?") = IF I # {} THEN Min(I) ELSE 0
  BY DEF SelectInSubSeq
<1>9. PICK g \in Nat : g = b + f
  BY <1>6
<1>10. g \in I
  <2>1. f \in 1..n /\ g \in b + 2 .. c - 1
    BY <1>1, <1>6, <1>9
  <2> QED
    BY <1>1, <1>6, <1>9, <2>1
<1>11. ASSUME NEW i \in I PROVE g <= i
  <2>1. PICK h \in Nat : h = i - b
    BY <1>1
  <2>2. h \in 2..n /\ h \in 1..n /\ i = b + h
    BY <1>1, <2>1
  <2>3. Target[h] = "?"
    BY <1>1, <2>2
  <2>4. f <= h
    BY <1>1, <1>5, <2>2, <2>3
  <2> QED
    BY <1>6, <1>9, <2>2, <2>4
<1>12. Min(I) = g
  <2>1. I \in SUBSET Nat
    BY <1>1
  <2> HIDE DEF I
  <2> QED
    BY <1>10, <1>11, <2>1, MinIs
<1>13. SelectInSubSeq(StartLine, b + 2, c - 1, LAMBDA d : d = "?") = b + f
  BY <1>8, <1>9, <1>10, <1>12
<1>14. PICK k, m, y, x \in Nat : k = b + 1 /\ m = f + 1 /\ y = c - 1 /\ x = b + f + 1
  BY <1>1
<1>15. QueryText = SubSeq(StartLine, b + f + 1, c - 1) /\ QueryText \in Seq(STRING)
  <2>1. QueryText = SubSeq(Target, m, n)
    BY <1>1, <1>4, <1>14 DEF QueryText, Mark
  <2>2. Target = SubSeq(StartLine, k, y)
    BY <1>1, <1>14 DEF Target
  <2>3. /\ 1 <= k /\ y <= Len(StartLine) /\ 1 <= m
        /\ m <= n + 1 /\ n <= y - k + 1 /\ x = k + m - 1 /\ y = k + n - 1
    BY <1>1, <1>6, <1>14
  <2>4. StartLine \in Seq(STRING)
    BY <1>1
  <2>5. SubSeq(SubSeq(StartLine, k, y), m, n) = SubSeq(StartLine, x, y)
    BY <2>3, <2>4, PartAgain
  <2>6. m \in Nat \ {0} /\ n \in 0..Len(Target)
    BY <1>1, <2>3
  <2>7. QueryText \in Seq(STRING)
    BY <1>1, <2>1, <2>6, PartType
  <2> QED
    BY <1>14, <2>1, <2>2, <2>5, <2>7
<1>16. Starts = Begins(QueryText) /\ (CleanQuery => CleanParts(QueryText))
  BY DEF CleanQuery, CleanParts, Starts, Begins
<1>17. c <= Len(StartLine)
  BY <1>1
<1>18. IsQuery(b, c, f, n)
  BY <1>1, <1>4, <1>6, <1>7, <1>13, <1>15, <1>16, <1>17 DEF IsQuery
<1> QED
  BY <1>6, <1>18

\* What ParseStartLine makes of a line whose target has a query.
LEMMA StartLineParsed ==
    ASSUME text \in Seq(STRING), HasQuery, ParseStartLine
    PROVE  /\ query' = Runs(QueryText, "&")
           /\ request'.method = parse_http_method(SubSeq(StartLine, 1, Blank1 - 1))
           /\ request'.path = SubSeq(Target, 1, Mark - 1)
           /\ request'.body = SubSeq(text, BlankLine + 2, Len(text))
<1>1. WellFormed
  BY DEF ParseStartLine
<1>0. PICK b, c, f, n \in Nat : IsQuery(b, c, f, n)
  BY <1>1, QueryFacts
<1>2. /\ Blank1 = b /\ Blank2 = c /\ Mark = f /\ Len(Target) = n
      /\ 1 <= b /\ n = c - b - 1 /\ 2 <= f /\ f <= n
      /\ c <= Len(StartLine) /\ StartLine \in Seq(STRING)
      /\ Target \in Seq(STRING)
      /\ SelectInSubSeq(StartLine, b + 2, c - 1, LAMBDA d : d = "?") = b + f
      /\ QueryText = SubSeq(StartLine, b + f + 1, c - 1)
  BY <1>0 DEF IsQuery
<1>b. b \in Nat /\ c \in Nat /\ 1 <= b /\ n = c - b - 1 /\ 2 <= f /\ f <= n
  BY <1>2
<1>3. \E from \in {Blank1 + 1}, end \in {Blank2}, line \in {StartLine}, blank \in {BlankLine} :
         LET to == IF end = from THEN Len(line) ELSE end - 1
         IN  \E mark \in {SelectInSubSeq(line, from + 1, to, LAMBDA d : d = "?")} :
              /\ request' = [method |-> parse_http_method(SubSeq(line, 1, from - 2)),
                             version |-> parse_http_version(SubSeq(line, end + 1, Len(line))),
                             path |-> SubSeq(line, from,
                                         (IF mark # 0 /\ mark < end THEN mark ELSE end) - 1),
                             body |-> SubSeq(text, blank + 2, Len(text))]
              /\ query' = IF mark = 0 THEN <<>> ELSE Runs(SubSeq(line, mark + 1, to), "&")
  BY Zenon DEF ParseStartLine
<1>4. PICK from, to \in Nat : /\ from = Blank1 + 1 /\ from = b + 1 /\ from - 2 = b - 1
                                 /\ from + 1 = b + 2 /\ to = c - 1 /\ c # from
  <2>1. PICK from, to \in Nat : from = b + 1 /\ to = c - 1
    BY <1>b
  <2>2. from - 2 = b - 1 /\ from + 1 = b + 2 /\ c # from
    BY <1>b, <2>1
  <2>3. from = Blank1 + 1
    BY <1>2, <2>1
  <2> QED
    BY <2>1, <2>2, <2>3
<1>5. PICK mark \in Nat : mark = b + f /\ mark # 0 /\ mark < c /\ mark + 1 = b + f + 1
  BY <1>b
<1>a. /\ request' = [method |-> parse_http_method(SubSeq(StartLine, 1, b - 1)),
                     version |-> parse_http_version(SubSeq(StartLine, c + 1, Len(StartLine))),
                     path |-> SubSeq(StartLine, from,
                                 (IF mark # 0 /\ mark < c THEN mark ELSE c) - 1),
                     body |-> SubSeq(text, BlankLine + 2, Len(text))]
      /\ query' = IF mark = 0 THEN <<>> ELSE Runs(SubSeq(StartLine, mark + 1, to), "&")
  <2>1. /\ SelectInSubSeq(StartLine, from + 1, to, LAMBDA d : d = "?") = mark
        /\ to = IF c = from THEN Len(StartLine) ELSE c - 1
    BY <1>2, <1>4, <1>5
  <2>2. PICK F \in {Blank1 + 1}, E \in {Blank2}, G \in {StartLine}, H \in {BlankLine} :
         LET t == IF E = F THEN Len(G) ELSE E - 1
         IN  \E mk \in {SelectInSubSeq(G, F + 1, t, LAMBDA d : d = "?")} :
              /\ request' = [method |-> parse_http_method(SubSeq(G, 1, F - 2)),
                             version |-> parse_http_version(SubSeq(G, E + 1, Len(G))),
                             path |-> SubSeq(G, F, (IF mk # 0 /\ mk < E THEN mk ELSE E) - 1),
                             body |-> SubSeq(text, H + 2, Len(text))]
              /\ query' = IF mk = 0 THEN <<>> ELSE Runs(SubSeq(G, mk + 1, t), "&")
    BY <1>3
  <2>3. PICK t : t = IF E = F THEN Len(G) ELSE E - 1
    OBVIOUS
  <2>4. PICK mk \in {SelectInSubSeq(G, F + 1, t, LAMBDA d : d = "?")} :
              /\ request' = [method |-> parse_http_method(SubSeq(G, 1, F - 2)),
                             version |-> parse_http_version(SubSeq(G, E + 1, Len(G))),
                             path |-> SubSeq(G, F, (IF mk # 0 /\ mk < E THEN mk ELSE E) - 1),
                             body |-> SubSeq(text, H + 2, Len(text))]
              /\ query' = IF mk = 0 THEN <<>> ELSE Runs(SubSeq(G, mk + 1, t), "&")
    BY <2>2, <2>3
  <2>5. F = from /\ E = c /\ G = StartLine /\ H = BlankLine
    BY <1>2, <1>4
  <2>6. t = to
    BY <2>1, <2>3, <2>5
  <2>7. mk = mark
    BY <2>1, <2>5, <2>6
  <2>8. from - 2 = b - 1
    BY <1>4
  <2> QED
    BY <2>4, <2>5, <2>6, <2>7, <2>8
<1>6. query' = Runs(QueryText, "&")
  BY <1>2, <1>4, <1>5, <1>a
<1>7. /\ request'.method = parse_http_method(SubSeq(StartLine, 1, Blank1 - 1))
      /\ request'.body = SubSeq(text, BlankLine + 2, Len(text))
      /\ request'.path = SubSeq(StartLine, from, mark - 1)
  BY <1>2, <1>5, <1>a
<1>8. SubSeq(StartLine, from, mark - 1) = SubSeq(Target, 1, Mark - 1)
  <2>1. PICK k, y, z, x \in Nat : k = b + 1 /\ y = c - 1 /\ z = f - 1 /\ x = b + f - 1
    <3>1. b + 1 \in Nat /\ c - 1 \in Nat /\ f - 1 \in Nat /\ b + f - 1 \in Nat
      BY <1>b
    <3> QED
      BY <3>1
  <2>2. Target = SubSeq(StartLine, k, y)
    BY <1>2, <2>1 DEF Target
  <2>3. /\ 1 <= k /\ y <= Len(StartLine) /\ 1 \in Nat /\ 1 <= 1 /\ 1 <= z + 1 /\ z <= y - k + 1
        /\ k = k + 1 - 1 /\ x = k + z - 1
    <3>1. c <= Len(StartLine) /\ Len(StartLine) \in Nat
      BY <1>2
    <3>2. y <= c /\ y <= Len(StartLine)
      BY <1>b, <2>1, <3>1
    <3> QED
      BY <1>b, <2>1, <3>2
  <2>4. StartLine \in Seq(STRING)
    BY <1>2
  <2>5. SubSeq(SubSeq(StartLine, k, y), 1, z) = SubSeq(StartLine, k, x)
    BY <2>3, <2>4, PartAgain
  <2>6. from = k /\ mark - 1 = x /\ Mark - 1 = z
    <3>1. Mark = f
      BY <1>2
    <3>2. from = b + 1
      BY <1>4
    <3> QED
      BY <1>b, <1>5, <2>1, <3>1, <3>2
  <2> QED
    BY <2>2, <2>5, <2>6
<1> QED
  BY <1>6, <1>7, <1>8

-----------------------------------------------------------------------------
(* The parameters of the query *)

\* The parameters of a query, and the list the first n of them make.
QueryList == Runs(QueryText, "&")
QueryCount == RunCount(QueryText, "&")
Kept(n) == [i \in 1..n |-> [key |-> NthPair(QueryText, i)[1], val |-> NthPair(QueryText, i)[2]]]
Taken == {"parsed"} \cup HandlerStages

\* Only a request that has all its parts is taken apart.
FormInv ==
    /\ stage \notin {"start", "NULL", "answered"} => WellFormed
    /\ stage = "NULL" => ~WellFormed

\* What has become of a query at each stage: nothing as long as there are
\* headers, the first parameters of it afterwards, and in the end all or none.
QueryInv ==
    /\ stage \in {"start", "headers", "value"} => params = NoParameters
    /\ CleanQuery =>
          /\ stage \in {"headers", "value"} => query = QueryList
          /\ stage = "query" =>
                \E n \in 0..MaxParameters :
                    /\ n < QueryCount /\ params = Kept(n)
                    /\ query = SubSeq(QueryList, n + 1, QueryCount)
          /\ stage \in Taken =>
                params = IF QueryCount <= MaxParameters THEN Kept(QueryCount) ELSE NoParameters

\* What depends on the text only stays as it is.
LEMMA TextStays ==
    ASSUME text' = text
    PROVE  /\ WellFormed' = WellFormed /\ CleanQuery' = CleanQuery /\ QueryText' = QueryText
           /\ HasQuery' = HasQuery /\ QueryList' = QueryList /\ QueryCount' = QueryCount
           /\ \A n : Kept(n)' = Kept(n)
<1>1. /\ EndOfLine' = EndOfLine /\ StartLine' = StartLine /\ Blank1' = Blank1 /\ Blank2' = Blank2
      /\ BlankLine' = BlankLine
  BY DEF EndOfLine, StartLine, Blank1, Blank2, BlankLine
<1>2. Target' = Target /\ QueryText' = QueryText
  BY <1>1 DEF Target, QueryText
<1>3. Starts' = Starts
  BY <1>2 DEF Starts
<1>a. HasQuery' = HasQuery
  BY <1>2 DEF HasQuery
<1>4. CleanQuery' = CleanQuery
  BY <1>2, <1>3, <1>a DEF CleanQuery
<1> QED
  BY <1>1, <1>2, <1>4, <1>a DEF WellFormed, QueryList, QueryCount, Kept

\* A clean query is a list of pairs.
LEMMA ListFacts ==
    ASSUME text \in Seq(STRING), WellFormed, CleanQuery
    PROVE  /\ QueryText \in Seq(STRING) /\ CleanParts(QueryText)
           /\ QueryCount \in Nat /\ 1 <= QueryCount /\ Cardinality(Starts) = QueryCount
           /\ QueryList \in Seq(Seq(STRING)) /\ Len(QueryList) = QueryCount
           /\ \A n \in 1..QueryCount :
                 /\ Runs(QueryList[n], "=") = NthPair(QueryText, n)
                 /\ Len(NthPair(QueryText, n)) = 2
                 /\ NthPair(QueryText, n)[1] \in Seq(STRING)
                 /\ NthPair(QueryText, n)[2] \in Seq(STRING)
<1>0. PICK b, c, f, m \in Nat : IsQuery(b, c, f, m)
  BY QueryFacts DEF CleanQuery
<1>1. QueryText \in Seq(STRING) /\ CleanParts(QueryText) /\ Starts = Begins(QueryText)
  BY <1>0 DEF IsQuery
<1> DEFINE q == QueryText
<1>2. q \in Seq(STRING) /\ CleanParts(q) /\ QueryList = Runs(q, "&") /\ QueryCount = RunCount(q, "&")
  BY <1>1 DEF QueryList, QueryCount
<1>3. Cardinality(Starts) = QueryCount
  BY <1>1, BeginsAreRuns DEF QueryCount
<1> HIDE DEF q
<1>4. q # <<>> /\ q[1] # "&" /\ RunCount(q, "&") \in Nat
  BY <1>2, BeginsAreRuns, RunFacts
<1>5. RunCount(q, "&") # 0
  BY <1>2, <1>4, FirstRun
<1>6. ASSUME NEW n \in 1..RunCount(q, "&")
      PROVE  /\ Runs(q, "&")[n] \in Seq(STRING)
             /\ Len(NthPair(q, n)) = 2
             /\ NthPair(q, n)[1] \in Seq(STRING) /\ NthPair(q, n)[2] \in Seq(STRING)
  <2>1. PICK a, u : a = RunStart(q, "&", n) /\ u = RunEnd(q, "&", a)
    OBVIOUS
  <2>2. a \in 1..Len(q) /\ u \in a..Len(q)
    BY <1>2, <2>1, ParameterFacts
  <2>3. a \in Nat /\ u \in Nat
    BY <2>2
  <2>4. PICK j, k, l \in Nat : IsCut(q, n, a, j, k, l, u)
    BY <1>2, <2>1, <2>3, RunPair DEF IsNth
  <2>5. /\ 1 <= a /\ a < k /\ k < u /\ u <= Len(q) /\ j = k - 1 /\ l = k + 1
        /\ Runs(q, "&")[n] = SubSeq(q, a, u)
        /\ Len(NthPair(q, n)) = 2
        /\ NthPair(q, n)[1] = SubSeq(q, a, j) /\ NthPair(q, n)[2] = SubSeq(q, l, u)
    BY <2>4 DEF IsCut
  <2>6. a \in Nat \ {0} /\ l \in Nat \ {0} /\ j \in 0..Len(q) /\ u \in 0..Len(q)
    BY <2>3, <2>5
  <2>7. /\ SubSeq(q, a, u) \in Seq(STRING) /\ SubSeq(q, a, j) \in Seq(STRING)
        /\ SubSeq(q, l, u) \in Seq(STRING)
    BY <1>2, <2>6, PartType
  <2> QED
    BY <2>5, <2>7
<1>7. DOMAIN Runs(q, "&") = 1..RunCount(q, "&")
  BY RunsAre
<1>8. Runs(q, "&") \in Seq(Seq(STRING)) /\ Len(Runs(q, "&")) = RunCount(q, "&")
  <2>1. Runs(q, "&") = [n \in 1..RunCount(q, "&") |-> Runs(q, "&")[n]]
    BY RunsAre
  <2>2. Runs(q, "&") \in [1..RunCount(q, "&") -> Seq(STRING)]
    BY <1>6, <2>1
  <2> QED
    BY <1>4, <2>2, FunctionType
<1>9. \A n \in 1..RunCount(q, "&") : Runs(Runs(q, "&")[n], "=") = NthPair(q, n)
  BY DEF NthPair
<1>10. RunCount(q, "&") \in Nat /\ 1 <= RunCount(q, "&")
  BY <1>4, <1>5
<1>11. q = QueryText
  BY DEF q
<1> QED
  BY <1>1, <1>2, <1>3, <1>6, <1>8, <1>9, <1>10, <1>11

\* The list of the first n parameters.
LEMMA KeptFacts ==
           /\ Kept(0) = NoParameters
           /\ \A n \in Nat : /\ Kept(n) \in Seq(Range(Kept(n))) /\ Len(Kept(n)) = n
                             /\ DOMAIN Kept(n) = 1..n
           /\ \A n \in Nat : Append(Kept(n), [key |-> NthPair(QueryText, n + 1)[1],
                                              val |-> NthPair(QueryText, n + 1)[2]]) = Kept(n + 1)
<1> DEFINE pair(i) == [key |-> NthPair(QueryText, i)[1], val |-> NthPair(QueryText, i)[2]]
           V == {pair(i) : i \in Nat}
<1>1. ASSUME NEW n \in Nat PROVE Kept(n) \in Seq(V) /\ Len(Kept(n)) = n
                                 /\ \A i \in 1..n : Kept(n)[i] = pair(i)
  <2>1. Kept(n) = [i \in 1..n |-> pair(i)]
    BY DEF Kept
  <2> HIDE DEF pair
  <2>2. \A i \in 1..n : pair(i) \in V
    OBVIOUS
  <2>3. Kept(n) \in [1..n -> V]
    BY <2>1, <2>2
  <2> HIDE DEF V
  <2> QED
    BY <2>1, <2>3, FunctionType
<1> HIDE DEF pair, V
<1>2. Kept(0) = <<>>
  <2>1. Kept(0) \in Seq(V) /\ Len(Kept(0)) = 0
    BY <1>1
  <2> QED
    BY <2>1, EmptySeq
<1>3. ASSUME NEW n \in Nat PROVE Append(Kept(n), pair(n + 1)) = Kept(n + 1)
  <2>1. PICK m \in Nat : m = n + 1
    OBVIOUS
  <2>2. pair(m) \in V
    BY DEF V
  <2>3. /\ Append(Kept(n), pair(m)) \in Seq(V) /\ Len(Append(Kept(n), pair(m))) = m
        /\ \A i \in 1..m : Append(Kept(n), pair(m))[i] = IF i = m THEN pair(m) ELSE Kept(n)[i]
    <3>1. Kept(n) \in Seq(V) /\ Len(Kept(n)) = n
      BY <1>1
    <3>2. PICK w : w = Append(Kept(n), pair(m))
      OBVIOUS
    <3>3. w \in Seq(V) /\ Len(w) = n + 1 /\ \A i \in 1..Len(w) : w[i] = IF i = n + 1 THEN pair(m) ELSE Kept(n)[i]
      BY <2>2, <3>1, <3>2, AppendFacts
    <3>4. Len(w) = m /\ \A i \in 1..m : w[i] = IF i = m THEN pair(m) ELSE Kept(n)[i]
      BY <2>1, <3>3
    <3> QED
      BY <3>2, <3>3, <3>4
  <2>4. Kept(m) \in Seq(V) /\ Len(Kept(m)) = m /\ \A i \in 1..m : Kept(m)[i] = pair(i)
    BY <1>1
  <2>5. ASSUME NEW i \in 1..m PROVE Append(Kept(n), pair(m))[i] = Kept(m)[i]
    <3>1. i = m \/ i \in 1..n
      BY <2>1
    <3> QED
      BY <1>1, <2>3, <2>4, <3>1
  <2>6. Append(Kept(n), pair(m)) = Kept(m)
    BY <2>3, <2>4, <2>5, SeqEqual
  <2> QED
    BY <2>1, <2>6
<1>4. ASSUME NEW n \in Nat PROVE Kept(n) \in Seq(Range(Kept(n))) /\ DOMAIN Kept(n) = 1..n
  <2>1. DOMAIN Kept(n) = 1..n
    BY DEF Kept
  <2>2. \A i \in 1..n : Kept(n)[i] \in Range(Kept(n))
    BY <2>1 DEF Range
  <2>3. Kept(n) = [i \in 1..n |-> Kept(n)[i]]
    BY DEF Kept
  <2>4. Kept(n) \in [1..n -> Range(Kept(n))]
    BY <2>2, <2>3
  <2> QED
    BY <2>1, <2>4, FunctionType
<1> QED
  BY <1>1, <1>2, <1>3, <1>4 DEF pair, NoParameters

-----------------------------------------------------------------------------
(* The steps *)

\* As long as there are headers nothing becomes of the query.
LEMMA HeadersLeaveQuery ==
    ASSUME ParserInv, FormInv, QueryInv, stage \in {"headers", "value"},
           stage' \in {"headers", "value", "query", "outside"},
           text' = text, query' = query, params' = params
    PROVE  QueryInv'
<1>1. params = NoParameters /\ WellFormed /\ text \in Seq(STRING)
  BY DEF ParserInv, FormInv, QueryInv
<1>2. stage' \notin Taken /\ stage' # "start"
  BY DEF Taken, HandlerStages
<1>3. ASSUME CleanQuery, stage' = "query"
      PROVE  \E n \in 0..MaxParameters : /\ n < QueryCount /\ params = Kept(n)
                                         /\ query = SubSeq(QueryList, n + 1, QueryCount)
  <2>1. query = QueryList
    BY <1>3 DEF QueryInv
  <2>2. /\ QueryCount \in Nat /\ 1 <= QueryCount
        /\ QueryList \in Seq(Seq(STRING)) /\ Len(QueryList) = QueryCount
    BY <1>1, <1>3, ListFacts
  <2>3. SubSeq(QueryList, 1, QueryCount) = QueryList
    BY <2>2, SubSeqFull
  <2>4. 0 \in 0..MaxParameters /\ 0 < QueryCount /\ 0 + 1 = 1
    BY <2>2, RequestAssumption
  <2>5. params = Kept(0)
    BY <1>1, KeptFacts
  <2> QED
    BY <2>1, <2>3, <2>4, <2>5
<1>4. stage' \in {"headers", "value"} /\ CleanQuery => query = QueryList
  BY DEF QueryInv
<1> QED
  BY <1>1, <1>2, <1>3, <1>4, TextStays DEF QueryInv

\* A parameter is added to the list, or is too much for it.
LEMMA InsertKeepsQuery ==
    ASSUME ParserInv, FormInv, QueryInv, InsertParameter
    PROVE  QueryInv'
<1>1. stage = "query" /\ query # <<>> /\ text' = text /\ stage' \in {"query", "parsed"}
  BY DEF InsertParameter
<1>2. WellFormed /\ text \in Seq(STRING)
  BY <1>1 DEF ParserInv, FormInv
<1>3. SUFFICES ASSUME CleanQuery
               PROVE  /\ stage' = "query" =>
                            \E n \in 0..MaxParameters :
                               /\ n < QueryCount /\ params' = Kept(n)
                               /\ query' = SubSeq(QueryList, n + 1, QueryCount)
                      /\ stage' = "parsed" =>
                            params' = IF QueryCount <= MaxParameters THEN Kept(QueryCount)
                                      ELSE NoParameters
  <2>1. stage' \in Taken => stage' = "parsed"
    BY <1>1 DEF Taken, HandlerStages
  <2>2. stage' \notin {"start", "headers", "value"}
    BY <1>1
  <2> QED
    BY <1>1, <2>1, <2>2, TextStays DEF QueryInv
<1>4. PICK N \in Nat : N = QueryCount
  BY <1>2, <1>3, ListFacts
<1>5. PICK M \in Nat : M = MaxParameters
  BY RequestAssumption
<1>6. PICK n \in Nat : /\ n <= M /\ n < N /\ params = Kept(n)
                       /\ query = SubSeq(QueryList, n + 1, N)
  <2>1. PICK n \in 0..M : n < N /\ params = Kept(n) /\ query = SubSeq(QueryList, n + 1, N)
    BY <1>1, <1>3, <1>4, <1>5 DEF QueryInv
  <2> QED
    BY <2>1
<1>7. PICK m \in Nat : m = n + 1
  OBVIOUS
<1>8. QueryList \in Seq(Seq(STRING)) /\ Len(QueryList) = N
  BY <1>2, <1>3, <1>4, ListFacts
<1>9. m \in 1..Len(QueryList) /\ N \in m..Len(QueryList) /\ m \in 1..N
  BY <1>6, <1>7, <1>8
<1>10. Head(query) = QueryList[m] /\ Tail(query) = SubSeq(QueryList, m + 1, N)
  BY <1>6, <1>7, <1>8, <1>9, HeadTailOfSubSeq
<1>11. Len(query) = N - n
  <2>1. m \in Nat \ {0} /\ m <= N + 1 /\ N <= Len(QueryList) /\ N - m + 1 = N - n
    BY <1>6, <1>7, <1>8
  <2>2. Len(SubSeq(QueryList, m, N)) = N - m + 1
    BY <1>8, <2>1, PartFacts
  <2> QED
    BY <1>6, <1>7, <2>1, <2>2
<1>12. PICK pair : pair = Runs(Head(query), "=")
  OBVIOUS
<1>13. pair = NthPair(QueryText, m) /\ Len(pair) = 2
  BY <1>2, <1>3, <1>4, <1>9, <1>10, <1>12, ListFacts
<1>14. Len(params) = n
  BY <1>6, KeptFacts
<1>15. LET fits == Len(pair) >= 2 /\ Len(params) < MaxParameters
       IN  /\ stage' = IF fits /\ Len(query) > 1 THEN "query" ELSE "parsed"
           /\ params' = IF fits THEN Append(params, [key |-> pair[1], val |-> pair[2]])
                        ELSE NoParameters
           /\ query' = Tail(query)
  BY <1>12 DEF InsertParameter
<1>16. /\ stage' = IF n < M /\ m < N THEN "query" ELSE "parsed"
       /\ params' = IF n < M THEN Append(params, [key |-> pair[1], val |-> pair[2]])
                    ELSE NoParameters
       /\ query' = Tail(query)
  <2>1. (Len(pair) >= 2 /\ Len(params) < MaxParameters) <=> n < M
    BY <1>5, <1>13, <1>14
  <2>2. Len(query) > 1 <=> m < N
    BY <1>6, <1>7, <1>11
  <2> QED
    BY <1>15, <2>1, <2>2
<1>17. Append(params, [key |-> pair[1], val |-> pair[2]]) = Kept(m)
  BY <1>6, <1>7, <1>13, KeptFacts
<1>18. CASE n < M /\ m < N
  <2>1. stage' = "query" /\ params' = Kept(m) /\ query' = SubSeq(QueryList, m + 1, N)
    BY <1>10, <1>16, <1>17, <1>18
  <2>2. m \in 0..M
    BY <1>7, <1>18
  <2> QED
    BY <1>4, <1>5, <1>18, <2>1, <2>2
<1>19. CASE n < M /\ ~(m < N)
  <2>1. stage' = "parsed" /\ params' = Kept(m)
    BY <1>16, <1>17, <1>19
  <2>2. m = N /\ N <= M
    BY <1>6, <1>7, <1>19
  <2> QED
    BY <1>4, <1>5, <2>1, <2>2
<1>20. CASE ~(n < M)
  <2>1. stage' = "parsed" /\ params' = NoParameters
    BY <1>16, <1>20
  <2>2. ~(N <= M)
    BY <1>6, <1>20
  <2> QED
    BY <1>4, <1>5, <2>1, <2>2
<1> QED
  BY <1>18, <1>19, <1>20

\* A clean query has a parameter.
LEMMA EndKeepsQuery ==
    ASSUME ParserInv, FormInv, QueryInv, EndQuery
    PROVE  QueryInv'
<1>1. stage = "query" /\ query = <<>> /\ text' = text /\ stage' = "parsed"
  BY DEF EndQuery, lines
<1>2. WellFormed /\ text \in Seq(STRING)
  BY <1>1 DEF ParserInv, FormInv
<1>3. ~CleanQuery
  <2> SUFFICES ASSUME CleanQuery PROVE FALSE
    OBVIOUS
  <2>1. PICK N \in Nat : N = QueryCount
    BY <1>2, ListFacts
  <2>2. PICK n \in 0..MaxParameters : n < N /\ query = SubSeq(QueryList, n + 1, N)
    BY <1>1, <2>1 DEF QueryInv
  <2>3. QueryList \in Seq(Seq(STRING)) /\ Len(QueryList) = N
    BY <1>2, <2>1, ListFacts
  <2>4. n \in Nat
    BY RequestAssumption
  <2>5. n + 1 \in Nat \ {0} /\ n + 1 <= N + 1 /\ N <= Len(QueryList) /\ N - (n + 1) + 1 # 0
    BY <2>2, <2>3, <2>4
  <2>6. Len(query) = N - (n + 1) + 1
    BY <2>2, <2>3, <2>5, PartFacts
  <2>7. Len(query) = 0
    BY <1>1
  <2> QED
    BY <2>5, <2>6, <2>7
<1> QED
  BY <1>1, <1>3, TextStays DEF QueryInv

\* A callback leaves alone what was parsed, and goes on to a later stage.
LEMMA HandlerStageSteps ==
    ASSUME HandlerStep
    PROVE  /\ UNCHANGED <<lines, pos, key, headers, params>>
           /\ stage \in Taken \cup {"NULL"}
           /\ stage' \in HandlerStages \cup {"answered", "fault"}
           /\ stage = "NULL" => stage' = "answered"
<1> DEFINE Leads == \E where \in HandlerStages \cup {"answered", "fault"} : Goto(where)
<1>1. ASSUME NEW status, NEW hs, NEW body, Answer(status, hs, body) PROVE Leads
  BY <1>1 DEF Answer
<1>2. ASSUME NEW what, Stop(what) PROVE Leads
  BY <1>2 DEF Stop
<1>3. ASSUME NEW where \in HandlerStages, Goto(where) PROVE Leads
  BY <1>3
<1>4. /\ "called" \in HandlerStages /\ "execute" \in HandlerStages
      /\ "compile" \in HandlerStages /\ "pass input" \in HandlerStages
  BY DEF HandlerStages
<1> HIDE DEF Leads
<1>5. CASE AnswerNull
  <2>1. stage = "NULL" /\ Answer(500, Cors, <<>>)
    BY <1>5 DEF AnswerNull
  <2>2. /\ stage' = "answered" /\ UNCHANGED <<lines, pos, key, headers, params>>
    BY <2>1 DEF Answer, Goto
  <2> QED
    BY <2>1, <2>2
<1>6. CASE ~AnswerNull
  <2>1. stage \in Taken
    BY <1>6 DEF HandlerStep, AnswerOptions, AnswerStatic, Call, Validate, CreateFile, Compile,
       PassInput, StopCallback, InputCallback, ProgramCallback, Taken, HandlerStages
  <2>2. ASSUME AnswerOptions \/ AnswerStatic PROVE Leads
    <3>1. \E status, hs, body : Answer(status, hs, body)
      BY <2>2, Zenon DEF AnswerOptions, AnswerStatic
    <3> QED
      BY <1>1, <3>1
  <2>3. ASSUME Call PROVE Leads
    BY <1>3, <1>4, <2>3 DEF Call
  <2>4. ASSUME Validate PROVE Leads
    <3>1. \/ Answer(400, <<>>, <<Refusal>>)
          \/ Stop("null source_code")
          \/ Goto("execute")
      BY <2>4 DEF Validate
    <3>2. CASE Answer(400, <<>>, <<Refusal>>)
      BY <1>1, <3>2, Zenon
    <3>3. CASE Stop("null source_code")
      BY <1>2, <3>3
    <3>4. CASE Goto("execute")
      BY <1>3, <1>4, <3>4
    <3> QED
      BY <3>1, <3>2, <3>3, <3>4
  <2>5. ASSUME CreateFile PROVE Leads
    <3>1. \/ Stop("assert language")
          \/ Answer(500, JsonCors, <<"Failed to create source code file">>)
          \/ Answer(500, JsonCors, <<"Failed to write source code to file">>)
          \/ Goto("compile")
      BY <2>5 DEF CreateFile
    <3>2. CASE Stop("assert language")
      BY <1>2, <3>2
    <3>3. CASE \/ Answer(500, JsonCors, <<"Failed to create source code file">>)
               \/ Answer(500, JsonCors, <<"Failed to write source code to file">>)
      <4>1. \E body : Answer(500, JsonCors, body)
        BY <3>3, Zenon
      <4> QED
        BY <1>1, <4>1, Zenon
    <3>4. CASE Goto("compile")
      BY <1>3, <1>4, <3>4
    <3> QED
      BY <3>1, <3>2, <3>3, <3>4
  <2>6. ASSUME Compile PROVE Leads
    <3>1. \/ \E status, hs, body : Answer(status, hs, body)
          \/ Goto("pass input")
          \/ \E what : Stop(what)
      BY <2>6, Zenon DEF Compile
    <3> QED
      BY <1>1, <1>2, <1>3, <1>4, <3>1
  <2>7. ASSUME PassInput PROVE Leads
    <3>1. \/ \E status, hs, body : Answer(status, hs, body)
          \/ \E what : Stop(what)
      BY <2>7, Zenon DEF PassInput
    <3> QED
      BY <1>1, <1>2, <3>1
  <2>8. ASSUME StopCallback PROVE Leads
    <3>1. \/ \E status, hs, body : Answer(status, hs, body)
          \/ \E what : Stop(what)
      BY <2>8, Zenon DEF StopCallback, NoContentType, NoPid
    <3> QED
      BY <1>1, <1>2, <3>1
  <2>9. ASSUME InputCallback PROVE Leads
    <3>1. \/ \E status, hs, body : Answer(status, hs, body)
          \/ \E what : Stop(what)
      BY <2>9, Zenon DEF InputCallback, NoContentType, NoPid
    <3> QED
      BY <1>1, <1>2, <3>1
  <2>10. ASSUME ProgramCallback PROVE Leads
    <3>1. \/ \E status, hs, body : Answer(status, hs, body)
          \/ \E what : Stop(what)
      <4>1. CASE ~Has("pid")
        BY <2>10, <4>1, Zenon DEF ProgramCallback, NoPid
      <4>2. CASE Has("pid")
        BY <2>10, <4>2, Zenon DEF ProgramCallback
      <4> QED
        BY <4>1, <4>2
    <3> QED
      BY <1>1, <1>2, <3>1
  <2>11. Leads
    BY <1>6, <2>2, <2>3, <2>4, <2>5, <2>6, <2>7, <2>8, <2>9, <2>10 DEF HandlerStep
  <2>12. /\ UNCHANGED <<lines, pos, key, headers, params>>
         /\ stage' \in HandlerStages \cup {"answered", "fault"}
    BY <2>11 DEF Leads, Goto
  <2>13. stage # "NULL"
    BY <2>1 DEF Taken, HandlerStages
  <2> QED
    BY <2>1, <2>12, <2>13
<1> QED
  BY <1>5, <1>6

\* What a callback does it does with the parameters as they are.
LEMMA CallbackKeepsQuery ==
    ASSUME QueryInv, HandlerStep
    PROVE  QueryInv'
<1>1. stage' \in HandlerStages \cup {"answered", "fault"} /\ text' = text /\ params' = params
      /\ stage \in Taken \cup {"NULL"} /\ (stage = "NULL" => stage' = "answered")
  BY HandlerStageSteps DEF lines
<1>3. stage' \notin {"start", "headers", "value", "query"}
  BY <1>1 DEF HandlerStages
<1>4. stage' \in Taken => stage \in Taken
  BY <1>1 DEF Taken, HandlerStages
<1>5. ASSUME CleanQuery, stage' \in Taken
      PROVE  params = IF QueryCount <= MaxParameters THEN Kept(QueryCount) ELSE NoParameters
  BY <1>4, <1>5 DEF QueryInv
<1> QED
  BY <1>1, <1>3, <1>5, TextStays DEF QueryInv

\* Which stages a step of the parser leads from and to; the text stays.
LEMMA ParserStages ==
    ASSUME ParserStep
    PROVE  /\ text' = text
           /\ \/ stage = "start" /\ stage' = "headers" /\ ParseStartLine
              \/ stage = "start" /\ stage' = "NULL" /\ RefuseStartLine
              \/ /\ stage \in {"headers", "value"} /\ query' = query /\ params' = params
                 /\ stage' \in {"headers", "value", "query", "outside"}
                 /\ ParseHeaderKey \/ ParseHeaderValue \/ EndHeaders
              \/ /\ stage = "query" /\ stage' \in {"query", "parsed"}
                 /\ InsertParameter \/ EndQuery
<1>1. CASE ParseStartLine
  BY <1>1, Zenon DEF ParseStartLine
<1>2. CASE RefuseStartLine
  BY <1>2 DEF RefuseStartLine, lines
<1>3. CASE ParseHeaderKey
  <2>1. stage = "headers" /\ text' = text /\ query' = query /\ params' = params
    BY <1>3 DEF ParseHeaderKey, lines
  <2>2. stage' \in {"value", "query", "outside"}
    BY <1>3 DEF ParseHeaderKey, ParseFailure
  <2> QED
    BY <1>3, <2>1, <2>2
<1>4. CASE ParseHeaderValue
  <2>1. stage = "value" /\ text' = text /\ query' = query /\ params' = params
    BY <1>4 DEF ParseHeaderValue, lines
  <2>2. stage' \in {"headers", "query", "outside"}
    BY <1>4 DEF ParseHeaderValue, ParseFailure
  <2> QED
    BY <1>4, <2>1, <2>2
<1>5. CASE EndHeaders
  BY <1>5 DEF EndHeaders, lines
<1>6. CASE InsertParameter
  <2>1. stage = "query" /\ stage' \in {"query", "parsed"} /\ text' = text
    BY <1>6 DEF InsertParameter
  <2> QED
    BY <1>6, <2>1
<1>7. CASE EndQuery
  BY <1>7 DEF EndQuery, lines
<1> QED
  BY <1>1, <1>2, <1>3, <1>4, <1>5, <1>6, <1>7 DEF ParserStep

\* Nothing changes in a step that changes no variable.
LEMMA FormKeeps ==
    ASSUME FormInv, [HandlersNext]_vars
    PROVE  FormInv'
<1>1. CASE ParserStep
  <2>1. text' = text
    BY <1>1, ParserStages
  <2>2. WellFormed' = WellFormed
    BY <2>1, TextStays
  <2>3. CASE stage = "start" /\ stage' = "headers" /\ ParseStartLine
    <3>1. WellFormed
      BY <2>3 DEF ParseStartLine
    <3> QED
      BY <2>2, <2>3, <3>1 DEF FormInv
  <2>4. CASE stage = "start" /\ stage' = "NULL" /\ RefuseStartLine
    BY <2>2, <2>4 DEF FormInv, RefuseStartLine
  <2>5. CASE stage \in {"headers", "value", "query"}
             /\ stage' \in {"headers", "value", "query", "outside", "parsed"}
    BY <2>2, <2>5 DEF FormInv
  <2> QED
    BY <1>1, <2>3, <2>4, <2>5, ParserStages
<1>2. CASE HandlerStep
  <2>1. /\ text' = text /\ stage \in Taken \cup {"NULL"}
        /\ stage' \in HandlerStages \cup {"answered", "fault"}
        /\ stage = "NULL" => stage' = "answered"
    BY <1>2, HandlerStageSteps DEF lines
  <2>2. WellFormed' = WellFormed
    BY <2>1, TextStays
  <2>3. stage' # "NULL" /\ (stage' # "answered" => stage \notin {"start", "NULL", "answered"})
    BY <2>1 DEF Taken, HandlerStages
  <2> QED
    BY <2>2, <2>3 DEF FormInv
<1>3. CASE UNCHANGED vars
  <2>1. text' = text /\ stage' = stage
    BY <1>3 DEF vars, requestVars, lines
  <2> QED
    BY <2>1, TextStays DEF FormInv
<1> QED
  BY <1>1, <1>2, <1>3 DEF HandlersNext

\* The start line gives the query.
LEMMA StartKeepsQuery ==
    ASSUME ParserInv, QueryInv, ParseStartLine
    PROVE  QueryInv'
<1>1. stage = "start" /\ stage' = "headers" /\ text' = text /\ params' = params
  BY Zenon DEF ParseStartLine
<1>2. params' = NoParameters
  BY <1>1 DEF QueryInv
<1>3. CleanQuery => query' = QueryList
  BY StartLineParsed DEF ParserInv, QueryList, CleanQuery
<1>4. stage' \notin Taken /\ stage' # "query"
  BY <1>1 DEF Taken, HandlerStages
<1> QED
  BY <1>1, <1>2, <1>3, <1>4, TextStays DEF QueryInv

\* Every step keeps what is said of the query.
LEMMA QueryKeeps ==
    ASSUME ParserInv, FormInv, QueryInv, [HandlersNext]_vars
    PROVE  QueryInv'
<1>1. CASE ParserStep
  <2>1. CASE ParseStartLine
    BY <2>1, StartKeepsQuery
  <2>2. CASE stage = "start" /\ stage' = "NULL" /\ RefuseStartLine
    <3>1. stage' \notin Taken
      BY <2>2 DEF Taken, HandlerStages
    <3> QED
      BY <2>2, <3>1 DEF QueryInv
  <2>3. CASE /\ stage \in {"headers", "value"} /\ query' = query /\ params' = params
             /\ stage' \in {"headers", "value", "query", "outside"}
    <3>1. text' = text
      BY <1>1, ParserStages
    <3> QED
      BY <2>3, <3>1, HeadersLeaveQuery
  <2>4. CASE InsertParameter
    BY <2>4, InsertKeepsQuery
  <2>5. CASE EndQuery
    BY <2>5, EndKeepsQuery
  <2> QED
    BY <1>1, <2>1, <2>2, <2>3, <2>4, <2>5, ParserStages
<1>2. CASE HandlerStep
  BY <1>2, CallbackKeepsQuery
<1>3. CASE UNCHANGED vars
  <2>1. text' = text /\ stage' = stage /\ query' = query /\ params' = params
    BY <1>3 DEF vars, requestVars, lines
  <2>2. CleanQuery' = CleanQuery /\ QueryList' = QueryList /\ QueryCount' = QueryCount
        /\ \A n : Kept(n)' = Kept(n)
    BY <2>1, TextStays
  <2> QED
    BY <2>1, <2>2 DEF QueryInv
<1> QED
  BY <1>1, <1>2, <1>3 DEF HandlersNext

\* What has become of the query at each stage.
THEOREM QueryInvariance ==
    HandlersSpec => [](FormInv /\ QueryInv)
<1>1. HandlersInit => FormInv /\ QueryInv
  <2> SUFFICES ASSUME HandlersInit PROVE FormInv /\ QueryInv
    OBVIOUS
  <2>1. stage = "start" /\ params = NoParameters
    BY DEF HandlersInit, Init
  <2>2. stage \notin Taken
    BY <2>1 DEF Taken, HandlerStages
  <2> QED
    BY <2>1, <2>2 DEF FormInv, QueryInv
<1>2. HandlersInv /\ FormInv /\ QueryInv /\ [HandlersNext]_vars => FormInv' /\ QueryInv'
  BY FormKeeps, QueryKeeps DEF HandlersInv
<1> QED
  BY <1>1, <1>2, HandlersInvariance, PTL DEF HandlersSpec

\* The parameters of a clean query, joined again, are the query.
LEMMA KeptJoined ==
    ASSUME text \in Seq(STRING), WellFormed, CleanQuery
    PROVE  Joined(Kept(QueryCount)) = QueryText
<1> DEFINE piece(n) == (IF n > 1 THEN <<"&">> ELSE <<>>) \o Kept(QueryCount)[n].key \o <<"=">>
                       \o Kept(QueryCount)[n].val
<1>1. PICK N \in Nat : N = QueryCount /\ N = RunCount(QueryText, "&")
  BY ListFacts DEF QueryCount
<1>2. DOMAIN Kept(N) = 1..N
  BY KeptFacts
<1>3. ASSUME NEW n \in 1..N
      PROVE  Kept(N)[n].key = NthPair(QueryText, n)[1] /\ Kept(N)[n].val = NthPair(QueryText, n)[2]
  BY DEF Kept
<1> DEFINE P == [n \in 1..N |-> NthPiece(QueryText, n)]
<1>4. Joined(Kept(QueryCount)) = FlattenSeq(P)
  <2>1. \A n \in 1..N : (IF n > 1 THEN <<"&">> ELSE <<>>) \o Kept(N)[n].key \o <<"=">> \o Kept(N)[n].val
                        = NthPiece(QueryText, n)
    BY <1>3 DEF NthPiece
  <2>2. [n \in DOMAIN Kept(N) |-> (IF n > 1 THEN <<"&">> ELSE <<>>) \o Kept(N)[n].key \o <<"=">>
                                  \o Kept(N)[n].val] = P
    BY <1>2, <2>1
  <2> HIDE DEF P
  <2> QED
    BY <1>1, <2>2 DEF Joined
<1> DEFINE W == STRING \cup {"=", "&"}
<1>5. ASSUME NEW n \in 1..N PROVE NthPiece(QueryText, n) \in Seq(W)
  <2>1. NthPair(QueryText, n)[1] \in Seq(W) /\ NthPair(QueryText, n)[2] \in Seq(W)
    <3>1. NthPair(QueryText, n)[1] \in Seq(STRING) /\ NthPair(QueryText, n)[2] \in Seq(STRING)
      BY <1>1, ListFacts
    <3> QED
      BY <3>1, Wider
  <2>2. <<"=">> \in Seq(W) /\ <<"&">> \in Seq(W) /\ <<>> \in Seq(W)
    BY OneType
  <2> HIDE DEF W
  <2>3. PICK h \in Seq(W) : h = IF n > 1 THEN <<"&">> ELSE <<>>
    BY <2>2
  <2>4. h \o NthPair(QueryText, n)[1] \in Seq(W)
    BY <2>1, <2>3, JoinType
  <2>5. h \o NthPair(QueryText, n)[1] \o <<"=">> \in Seq(W)
    BY <2>2, <2>4, JoinType
  <2>6. h \o NthPair(QueryText, n)[1] \o <<"=">> \o NthPair(QueryText, n)[2] \in Seq(W)
    BY <2>1, <2>5, JoinType
  <2> QED
    BY <2>3, <2>6 DEF NthPiece
<1>6. P \in Seq(Seq(W)) /\ Len(P) = N
  <2> HIDE DEF W
  <2>1. P \in [1..N -> Seq(W)]
    BY <1>5
  <2> HIDE DEF P
  <2> QED
    BY <2>1, FunctionType
<1>7. \A n \in 1..N : P[n] = NthPiece(QueryText, n)
  OBVIOUS
<1>8. QueryText \in Seq(W) /\ CleanParts(QueryText)
  BY ListFacts, Wider
<1> HIDE DEF P, W
<1>9. FlattenSeq(P) = QueryText
  BY <1>1, <1>6, <1>7, <1>8, PairsJoined
<1> QED
  BY <1>4, <1>9

\* A parameter with something on both sides of an equals sign is cut in two, or
\* in more.
LEMMA ValuedIsCut ==
    ASSUME NEW S, NEW p \in Seq(S)
    PROVE  Len(Runs(p, "=")) >= 2 <=> Valued(p)
<1> DEFINE R == RunStarts(p, "=")
           start(n) == RunStart(p, "=", n)
<1>1. PICK N \in Nat : N = RunCount(p, "=")
  BY RunFacts
<1>2. /\ \A n \in 1..N : start(n) \in R
      /\ \A m, n \in 1..N : m < n => start(m) < start(n)
      /\ \A i \in R : \E n \in 1..N : start(n) = i
  BY <1>1, RunFacts
<1>3. Len(Runs(p, "=")) = N
  <2>1. DOMAIN Runs(p, "=") = 1..N
    BY <1>1, RunsAre
  <2>2. Runs(p, "=") = [n \in 1..N |-> Runs(p, "=")[n]]
    BY <1>1, RunsAre
  <2>3. Runs(p, "=") \in [1..N -> Range(Runs(p, "="))]
    BY <2>1, <2>2 DEF Range
  <2> QED
    BY <2>3, FunctionType
<1>4. R \in SUBSET Nat /\ \A i \in R : i \in 1..Len(p) /\ p[i] # "=" /\ (i = 1 \/ p[i - 1] = "=")
  BY DEF RunStarts
<1> HIDE DEF R, start
<1>5. ASSUME N >= 2 PROVE Valued(p)
  <2>1. 1 \in 1..N /\ 2 \in 1..N /\ 1 < 2
    BY <1>5
  <2>2. PICK a, c \in R : a = start(1) /\ c = start(2) /\ a < c
    BY <1>2, <2>1
  <2>3. a \in 1..Len(p) /\ c \in 1..Len(p) /\ p[a] # "=" /\ p[c] # "=" /\ p[c - 1] = "="
    <3>1. c # 1
      BY <1>4, <2>2
    <3> QED
      BY <1>4, <3>1
  <2>4. c - 1 # a
    BY <2>3
  <2>5. c - 1 \in 1..Len(p) /\ a < c - 1 /\ c - 1 < c
    BY <2>2, <2>3, <2>4
  <2>6. DOMAIN p = 1..Len(p)
    OBVIOUS
  <2> QED
    BY <2>3, <2>5, <2>6 DEF Valued
<1>6. ASSUME Valued(p) PROVE N >= 2
  <2>1. PICK a, b, c \in 1..Len(p) : /\ a < b /\ b < c
                                     /\ p[a] # "=" /\ p[b] = "=" /\ p[c] # "="
    BY <1>6 DEF Valued
  <2> DEFINE Before == {i \in 1..a : \A m \in i..a : p[m] # "="}
             After == {i \in b + 1 .. c : \A m \in i..c : p[m] # "="}
  <2>2. PICK i \in R : i <= a
    <3>1. Before \in SUBSET Nat /\ a \in Before
      BY <2>1
    <3>2. PICK i \in Before : \A j \in Before : i <= j
      <4> HIDE DEF Before
      <4> QED
        BY <3>1, MinFacts
    <3>3. i \in 1..a /\ p[i] # "="
      BY <2>1, <3>2
    <3>4. i = 1 \/ p[i - 1] = "="
      <4> SUFFICES ASSUME i # 1, p[i - 1] # "=" PROVE FALSE
        OBVIOUS
      <4>1. i - 1 \in 1..a /\ ~(i <= i - 1)
        BY <2>1, <3>3
      <4>2. \A m \in (i - 1)..a : m = i - 1 \/ m \in i..a
        BY <3>3
      <4>3. i - 1 \in Before
        BY <3>2, <4>1, <4>2
      <4> QED
        BY <3>2, <4>1, <4>3
    <3>5. i \in 1..Len(p) /\ i <= a
      BY <2>1, <3>3
    <3> QED
      BY <3>3, <3>4, <3>5 DEF R, RunStarts
  <2>3. PICK k \in R : b < k
    <3>1. After \in SUBSET Nat /\ c \in After
      BY <2>1
    <3>2. PICK k \in After : \A j \in After : k <= j
      <4> HIDE DEF After
      <4> QED
        BY <3>1, MinFacts
    <3>3. k \in b + 1 .. c /\ p[k] # "="
      BY <2>1, <3>2
    <3>4. p[k - 1] = "="
      <4> SUFFICES ASSUME p[k - 1] # "=" PROVE FALSE
        OBVIOUS
      <4>1. k - 1 # b
        BY <2>1
      <4>2. k - 1 \in b + 1 .. c /\ ~(k <= k - 1)
        BY <2>1, <3>3, <4>1
      <4>3. \A m \in (k - 1)..c : m = k - 1 \/ m \in k..c
        BY <2>1, <3>3
      <4>4. k - 1 \in After
        BY <3>2, <4>2, <4>3
      <4> QED
        BY <3>2, <4>2, <4>4
    <3>5. k \in 1..Len(p) /\ b < k
      BY <2>1, <3>3
    <3> QED
      BY <3>3, <3>4, <3>5 DEF R, RunStarts
  <2>4. i # k
    BY <1>4, <2>1, <2>2, <2>3
  <2>5. PICK m, n \in 1..N : start(m) = i /\ start(n) = k
    BY <1>2
  <2>6. m # n
    BY <2>4, <2>5
  <2> QED
    BY <2>6
<1> QED
  BY <1>3, <1>5, <1>6

\* Any query is a list of texts.
LEMMA AnyListFacts ==
    ASSUME text \in Seq(STRING), WellFormed, HasQuery
    PROVE  /\ QueryCount \in Nat
           /\ QueryList \in Seq(Seq(STRING)) /\ Len(QueryList) = QueryCount
<1> DEFINE q == QueryText
<1>1. q \in Seq(STRING)
  <2>1. PICK b, c, f, m \in Nat : IsQuery(b, c, f, m)
    BY QueryFacts
  <2> QED
    BY <2>1 DEF IsQuery
<1>2. QueryList = Runs(q, "&") /\ QueryCount = RunCount(q, "&")
  BY DEF QueryList, QueryCount
<1> HIDE DEF q
<1>3. PICK N \in Nat : N = RunCount(q, "&")
  BY <1>1, RunFacts
<1>4. ASSUME NEW n \in 1..N PROVE Runs(q, "&")[n] \in Seq(STRING)
  <2>1. PICK a : a = RunStart(q, "&", n)
    OBVIOUS
  <2>2. a \in 1..Len(q)
    BY <1>1, <1>3, <2>1, RunFacts DEF RunStarts
  <2>3. a \in Nat \ {0} /\ RunEnd(q, "&", a) \in 0..Len(q)
    <3>1. a \in Nat \ {0} /\ Len(q) \in Nat
      BY <1>1, <2>2
    <3>2. Find(q, a, "&") # 0 => Find(q, a, "&") \in 1..Len(q)
      BY <1>1, <3>1, FindFacts
    <3> QED
      BY <3>1, <3>2 DEF RunEnd
  <2>4. Runs(q, "&")[n] = SubSeq(q, a, RunEnd(q, "&", a))
    BY <1>3, <2>1, RunsAre
  <2> QED
    BY <1>1, <2>3, <2>4, PartType
<1>5. Runs(q, "&") \in [1..N -> Seq(STRING)]
  <2>1. Runs(q, "&") = [n \in 1..N |-> Runs(q, "&")[n]]
    BY <1>3, RunsAre
  <2> QED
    BY <1>4, <2>1
<1>6. Runs(q, "&") \in Seq(Seq(STRING)) /\ Len(Runs(q, "&")) = N
  BY <1>5, FunctionType
<1> QED
  BY <1>2, <1>3, <1>6

\* What has become of any query at each stage: it is as it was sent as long as
\* there are headers, then a list of which as many parameters were taken as there
\* are, and in the end it has left all of them or none.
WholeInv ==
    HasQuery =>
       /\ stage \in {"headers", "value"} => query = QueryList
       /\ stage = "query" =>
             \E n \in 0..MaxParameters :
                 /\ n <= QueryCount /\ (n < QueryCount \/ QueryCount = 0)
                 /\ Len(params) = n /\ query = SubSeq(QueryList, n + 1, QueryCount)
                 /\ \A i \in 1..n : Valued(QueryList[i])
       /\ stage = "parsed" =>
             Len(params) = IF /\ QueryCount <= MaxParameters
                              /\ \A i \in 1..QueryCount : Valued(QueryList[i])
                           THEN QueryCount ELSE 0

\* As long as there are headers nothing is taken.
LEMMA HeadersLeaveWhole ==
    ASSUME ParserInv, FormInv, QueryInv, WholeInv, stage \in {"headers", "value"},
           stage' \in {"headers", "value", "query", "outside"},
           text' = text, query' = query, params' = params
    PROVE  WholeInv'
<1>1. params = NoParameters /\ WellFormed /\ text \in Seq(STRING)
  BY DEF ParserInv, FormInv, QueryInv
<1>2. ASSUME HasQuery
      PROVE  \E n \in 0..MaxParameters :
                 /\ n <= QueryCount /\ (n < QueryCount \/ QueryCount = 0)
                 /\ Len(params) = n /\ query = SubSeq(QueryList, n + 1, QueryCount)
                 /\ \A i \in 1..n : Valued(QueryList[i])
  <2>1. query = QueryList
    BY <1>2 DEF WholeInv
  <2>2. /\ QueryCount \in Nat /\ QueryList \in Seq(Seq(STRING)) /\ Len(QueryList) = QueryCount
    BY <1>1, <1>2, AnyListFacts
  <2>3. SubSeq(QueryList, 1, QueryCount) = QueryList
    BY <2>2, SubSeqFull
  <2>4. /\ 0 \in 0..MaxParameters /\ 0 <= QueryCount /\ (0 < QueryCount \/ QueryCount = 0)
        /\ 0 + 1 = 1 /\ 1..0 = {}
    BY <2>2, RequestAssumption
  <2>5. Len(params) = 0
    BY <1>1 DEF NoParameters
  <2> QED
    BY <2>1, <2>3, <2>4, <2>5
<1>3. stage' \in {"headers", "value"} /\ HasQuery => query = QueryList
  BY DEF WholeInv
<1>4. stage' # "parsed"
  OBVIOUS
<1> QED
  BY <1>2, <1>3, <1>4, TextStays DEF WholeInv

\* A parameter is added to the list, or all are dropped.
LEMMA InsertKeepsWhole ==
    ASSUME ParserInv, FormInv, WholeInv, InsertParameter
    PROVE  WholeInv'
<1>1. stage = "query" /\ query # <<>> /\ text' = text /\ stage' \in {"query", "parsed"}
  BY DEF InsertParameter
<1>2. WellFormed /\ text \in Seq(STRING)
  BY <1>1 DEF ParserInv, FormInv
<1>3. SUFFICES ASSUME HasQuery
               PROVE  /\ stage' = "query" =>
                            \E n \in 0..MaxParameters :
                               /\ n <= QueryCount /\ (n < QueryCount \/ QueryCount = 0)
                               /\ Len(params') = n
                               /\ query' = SubSeq(QueryList, n + 1, QueryCount)
                               /\ \A i \in 1..n : Valued(QueryList[i])
                      /\ stage' = "parsed" =>
                            Len(params') = IF /\ QueryCount <= MaxParameters
                                              /\ \A i \in 1..QueryCount : Valued(QueryList[i])
                                           THEN QueryCount ELSE 0
  BY <1>1, TextStays DEF WholeInv
<1>4. PICK N \in Nat : N = QueryCount
  BY <1>2, <1>3, AnyListFacts
<1>5. PICK M \in Nat : M = MaxParameters
  BY RequestAssumption
<1>6. PICK n \in Nat : /\ n <= M /\ n <= N /\ (n < N \/ N = 0) /\ Len(params) = n
                       /\ query = SubSeq(QueryList, n + 1, N)
                       /\ \A i \in 1..n : Valued(QueryList[i])
  <2>1. PICK n \in 0..M : /\ n <= N /\ (n < N \/ N = 0) /\ Len(params) = n
                          /\ query = SubSeq(QueryList, n + 1, N)
                          /\ \A i \in 1..n : Valued(QueryList[i])
    BY <1>1, <1>3, <1>4, <1>5 DEF WholeInv
  <2> QED
    BY <2>1
<1>7. PICK m \in Nat : m = n + 1
  OBVIOUS
<1>8. QueryList \in Seq(Seq(STRING)) /\ Len(QueryList) = N
  BY <1>2, <1>3, <1>4, AnyListFacts
<1>9. Len(query) = N - n
  <2>1. m \in Nat \ {0} /\ m <= N + 1 /\ N <= Len(QueryList) /\ N - m + 1 = N - n
    BY <1>6, <1>7, <1>8
  <2>2. Len(SubSeq(QueryList, m, N)) = N - m + 1
    BY <1>8, <2>1, PartFacts
  <2> QED
    BY <1>6, <1>7, <2>1, <2>2
<1>10. n < N
  <2> SUFFICES ASSUME N = 0 PROVE FALSE
    BY <1>6
  <2>1. n = 0
    BY <1>6
  <2>2. query = SubSeq(QueryList, 1, 0)
    BY <1>6, <2>1
  <2>3. SubSeq(QueryList, 1, 0) = <<>>
    BY <1>8, SubSeqEmpty
  <2> QED
    BY <1>1, <2>2, <2>3
<1>11. m \in 1..Len(QueryList) /\ N \in m..Len(QueryList) /\ m \in 1..N
  BY <1>7, <1>8, <1>10
<1>12. Head(query) = QueryList[m] /\ Tail(query) = SubSeq(QueryList, m + 1, N)
  BY <1>6, <1>7, <1>8, <1>11, HeadTailOfSubSeq
<1>13. PICK pair : pair = Runs(Head(query), "=")
  OBVIOUS
<1>14. Len(pair) >= 2 <=> Valued(QueryList[m])
  <2>1. QueryList[m] \in Seq(STRING)
    BY <1>8, <1>11
  <2> QED
    BY <1>12, <1>13, <2>1, ValuedIsCut
<1>15. LET fits == Len(pair) >= 2 /\ Len(params) < MaxParameters
       IN  /\ stage' = IF fits /\ Len(query) > 1 THEN "query" ELSE "parsed"
           /\ params' = IF fits THEN Append(params, [key |-> pair[1], val |-> pair[2]])
                        ELSE NoParameters
           /\ query' = Tail(query)
  BY <1>13 DEF InsertParameter
<1> DEFINE fits == Valued(QueryList[m]) /\ n < M
<1>16. /\ stage' = IF fits /\ m < N THEN "query" ELSE "parsed"
       /\ params' = IF fits THEN Append(params, [key |-> pair[1], val |-> pair[2]])
                    ELSE NoParameters
       /\ query' = Tail(query)
  <2>1. (Len(pair) >= 2 /\ Len(params) < MaxParameters) <=> fits
    BY <1>5, <1>6, <1>14
  <2>2. Len(query) > 1 <=> m < N
    BY <1>7, <1>9, <1>10
  <2> HIDE DEF fits
  <2> QED
    BY <1>15, <2>1, <2>2
<1>17. Len(Append(params, [key |-> pair[1], val |-> pair[2]])) = m
  <2>1. PICK S : params \in Seq(S)
    BY DEF ParserInv
  <2>2. PICK e : e = [key |-> pair[1], val |-> pair[2]]
    OBVIOUS
  <2>3. params \in Seq(S \cup {e}) /\ e \in S \cup {e}
    BY <2>1
  <2>4. Len(Append(params, e)) = Len(params) + 1
    BY <2>3
  <2> QED
    BY <1>6, <1>7, <2>2, <2>4
<1>18. ASSUME fits PROVE \A i \in 1..m : Valued(QueryList[i])
  <2>1. \A i \in 1..m : i = m \/ i \in 1..n
    BY <1>7
  <2> QED
    BY <1>6, <1>18, <2>1
<1>19. CASE fits /\ m < N
  <2>1. stage' = "query" /\ Len(params') = m /\ query' = SubSeq(QueryList, m + 1, N)
    BY <1>12, <1>16, <1>17, <1>19
  <2>2. m \in 0..M /\ m <= N
    BY <1>7, <1>19
  <2> QED
    BY <1>4, <1>5, <1>18, <1>19, <2>1, <2>2
<1>20. CASE fits /\ ~(m < N)
  <2>1. stage' = "parsed" /\ Len(params') = m
    BY <1>16, <1>17, <1>20
  <2>2. m = N /\ N <= M
    BY <1>7, <1>10, <1>20
  <2> QED
    BY <1>4, <1>5, <1>18, <1>20, <2>1, <2>2
<1>21. CASE ~fits
  <2>1. stage' = "parsed" /\ params' = NoParameters
    BY <1>16, <1>21
  <2>2. Len(params') = 0
    BY <2>1 DEF NoParameters
  <2>3. ~(N <= M /\ \A i \in 1..N : Valued(QueryList[i]))
    BY <1>10, <1>11, <1>21
  <2> QED
    BY <1>4, <1>5, <2>1, <2>2, <2>3
<1> QED
  BY <1>19, <1>20, <1>21

\* A query of which nothing is taken has no parameters.
LEMMA EndKeepsWhole ==
    ASSUME ParserInv, FormInv, WholeInv, EndQuery
    PROVE  WholeInv'
<1>1. /\ stage = "query" /\ query = <<>> /\ text' = text /\ stage' = "parsed"
      /\ params' = params
  BY DEF EndQuery, lines
<1>2. WellFormed /\ text \in Seq(STRING)
  BY <1>1 DEF ParserInv, FormInv
<1>3. SUFFICES ASSUME HasQuery
               PROVE  Len(params) = IF /\ QueryCount <= MaxParameters
                                       /\ \A i \in 1..QueryCount : Valued(QueryList[i])
                                    THEN QueryCount ELSE 0
  BY <1>1, TextStays DEF WholeInv
<1>4. PICK N \in Nat : N = QueryCount
  BY <1>2, <1>3, AnyListFacts
<1>5. PICK n \in Nat : /\ n <= N /\ (n < N \/ N = 0) /\ Len(params) = n
                       /\ query = SubSeq(QueryList, n + 1, N)
  <2>1. PICK n \in 0..MaxParameters : /\ n <= N /\ (n < N \/ N = 0) /\ Len(params) = n
                                      /\ query = SubSeq(QueryList, n + 1, N)
    BY <1>1, <1>3, <1>4 DEF WholeInv
  <2>2. n \in Nat
    BY RequestAssumption
  <2> QED
    BY <2>1, <2>2
<1>6. QueryList \in Seq(Seq(STRING)) /\ Len(QueryList) = N
  BY <1>2, <1>3, <1>4, AnyListFacts
<1>7. Len(query) = N - n
  <2>1. n + 1 \in Nat \ {0} /\ n + 1 <= N + 1 /\ N <= Len(QueryList) /\ N - (n + 1) + 1 = N - n
    BY <1>5, <1>6
  <2>2. Len(query) = N - (n + 1) + 1
    BY <1>5, <1>6, <2>1, PartFacts
  <2> QED
    BY <2>1, <2>2
<1>8. Len(query) = 0
  BY <1>1
<1>9. N = 0 /\ n = 0
  BY <1>5, <1>7, <1>8
<1> QED
  BY <1>4, <1>5, <1>9

\* Every step keeps what is said of any query.
LEMMA WholeKeeps ==
    ASSUME ParserInv, FormInv, QueryInv, WholeInv, [HandlersNext]_vars
    PROVE  WholeInv'
<1>1. CASE ParserStep
  <2>1. CASE ParseStartLine
    <3>1. stage' = "headers" /\ text' = text
      BY <2>1, Zenon DEF ParseStartLine
    <3>2. HasQuery => query' = QueryList
      BY <2>1, StartLineParsed DEF ParserInv, QueryList
    <3> QED
      BY <3>1, <3>2, TextStays DEF WholeInv
  <2>2. CASE stage = "start" /\ stage' = "NULL" /\ RefuseStartLine
    BY <2>2 DEF WholeInv
  <2>3. CASE /\ stage \in {"headers", "value"} /\ query' = query /\ params' = params
             /\ stage' \in {"headers", "value", "query", "outside"}
    <3>1. text' = text
      BY <1>1, ParserStages
    <3> QED
      BY <2>3, <3>1, HeadersLeaveWhole
  <2>4. CASE InsertParameter
    BY <2>4, InsertKeepsWhole
  <2>5. CASE EndQuery
    BY <2>5, EndKeepsWhole
  <2> QED
    BY <1>1, <2>1, <2>2, <2>3, <2>4, <2>5, ParserStages
<1>2. CASE HandlerStep
  <2>1. stage' \in HandlerStages \cup {"answered", "fault"}
    BY <1>2, HandlerStageSteps
  <2>2. stage' \notin {"headers", "value", "query", "parsed"}
    BY <2>1 DEF HandlerStages
  <2> QED
    BY <2>2 DEF WholeInv
<1>3. CASE UNCHANGED vars
  <2>1. text' = text /\ stage' = stage /\ query' = query /\ params' = params
    BY <1>3 DEF vars, requestVars, lines
  <2>2. HasQuery' = HasQuery /\ QueryList' = QueryList /\ QueryCount' = QueryCount
    BY <2>1, TextStays
  <2> QED
    BY <2>1, <2>2 DEF WholeInv
<1> QED
  BY <1>1, <1>2, <1>3 DEF HandlersNext

\* What has become of any query at each stage.
THEOREM WholeInvariance ==
    HandlersSpec => []WholeInv
<1>1. HandlersInit => WholeInv
  BY DEF HandlersInit, Init, WholeInv
<1>2. HandlersInv /\ (FormInv /\ QueryInv) /\ WholeInv /\ [HandlersNext]_vars => WholeInv'
  BY WholeKeeps DEF HandlersInv
<1> QED
  BY <1>1, <1>2, HandlersInvariance, QueryInvariance, PTL DEF HandlersSpec

\* Any query leaves all of its parameters or none, and one that is nothing but
\* names and values arrives as it was sent if they fit.
THEOREM QueryKept ==
    HandlersSpec => []QueryKeptOrDropped
<1>1. HandlersInv /\ FormInv /\ QueryInv /\ WholeInv => QueryKeptOrDropped
  <2> SUFFICES ASSUME HandlersInv, FormInv, QueryInv, WholeInv, stage = "parsed"
               PROVE  /\ HasQuery =>
                            Len(params) =
                               IF /\ Len(Parameters) <= MaxParameters
                                  /\ \A i \in DOMAIN Parameters : Valued(Parameters[i])
                               THEN Len(Parameters) ELSE 0
                      /\ CleanQuery =>
                            IF Cardinality(Starts) <= MaxParameters THEN Joined(params) = QueryText
                            ELSE params = NoParameters
    BY DEF QueryKeptOrDropped
  <2>1. text \in Seq(STRING) /\ WellFormed
    BY DEF HandlersInv, ParserInv, FormInv
  <2>2. ASSUME CleanQuery
        PROVE  IF Cardinality(Starts) <= MaxParameters THEN Joined(params) = QueryText
               ELSE params = NoParameters
    <3>1. Cardinality(Starts) = QueryCount
      BY <2>1, <2>2, ListFacts
    <3>2. params = IF QueryCount <= MaxParameters THEN Kept(QueryCount) ELSE NoParameters
      BY <2>2 DEF QueryInv, Taken
    <3> QED
      BY <2>1, <2>2, <3>1, <3>2, KeptJoined
  <2>3. ASSUME HasQuery
        PROVE  Len(params) = IF /\ Len(Parameters) <= MaxParameters
                                /\ \A i \in DOMAIN Parameters : Valued(Parameters[i])
                             THEN Len(Parameters) ELSE 0
    <3>1. Parameters = QueryList
      BY DEF Parameters, QueryList
    <3>2. /\ QueryCount \in Nat /\ QueryList \in Seq(Seq(STRING)) /\ Len(QueryList) = QueryCount
      BY <2>1, <2>3, AnyListFacts
    <3>3. DOMAIN QueryList = 1..QueryCount
      BY <3>2
    <3>4. Len(params) = IF /\ QueryCount <= MaxParameters
                           /\ \A i \in 1..QueryCount : Valued(QueryList[i])
                        THEN QueryCount ELSE 0
      BY <2>3 DEF WholeInv
    <3> QED
      BY <3>1, <3>2, <3>3, <3>4
  <2> QED
    BY <2>2, <2>3
<1> QED
  BY <1>1, HandlersInvariance, QueryInvariance, WholeInvariance, PTL

-----------------------------------------------------------------------------
(* A header line *)

\* The nth line of h begins at a; its CRLF is at e.
IsLineAt(h, n, a, e) == a = RunStart(h, "CRLF", n) /\ e = Find(h, a, "CRLF")

\* The nth header line ends with the first CRLF behind its beginning.
LEMMA LineFacts ==
    ASSUME NEW S, NEW h \in Seq(S), Closed(h), NEW n \in 1..RunCount(h, "CRLF")
    PROVE  \E a, e \in Nat :
              /\ IsLineAt(h, n, a, e)
              /\ 1 <= a /\ a < e /\ e <= Len(h) /\ h[a] # "CRLF" /\ h[e] = "CRLF"
              /\ Runs(h, "CRLF")[n] = SubSeq(h, a, e - 1)
              /\ e = Len(h) => n = RunCount(h, "CRLF")
              /\ e # Len(h) => /\ n + 1 \in 1..RunCount(h, "CRLF")
                               /\ RunStart(h, "CRLF", n + 1) = e + 1
<1>1. PICK a : a = RunStart(h, "CRLF", n)
  OBVIOUS
<1>2. PICK e : e = Find(h, a, "CRLF")
  OBVIOUS
<1>3. /\ a \in 1..Len(h) /\ h[a] # "CRLF"
      /\ e \in {0, Len(h)} => n = RunCount(h, "CRLF")
      /\ e # 0 =>
            /\ e \in a + 1 .. Len(h) /\ h[e] = "CRLF"
            /\ e + 1 \in RunStarts(h, "CRLF") =>
                  /\ n + 1 \in 1..RunCount(h, "CRLF")
                  /\ RunStart(h, "CRLF", n + 1) = e + 1
  BY <1>1, <1>2, NextRun
<1>4. PICK L \in Nat \ {0} : L = Len(h)
  BY DEF Closed
<1>5. h[L] = "CRLF" /\ \A i \in 1 .. L - 1 : ~(h[i] = "CRLF" /\ h[i + 1] = "CRLF")
  BY <1>4 DEF Closed
<1>6. a \in Nat /\ 1 <= a /\ a <= L
  BY <1>3, <1>4
<1>7. e # 0
  <2>1. a \in Nat \ {0} /\ L \in a..Len(h)
    BY <1>4, <1>6
  <2>2. e = 0 => \A k \in a..Len(h) : h[k] # "CRLF"
    BY <1>2, <2>1, FindFacts
  <2> QED
    BY <1>5, <2>1, <2>2
<1>8. e \in Nat /\ a < e /\ e <= L /\ h[e] = "CRLF"
  BY <1>3, <1>4, <1>6, <1>7
<1>9. Runs(h, "CRLF")[n] = SubSeq(h, a, e - 1)
  <2>1. Runs(h, "CRLF")[n] = SubSeq(h, a, RunEnd(h, "CRLF", a))
    BY <1>1, RunsAre
  <2>2. RunEnd(h, "CRLF", a) = e - 1
    BY <1>2, <1>7 DEF RunEnd
  <2> QED
    BY <2>1, <2>2
<1>10. e = Len(h) => n = RunCount(h, "CRLF")
  BY <1>3
<1>11. ASSUME e # Len(h) PROVE e + 1 \in RunStarts(h, "CRLF")
  <2>1. PICK b \in Nat : b = e + 1
    BY <1>8
  <2>2. e \in 1 .. L - 1 /\ b \in 1..L /\ b - 1 = e
    BY <1>4, <1>6, <1>8, <1>11, <2>1
  <2>3. h[b] # "CRLF"
    BY <1>5, <1>8, <2>1, <2>2
  <2>4. b \in RunStarts(h, "CRLF")
    BY <1>4, <1>8, <2>2, <2>3 DEF RunStarts
  <2> QED
    BY <2>1, <2>4
<1>12. e # Len(h) => /\ n + 1 \in 1..RunCount(h, "CRLF")
                     /\ RunStart(h, "CRLF", n + 1) = e + 1
  BY <1>3, <1>7, <1>11
<1>13. IsLineAt(h, n, a, e)
  BY <1>1, <1>2 DEF IsLineAt
<1> QED
  BY <1>3, <1>4, <1>6, <1>8, <1>9, <1>10, <1>12, <1>13

\* Where the parts of a clean line are: the name up to the colon at c, the value
\* from v to z.
IsCleanLine(h, a, e, c, v, z) ==
    /\ 1 <= a /\ a < c /\ c < v /\ v <= z /\ z < e /\ e <= Len(h)
    /\ h[c] = ":" /\ \A i \in a .. c - 1 : h[i] # ":" /\ h[i] \notin White /\ h[i] # Quote
    /\ h[v] \notin White /\ h[v] # Quote /\ \A i \in c + 1 .. v - 1 : h[i] \in White
    /\ h[z] \notin White /\ \A i \in z + 1 .. e - 1 : h[i] \in White
    /\ Find(SubSeq(h, a, e - 1), 1, ":") = c - a + 1
    /\ NameOf(SubSeq(h, a, e - 1)) = SubSeq(h, a, c - 1)
    /\ ValueOf(SubSeq(h, a, e - 1)) = SubSeq(h, v, z)

\* The parts of what is behind the colon are the parts of the line.
ValuePart(l, f) == SubSeq(l, f, Len(l))
HasValue(l, f) == f <= Len(l) /\ \E i \in f .. Len(l) : l[i] \notin White
IsValue(l, f, m, v, z) ==
    /\ Len(l) = m /\ f <= v /\ v <= z /\ z <= m
    /\ l[v] \notin White /\ \A i \in f .. v - 1 : l[i] \in White
    /\ l[z] \notin White /\ \A i \in z + 1 .. m : l[i] \in White
    /\ Trimmed(ValuePart(l, f), find_non_space(ValuePart(l, f), 1), Len(ValuePart(l, f)))
          = SubSeq(l, v, z)

\* The value of a line is between the white space around it.
LEMMA ValueFacts ==
    ASSUME NEW S, NEW l \in Seq(S), NEW f \in Nat, f # 0, HasValue(l, f)
    PROVE  \E m, v, z \in Nat : IsValue(l, f, m, v, z)
<1>a. PICK m \in Nat : m = Len(l)
  OBVIOUS
<1>b. PICK w : w = SubSeq(l, f, m)
  OBVIOUS
<1>c. f <= m /\ 1 <= f /\ \E i \in f .. m : l[i] \notin White
  BY <1>a DEF HasValue
<1>1. PICK v \in Nat : /\ f <= v /\ v <= m /\ l[v] \notin White
                       /\ \A i \in f .. v - 1 : l[i] \in White
  <2>1. PICK v : v = find_non_space(l, f)
    OBVIOUS
  <2>2. f \in Nat /\ f # 0
    OBVIOUS
  <2>3. v # 0
    BY <1>a, <1>c, <2>1, <2>2, SpaceFacts
  <2>4. v \in f..Len(l) /\ l[v] \notin White /\ \A i \in f .. v - 1 : l[i] \in White
    BY <2>1, <2>2, <2>3, SpaceFacts
  <2>5. v \in Nat /\ f <= v /\ v <= m
    <3>1. v \in f..m
      BY <1>a, <2>4
    <3> QED
      BY <3>1
  <2> QED
    BY <2>4, <2>5
<1>2. PICK z \in Nat : /\ v <= z /\ z <= m /\ l[z] \notin White
                       /\ \A i \in z + 1 .. m : l[i] \in White
  <2>1. PICK z : z = LastNonSpace(l, v, m)
    OBVIOUS
  <2>2. v \in v..m
    BY <1>1
  <2>3. z \in v..m /\ l[z] \notin White /\ \A i \in z + 1 .. m : l[i] \in White
    BY <1>1, <2>1, <2>2, LastFacts
  <2>4. z \in Nat /\ v <= z /\ z <= m
    BY <2>3
  <2> QED
    BY <2>3, <2>4
<1>3. PICK n \in Nat : n = m - f + 1
  <2>1. m - f + 1 \in Nat
    BY <1>c
  <2> QED
    BY <2>1
<1>4. w \in Seq(S) /\ Len(w) = n /\ \A i \in 1..n : w[i] = l[f + i - 1]
  <2>1. f \in Nat \ {0} /\ f <= m + 1 /\ m <= Len(l)
    BY <1>a, <1>c
  <2> QED
    BY <1>b, <1>3, <2>1, PartFacts
<1>5. PICK x, y \in Nat : x = v - f + 1 /\ y = z - f + 1
  <2>1. v - f + 1 \in Nat /\ z - f + 1 \in Nat
    BY <1>1, <1>2
  <2> QED
    BY <2>1
<1>6. 1 <= x /\ x <= y /\ y <= n /\ f + x - 1 = v /\ f + y - 1 = z
  BY <1>1, <1>2, <1>3, <1>5
<1>7. w[x] \notin White /\ w[y] \notin White
  <2>1. x \in 1..n /\ y \in 1..n
    BY <1>6
  <2>2. w[x] = l[v] /\ w[y] = l[z]
    BY <1>4, <1>6, <2>1
  <2> QED
    BY <1>1, <1>2, <2>2
<1>8. ASSUME NEW i \in 1 .. x - 1 PROVE w[i] \in White
  <2>1. PICK k \in Nat : k = f + i - 1
    OBVIOUS
  <2>2. k \in f .. v - 1 /\ i \in 1..n
    BY <1>6, <2>1
  <2>3. w[i] = l[k]
    BY <1>4, <2>1, <2>2
  <2> QED
    BY <1>1, <2>2, <2>3
<1>9. ASSUME NEW i \in y + 1 .. n PROVE w[i] \in White
  <2>1. PICK k \in Nat : k = f + i - 1
    OBVIOUS
  <2>2. k \in z + 1 .. m /\ i \in 1..n
    BY <1>3, <1>6, <2>1
  <2>3. w[i] = l[k]
    BY <1>4, <2>1, <2>2
  <2> QED
    BY <1>2, <2>2, <2>3
<1>10. find_non_space(w, 1) = x
  <2>1. x \in 1..Len(w) /\ 1 \in Nat \ {0}
    BY <1>4, <1>6
  <2> QED
    BY <1>4, <1>7, <1>8, <2>1, SpaceIs
<1>11. LastNonSpace(w, x, n) = y
  <2>1. y \in x..n
    BY <1>6
  <2> QED
    BY <1>7, <1>9, <2>1, LastIs
<1>12. Trimmed(w, find_non_space(w, 1), Len(w)) = SubSeq(w, x, y)
  BY <1>4, <1>10, <1>11 DEF Trimmed
<1>13. SubSeq(w, x, y) = SubSeq(l, v, z)
  <2>1. 1 <= f /\ m <= Len(l) /\ 1 <= x /\ x <= y + 1 /\ y <= m - f + 1 /\ v = f + x - 1 /\ z = f + y - 1
    BY <1>a, <1>c, <1>3, <1>6
  <2>2. SubSeq(SubSeq(l, f, m), x, y) = SubSeq(l, v, z)
    BY <2>1, PartAgain
  <2> QED
    BY <1>b, <2>2
<1>14. ValuePart(l, f) = w
  BY <1>a, <1>b DEF ValuePart
<1>15. IsValue(l, f, m, v, z)
  BY <1>a, <1>1, <1>2, <1>12, <1>13, <1>14 DEF IsValue
<1> QED
  BY <1>15

\* A clean line has a name up to the colon at g, and a value from x to y.
IsParted(l, g, x, y, m) ==
    /\ Len(l) = m /\ 1 < g /\ g < x /\ x <= y /\ y <= m
    /\ l[g] = ":" /\ \A k \in 1 .. g - 1 : l[k] # ":" /\ l[k] \notin White /\ l[k] # Quote
    /\ l[x] \notin White /\ l[x] # Quote /\ \A i \in g + 1 .. x - 1 : l[i] \in White
    /\ l[y] \notin White /\ \A i \in y + 1 .. m : l[i] \in White
    /\ Find(l, 1, ":") = g
    /\ NameOf(l) = SubSeq(l, 1, g - 1) /\ ValueOf(l) = SubSeq(l, x, y)

\* The parts of a clean line do not overlap.
LEMMA CleanLineParts ==
    ASSUME NEW S, NEW l \in Seq(S), CleanLine(l)
    PROVE  \E g, x, y, m \in Nat : IsParted(l, g, x, y, m)
<1>2. PICK m \in Nat : m = Len(l)
  OBVIOUS
<1>3. PICK g : g = Find(l, 1, ":")
  OBVIOUS
<1>4. /\ g > 1 /\ \E i \in g + 1 .. Len(l) : l[i] \notin White
      /\ \A i \in DOMAIN NameOf(l) : NameOf(l)[i] \notin White \cup {Quote}
      /\ ValueOf(l)[1] # Quote
      /\ NameOf(l) = SubSeq(l, 1, g - 1)
      /\ ValueOf(l) = Trimmed(SubSeq(l, g + 1, Len(l)), find_non_space(SubSeq(l, g + 1, Len(l)), 1),
                              Len(SubSeq(l, g + 1, Len(l))))
  BY <1>3 DEF CleanLine, NameOf, ValueOf
<1>5. g \in 1..m /\ l[g] = ":" /\ \A k \in 1 .. g - 1 : l[k] # ":"
  <2>1. 1 \in Nat \ {0} /\ 1 \in Nat
    OBVIOUS
  <2>2. Find(l, 1, ":") \in 0..Len(l)
    BY <2>1, FindRange
  <2>3. g \in 0..m
    BY <1>2, <1>3, <2>2
  <2>4. g # 0
    BY <1>4, <2>3
  <2>5. Find(l, 1, ":") # 0 =>
          /\ Find(l, 1, ":") \in 1..Len(l) /\ l[Find(l, 1, ":")] = ":"
          /\ \A k \in 1..(Find(l, 1, ":") - 1) : l[k] # ":"
    BY <2>1, FindFacts
  <2> QED
    BY <1>2, <1>3, <2>4, <2>5
<1>6. g \in Nat /\ 1 < g /\ g <= m
  BY <1>4, <1>5
<1>7. PICK f, d \in Nat : f = g + 1 /\ d = g - 1
  <2>1. g - 1 \in Nat
    BY <1>6
  <2> QED
    BY <1>6, <2>1
<1>8. ASSUME NEW k \in 1..d PROVE l[k] \notin White /\ l[k] # Quote
  <2>1. 1 \in Nat \ {0} /\ 1 <= d + 1 /\ d <= Len(l) /\ d - 1 + 1 = d
    BY <1>2, <1>6, <1>7
  <2>2. NameOf(l) = SubSeq(l, 1, d)
    BY <1>4, <1>7
  <2>a. /\ SubSeq(l, 1, d) \in Seq(S) /\ Len(SubSeq(l, 1, d)) = d - 1 + 1
        /\ \A i \in 1 .. d - 1 + 1 : SubSeq(l, 1, d)[i] = l[1 + i - 1]
    BY <2>1, PartFacts
  <2>3. NameOf(l) \in Seq(S) /\ Len(NameOf(l)) = d
        /\ \A i \in 1..d : NameOf(l)[i] = l[1 + i - 1]
    BY <2>1, <2>2, <2>a
  <2>4. k \in DOMAIN NameOf(l) /\ 1 + k - 1 = k
    BY <2>3
  <2>5. NameOf(l)[k] = l[k]
    BY <2>3, <2>4
  <2> QED
    BY <1>4, <2>4, <2>5
<1>9. PICK w : w = SubSeq(l, f, m)
  OBVIOUS
<1>10. ValueOf(l) = Trimmed(w, find_non_space(w, 1), Len(w))
  BY <1>2, <1>4, <1>7, <1>9
<1>11. PICK x, y \in Nat :
              /\ f <= x /\ x <= y /\ y <= m
              /\ l[x] \notin White /\ \A i \in f .. x - 1 : l[i] \in White
              /\ l[y] \notin White /\ \A i \in y + 1 .. m : l[i] \in White
              /\ Trimmed(w, find_non_space(w, 1), Len(w)) = SubSeq(l, x, y)
  <2>1. \E i \in f .. m : l[i] \notin White
    BY <1>2, <1>4, <1>7
  <2>2. 1 <= f /\ f <= m
    <3>1. PICK i \in f .. m : TRUE
      BY <2>1
    <3> QED
      BY <1>6, <1>7
  <2>3. f # 0 /\ HasValue(l, f)
    BY <1>2, <2>1, <2>2 DEF HasValue
  <2>4. PICK n, x, y \in Nat : IsValue(l, f, n, x, y)
    BY <2>3, ValueFacts
  <2>5. ValuePart(l, f) = w
    BY <1>2, <1>9 DEF ValuePart
  <2>6. n = m
    BY <1>2, <2>4 DEF IsValue
  <2> QED
    BY <2>4, <2>5, <2>6 DEF IsValue
<1>b. 1 <= x /\ g < x
  BY <1>6, <1>7, <1>11
<1>12. l[x] # Quote
  <2>1. x \in Nat \ {0} /\ x <= y + 1 /\ y <= Len(l) /\ 1 \in 1 .. y - x + 1 /\ x + 1 - 1 = x
    BY <1>2, <1>b, <1>11
  <2>2. SubSeq(l, x, y)[1] = l[x + 1 - 1]
    BY <1>2, <2>1, PartFacts
  <2> QED
    BY <1>4, <1>10, <1>11, <2>1, <2>2
<1>13. IsParted(l, g, x, y, m)
  <2>1. \A k \in 1 .. g - 1 : l[k] # ":" /\ l[k] \notin White /\ l[k] # Quote
    BY <1>5, <1>7, <1>8
  <2>2. ValueOf(l) = SubSeq(l, x, y)
    BY <1>10, <1>11
  <2>3. \A i \in g + 1 .. x - 1 : l[i] \in White
    BY <1>7, <1>11
  <2> QED
    BY <1>2, <1>3, <1>4, <1>5, <1>6, <1>b, <1>11, <1>12, <2>1, <2>2, <2>3 DEF IsParted
<1> QED
  BY <1>6, <1>13

\* The same of a line in a text.
LEMMA CleanLineFacts ==
    ASSUME NEW S, NEW h \in Seq(S), NEW a \in Nat, NEW e \in Nat, 1 <= a, a < e, e <= Len(h),
           CleanLine(SubSeq(h, a, e - 1))
    PROVE  \E c, v, z \in Nat : IsCleanLine(h, a, e, c, v, z)
<1>1. PICK b \in Nat : b = e - 1
  <2>1. e - 1 \in Nat
    OBVIOUS
  <2> QED
    BY <2>1
<1>o. PICK l : l = SubSeq(h, a, b)
  OBVIOUS
<1>2. l \in Seq(S) /\ Len(l) = b - a + 1 /\ \A i \in 1 .. b - a + 1 : l[i] = h[a + i - 1]
  <2>1. a \in Nat \ {0} /\ a <= b + 1 /\ b <= Len(h)
    BY <1>1
  <2> QED
    BY <1>o, <2>1, PartFacts
<1>3. CleanLine(l) /\ l \in Seq(S)
  BY <1>1, <1>o, <1>2
<1>4. PICK g, x, y, m \in Nat : IsParted(l, g, x, y, m)
  BY <1>3, CleanLineParts
<1>5. /\ Len(l) = m /\ 1 < g /\ g < x /\ x <= y /\ y <= m
      /\ l[g] = ":" /\ \A k \in 1 .. g - 1 : l[k] # ":" /\ l[k] \notin White /\ l[k] # Quote
      /\ l[x] \notin White /\ l[x] # Quote /\ \A i \in g + 1 .. x - 1 : l[i] \in White
      /\ l[y] \notin White /\ \A i \in y + 1 .. m : l[i] \in White
      /\ Find(l, 1, ":") = g
      /\ NameOf(l) = SubSeq(l, 1, g - 1) /\ ValueOf(l) = SubSeq(l, x, y)
  BY <1>4 DEF IsParted
<1>6. 1 < g /\ g < x /\ x <= y /\ y <= m /\ m = b - a + 1
  BY <1>2, <1>5
<1>7. \A i \in 1..m : l[i] = h[a + i - 1]
  BY <1>2, <1>6
<1>13. PICK c, v, z \in Nat : c = a + g - 1 /\ v = a + x - 1 /\ z = a + y - 1
  <2>1. a + g - 1 \in Nat /\ a + x - 1 \in Nat /\ a + y - 1 \in Nat
    BY <1>6
  <2> QED
    BY <2>1
<1>14. 1 <= a /\ a < c /\ c < v /\ v <= z /\ z < e
  BY <1>1, <1>6, <1>13
<1>15. h[c] = ":" /\ h[v] = l[x] /\ h[z] = l[y]
  <2>1. g \in 1..m /\ x \in 1..m /\ y \in 1..m
    BY <1>6
  <2> QED
    BY <1>5, <1>7, <1>13, <2>1
<1>16. ASSUME NEW i \in a .. c - 1 PROVE h[i] # ":" /\ h[i] \notin White /\ h[i] # Quote
  <2>1. PICK k \in Nat : k = i - a + 1
    <3>1. i - a + 1 \in Nat
      BY <1>14
    <3> QED
      BY <3>1
  <2>2. k \in 1 .. g - 1 /\ k \in 1..m /\ a + k - 1 = i
    BY <1>6, <1>13, <2>1
  <2>3. h[i] = l[k]
    BY <1>7, <2>2
  <2> QED
    BY <1>5, <2>2, <2>3
<1>17. ASSUME NEW i \in c + 1 .. v - 1 PROVE h[i] \in White
  <2>1. PICK k \in Nat : k = i - a + 1
    <3>1. i - a + 1 \in Nat
      BY <1>14
    <3> QED
      BY <3>1
  <2>2. k \in g + 1 .. x - 1 /\ k \in 1..m /\ a + k - 1 = i
    BY <1>6, <1>13, <2>1
  <2>3. h[i] = l[k]
    BY <1>7, <2>2
  <2> QED
    BY <1>5, <2>2, <2>3
<1>18. ASSUME NEW i \in z + 1 .. e - 1 PROVE h[i] \in White
  <2>1. PICK k \in Nat : k = i - a + 1
    <3>1. i - a + 1 \in Nat
      BY <1>14
    <3> QED
      BY <3>1
  <2>2. k \in y + 1 .. m /\ k \in 1..m /\ a + k - 1 = i
    BY <1>1, <1>6, <1>13, <2>1
  <2>3. h[i] = l[k]
    BY <1>7, <2>2
  <2> QED
    BY <1>5, <2>2, <2>3
<1>19. NameOf(l) = SubSeq(h, a, c - 1)
  <2>1. PICK r \in Nat : r = c - 1
    <3>1. c - 1 \in Nat
      BY <1>14
    <3> QED
      BY <3>1
  <2>a. PICK d \in Nat : d = g - 1
    <3>1. g - 1 \in Nat
      BY <1>6
    <3> QED
      BY <3>1
  <2>2. /\ 1 <= a /\ b <= Len(h) /\ 1 \in Nat /\ 1 <= 1 /\ 1 <= d + 1 /\ d <= b - a + 1
        /\ a = a + 1 - 1 /\ r = a + d - 1
    BY <1>1, <1>6, <1>13, <2>1, <2>a
  <2>3. SubSeq(SubSeq(h, a, b), 1, d) = SubSeq(h, a, r)
    BY <2>2, PartAgain
  <2> QED
    BY <1>o, <1>5, <2>1, <2>3, <2>a
<1>20. ValueOf(l) = SubSeq(h, v, z)
  <2>1. 1 <= a /\ b <= Len(h) /\ 1 <= x /\ x <= y + 1 /\ y <= b - a + 1 /\ v = a + x - 1 /\ z = a + y - 1
    BY <1>1, <1>6, <1>13
  <2>2. SubSeq(SubSeq(h, a, b), x, y) = SubSeq(h, v, z)
    BY <2>1, PartAgain
  <2> QED
    BY <1>o, <1>5, <2>2
<1>21. Find(l, 1, ":") = c - a + 1
  <2>1. g = c - a + 1
    BY <1>6, <1>13
  <2> QED
    BY <1>5, <2>1
<1>22. h[v] \notin White /\ h[v] # Quote /\ h[z] \notin White
  BY <1>5, <1>15
<1>23. l = SubSeq(h, a, e - 1)
  BY <1>1, <1>o
<1>24. IsCleanLine(h, a, e, c, v, z)
  BY <1>14, <1>15, <1>16, <1>17, <1>18, <1>19, <1>20, <1>21, <1>22, <1>23 DEF IsCleanLine
<1> QED
  BY <1>24

\* Its name is read as its key.
LEMMA KeyRead ==
    ASSUME NEW h \in Seq(STRING), NEW a \in Nat, NEW e \in Nat, NEW c \in Nat, NEW v \in Nat,
           NEW z \in Nat, IsCleanLine(h, a, e, c, v, z)
    PROVE  /\ find_non_space(h, a) = a
           /\ ParseKey(h, a, a, e) = [stat |-> "key", string |-> SubSeq(h, a, c - 1), next |-> c + 1]
<1>1. /\ 1 <= a /\ a < c /\ c < v /\ v <= z /\ z < e /\ e <= Len(h)
      /\ h[c] = ":" /\ \A i \in a .. c - 1 : h[i] # ":" /\ h[i] \notin White /\ h[i] # Quote
  BY DEF IsCleanLine
<1>2. a \in Nat \ {0} /\ a \in a .. c - 1 /\ a \in a .. Len(h) /\ a # 0 /\ c # a /\ c # e /\ c # 0
  BY <1>1
<1>3. h[a] \notin White /\ h[a] # Quote
  BY <1>1, <1>2
<1>4. find_non_space(h, a) = a
  <2>1. \A k \in a .. a - 1 : h[k] \in White
    OBVIOUS
  <2> QED
    BY <1>2, <1>3, <2>1, SpaceIs
<1> DEFINE I == {i \in a .. Len(h) : i = e \/ h[i] = ":"}
<1>5. c \in I /\ I \in SUBSET Nat
  BY <1>1
<1>6. ASSUME NEW i \in I PROVE c <= i
  <2>1. i \in a .. Len(h) /\ (i = e \/ h[i] = ":")
    OBVIOUS
  <2>2. i \in Nat /\ a <= i
    BY <1>1, <2>1
  <2>3. CASE i = e
    BY <1>1, <2>3
  <2>4. CASE h[i] = ":"
    <3>1. i \notin a .. c - 1
      BY <1>1, <2>4
    <3> QED
      BY <1>1, <2>2, <3>1
  <2> QED
    BY <2>1, <2>3, <2>4
<1>7. First(I) = c
  <2> HIDE DEF I
  <2>1. I # {} /\ Min(I) = c
    BY <1>5, <1>6, MinIs
  <2> QED
    BY <2>1 DEF First
<1>8. LastNonSpace(h, a, c - 1) = c - 1
  <2>1. PICK r \in Nat : r = c - 1
    <3>1. c - 1 \in Nat
      BY <1>1
    <3> QED
      BY <3>1
  <2>2. r \in a..r /\ r \in a .. c - 1
    BY <1>1, <2>1
  <2>3. h[r] \notin White /\ \A k \in r + 1 .. r : h[k] \in White
    BY <1>1, <2>2
  <2>4. LastNonSpace(h, a, r) = r
    BY <2>2, <2>3, LastIs
  <2> QED
    BY <2>1, <2>4
<1>9. Trimmed(h, a, c - 1) = SubSeq(h, a, c - 1)
  BY <1>8 DEF Trimmed
<1>10. a + (c - a) + 1 = c + 1
  BY <1>1
<1>11. ParseKey(h, a, a, e) = [stat |-> "key", string |-> Trimmed(h, a, c - 1), next |-> a + (c - a) + 1]
  <2>1. PICK j : j = First(I)
    OBVIOUS
  <2>2. ~(a = 0 \/ (h[a] = Quote /\ find_non_space(h, a + 1) = 0) \/ j \in {0, a}) /\ j # e
    BY <1>2, <1>3, <1>7, <2>1
  <2>3. j = First({i \in a .. Len(h) : i = e \/ h[i] = ":"})
    BY <2>1
  <2> HIDE DEF I
  <2>4. ParseKey(h, a, a, e) = [stat |-> "key", string |-> Trimmed(h, a, j - 1), next |-> a + (j - a) + 1]
    BY <1>3, <2>2, <2>3 DEF ParseKey
  <2> QED
    BY <1>7, <2>1, <2>4
<1> QED
  BY <1>4, <1>9, <1>10, <1>11

\* What is behind the colon is read as its value.
LEMMA ValueRead ==
    ASSUME NEW h \in Seq(STRING), NEW a \in Nat, NEW e \in Nat, NEW c \in Nat, NEW v \in Nat,
           NEW z \in Nat, IsCleanLine(h, a, e, c, v, z)
    PROVE  /\ find_non_space(h, c + 1) = v
           /\ ParseValue(h, v, e) = [stat |-> "value", val |-> SubSeq(h, v, z)]
<1>1. /\ 1 <= a /\ a < c /\ c < v /\ v <= z /\ z < e /\ e <= Len(h)
      /\ h[v] \notin White /\ h[v] # Quote /\ \A i \in c + 1 .. v - 1 : h[i] \in White
      /\ h[z] \notin White /\ \A i \in z + 1 .. e - 1 : h[i] \in White
  BY DEF IsCleanLine
<1>2. PICK d, b \in Nat : d = c + 1 /\ b = e - 1
  <2>1. e - 1 \in Nat
    BY <1>1
  <2> QED
    BY <2>1
<1>3. d \in Nat \ {0} /\ v \in d..Len(h) /\ v # 0 /\ ~(v > e) /\ z \in v..b
  BY <1>1, <1>2
<1>4. find_non_space(h, d) = v
  <2>1. \A i \in d .. v - 1 : h[i] \in White
    BY <1>1, <1>2
  <2> QED
    BY <1>1, <1>3, <2>1, SpaceIs
<1>5. LastNonSpace(h, v, b) = z
  <2>1. \A i \in z + 1 .. b : h[i] \in White
    BY <1>1, <1>2
  <2> QED
    BY <1>1, <1>3, <2>1, LastIs
<1>6. Trimmed(h, v, e - 1) = SubSeq(h, v, z)
  BY <1>2, <1>5 DEF Trimmed
<1>7. ParseValue(h, v, e) = [stat |-> "value", val |-> Trimmed(h, v, e - 1)]
  BY <1>1, <1>3 DEF ParseValue
<1> QED
  BY <1>2, <1>4, <1>6, <1>7

-----------------------------------------------------------------------------
(* The header lines *)

\* The lines of the headers, where they begin, and what the first n of them mean.
HeaderText == SubSeq(text, EndOfLine + 1, BlankLine)
LineCount == RunCount(header, "CRLF")
LineAt(n) == IF n < LineCount THEN RunStart(header, "CRLF", n + 1) ELSE Len(header) + 1
MeaningOf(l) == [key |-> NameOf(l), val |-> ValueOf(l)]
Meant(n) == [i \in 1..n |-> MeaningOf(Lines[i])]
HasLines == header # <<>> /\ header[1] # "CRLF"
Read == Len(headers.items)

\* The header lines stay what they are in the text.
HeaderInv ==
    /\ text \in Requests
    /\ stage = "start" => headers = EmptyList(HeaderCapacity)
    /\ stage # "start" /\ WellFormed => header = HeaderText

\* As many lines are behind pos as there are items, and in the end none is left or
\* all of them are given up.
LineInv ==
    HasLines =>
        /\ stage \in {"headers", "value"} => Read <= LineCount /\ pos = LineAt(Read)
        /\ stage = "value" => Read < LineCount
        /\ stage \in Taken \cup {"query"} => Read = LineCount \/ headers = Destructed

\* The items are what clean lines mean; the key is the name in the line that is read.
MeaningInv ==
    CleanHeader =>
        /\ stage # "outside"
        /\ stage \in {"headers", "value"} => headers.items = Meant(Read)
        /\ stage = "value" => /\ key.string = NameOf(Lines[Read + 1])
                              /\ key.next = pos + Find(Lines[Read + 1], 1, ":")
        /\ stage \in Taken \cup {"query"} => headers.items = Meaning

\* The header lines of a text end with CRLF, the empty line not among them.
LEMMA HeaderShape ==
    ASSUME text \in Requests, WellFormed
    PROVE  /\ HeaderText \in Seq(STRING) /\ HeaderText # <<>>
           /\ HeaderText[1] # "CRLF" => Closed(HeaderText)
           /\ \A i \in 1..Len(HeaderText) : HeaderText[i] # "NUL"
<1>1. text \in Seq(STRING) /\ "NUL" \notin Range(text)
  BY RequestAssumption
<1>2. PICK e \in Nat : e = EndOfLine
  <2>1. EndOfLine \in 0..Len(text)
    BY <1>1, FindRange DEF EndOfLine
  <2>2. EndOfLine \in Nat
    BY <1>1, <2>1
  <2> QED
    BY <2>2
<1>3. PICK L \in Nat : L = Len(text)
  BY <1>1
<1> DEFINE B == {i \in e + 1 .. L - 1 : text[i] = "CRLF" /\ text[i + 1] = "CRLF"}
<1>4. B \in SUBSET Nat
  OBVIOUS
<1>5. BlankLine = First(B) /\ BlankLine # 0
  BY <1>2, <1>3 DEF BlankLine, WellFormed
<1>6. PICK b \in B : b = BlankLine /\ \A i \in B : b <= i
  <2> HIDE DEF B
  <2>1. B # {} /\ BlankLine = Min(B)
    BY <1>5 DEF First
  <2> QED
    BY <1>4, <2>1, MinFacts
<1>7. b \in Nat /\ e + 1 <= b /\ b <= L - 1 /\ text[b] = "CRLF"
  BY <1>6
<1>8. ASSUME NEW i \in e + 1 .. b - 1 PROVE ~(text[i] = "CRLF" /\ text[i + 1] = "CRLF")
  <2>1. i \in e + 1 .. L - 1 /\ ~(b <= i)
    BY <1>7
  <2> QED
    BY <1>6, <2>1
<1>9. PICK a, m \in Nat : a = e + 1 /\ m = b - e
  <2>1. b - e \in Nat
    BY <1>7
  <2> QED
    BY <2>1
<1>10. PICK h : h = HeaderText
  OBVIOUS
<1>11. h = SubSeq(text, a, b)
  BY <1>2, <1>6, <1>9, <1>10 DEF HeaderText
<1>12. h \in Seq(STRING) /\ Len(h) = m /\ \A i \in 1..m : h[i] = text[a + i - 1]
  <2>1. a \in Nat \ {0} /\ a <= b + 1 /\ b <= Len(text) /\ b - a + 1 = m
    BY <1>3, <1>7, <1>9
  <2> QED
    BY <1>1, <1>7, <1>11, <2>1, PartFacts
<1>13. m # 0 /\ 1 \in 1..m /\ m \in 1..m /\ a + m - 1 = b
  BY <1>7, <1>9
<1>14. h # <<>>
  <2>1. Len(<<>>) = 0
    OBVIOUS
  <2> QED
    BY <1>12, <1>13, <2>1
<1>15. h[m] = "CRLF"
  BY <1>7, <1>12, <1>13
<1>16. ASSUME NEW i \in 1 .. m - 1 PROVE ~(h[i] = "CRLF" /\ h[i + 1] = "CRLF")
  <2>1. PICK j, k \in Nat : j = i + 1 /\ k = a + i - 1
    BY <1>9
  <2>2. i \in 1..m /\ j \in 1..m /\ k \in e + 1 .. b - 1 /\ a + j - 1 = k + 1
    BY <1>7, <1>9, <2>1
  <2>3. h[i] = text[k] /\ h[j] = text[k + 1]
    BY <1>12, <2>1, <2>2
  <2> QED
    BY <1>8, <2>1, <2>2, <2>3
<1>17. h[1] # "CRLF" => Closed(h)
  BY <1>12, <1>13, <1>15, <1>16 DEF Closed
<1>18. ASSUME NEW i \in 1..m PROVE h[i] # "NUL"
  <2>1. PICK k \in Nat : k = a + i - 1
    BY <1>9
  <2>2. k \in 1..L
    BY <1>7, <1>9, <2>1
  <2>3. k \in DOMAIN text
    BY <1>1, <1>3, <2>2
  <2>4. text[k] \in Range(text)
    BY <2>3 DEF Range
  <2> QED
    BY <1>1, <1>12, <2>1, <2>4
<1> QED
  BY <1>10, <1>12, <1>14, <1>17, <1>18

\* The line that begins behind the first n ones.
IsHere(n, a, e) ==
    /\ LineAt(n) = a /\ Find(header, a, "CRLF") = e
    /\ 1 <= a /\ a < e /\ e <= Len(header) /\ header[a] # "CRLF"
    /\ Lines[n + 1] = SubSeq(header, a, e - 1) /\ LineAt(n + 1) = e + 1

\* The line that is read is there, and the next one begins behind its CRLF.
LEMMA LineHere ==
    ASSUME header \in Seq(STRING), Closed(header), NEW n \in Nat, n < LineCount
    PROVE  \E a, e \in Nat : IsHere(n, a, e)
<1>1. PICK N \in Nat : N = LineCount
  BY RunFacts DEF LineCount
<1>2. PICK m \in Nat : m = n + 1
  OBVIOUS
<1>3. m \in 1..N
  BY <1>1, <1>2
<1>4. PICK a, e \in Nat :
              /\ IsLineAt(header, m, a, e)
              /\ 1 <= a /\ a < e /\ e <= Len(header) /\ header[a] # "CRLF"
              /\ Runs(header, "CRLF")[m] = SubSeq(header, a, e - 1)
              /\ e = Len(header) => m = N
              /\ e # Len(header) => m + 1 \in 1..N /\ RunStart(header, "CRLF", m + 1) = e + 1
  <2>1. m \in 1..RunCount(header, "CRLF")
    BY <1>1, <1>3 DEF LineCount
  <2>2. \E a, e \in Nat :
              /\ IsLineAt(header, m, a, e)
              /\ 1 <= a /\ a < e /\ e <= Len(header) /\ header[a] # "CRLF" /\ header[e] = "CRLF"
              /\ Runs(header, "CRLF")[m] = SubSeq(header, a, e - 1)
              /\ e = Len(header) => m = RunCount(header, "CRLF")
              /\ e # Len(header) => /\ m + 1 \in 1..RunCount(header, "CRLF")
                               /\ RunStart(header, "CRLF", m + 1) = e + 1
    BY <2>1, LineFacts
  <2>3. N = RunCount(header, "CRLF")
    BY <1>1 DEF LineCount
  <2> QED
    BY <2>2, <2>3
<1>5. LineAt(n) = a /\ Find(header, a, "CRLF") = e
  <2>1. a = RunStart(header, "CRLF", m) /\ e = Find(header, a, "CRLF")
    BY <1>4 DEF IsLineAt
  <2>2. LineAt(n) = RunStart(header, "CRLF", m)
    BY <1>2 DEF LineAt
  <2> QED
    BY <2>1, <2>2
<1>6. Lines[m] = SubSeq(header, a, e - 1)
  BY <1>4 DEF Lines
<1>7. LineAt(m) = e + 1
  <2>1. CASE e = Len(header)
    <3>1. ~(m < LineCount)
      BY <1>1, <1>4, <2>1
    <3> QED
      BY <2>1, <3>1 DEF LineAt
  <2>2. CASE e # Len(header)
    <3>1. m < LineCount
      BY <1>1, <1>2, <1>4, <2>2
    <3> QED
      BY <1>4, <2>2, <3>1 DEF LineAt
  <2> QED
    BY <2>1, <2>2
<1>8. IsHere(n, a, e)
  BY <1>2, <1>4, <1>5, <1>6, <1>7 DEF IsHere
<1> QED
  BY <1>8

\* There are lines, the first of them at the beginning.
LEMMA LinesFacts ==
    ASSUME header \in Seq(STRING), Closed(header)
    PROVE  /\ LineCount \in Nat /\ 0 < LineCount /\ LineAt(0) = 1
           /\ DOMAIN Lines = 1..LineCount /\ Len(Lines) = LineCount
<1>1. PICK N \in Nat : N = LineCount /\ N = RunCount(header, "CRLF")
  BY RunFacts DEF LineCount
<1>2. header # <<>> /\ header[1] # "CRLF"
  BY DEF Closed
<1>3. N # 0 /\ RunStart(header, "CRLF", 1) = 1
  BY <1>1, <1>2, FirstRun
<1>4. 0 < N /\ 0 + 1 = 1
  BY <1>3
<1>5. LineAt(0) = 1
  BY <1>1, <1>3, <1>4 DEF LineAt
<1>6. Lines = [n \in 1..N |-> SubSeq(header, RunStart(header, "CRLF", n),
                                      RunEnd(header, "CRLF", RunStart(header, "CRLF", n)))]
  BY <1>1, RunsAre DEF Lines
<1>7. DOMAIN Lines = 1..N /\ Len(Lines) = N
  BY <1>6
<1> QED
  BY <1>1, <1>4, <1>5, <1>7

\* What the lines mean, one more of them.
LEMMA MeantFacts ==
    ASSUME NEW n \in Nat
    PROVE  Append(Meant(n), MeaningOf(Lines[n + 1])) = Meant(n + 1)
<1> DEFINE f == [i \in Nat |-> MeaningOf(Lines[i])]
<1>1. PICK m \in Nat : m = n + 1
  OBVIOUS
<1>2. Append([i \in 1..n |-> f[i]], f[m]) = [i \in 1..m |-> f[i]]
  <2> HIDE DEF f
  <2> QED
    BY <1>1, ListGrows
<1>3. \A i \in Nat : f[i] = MeaningOf(Lines[i])
  OBVIOUS
<1>4. ASSUME NEW k \in Nat PROVE [i \in 1..k |-> f[i]] = Meant(k)
  <2>1. \A i \in 1..k : f[i] = MeaningOf(Lines[i])
    BY <1>3
  <2> HIDE DEF f
  <2> QED
    BY <2>1 DEF Meant
<1>5. f[m] = MeaningOf(Lines[m])
  BY <1>3
<1> HIDE DEF f
<1> QED
  BY <1>1, <1>2, <1>4, <1>5

\* What depends on the header lines only stays as it is.
LEMMA HeaderStays ==
    ASSUME header' = header
    PROVE  /\ HasLines' = HasLines /\ LineCount' = LineCount /\ Lines' = Lines
           /\ CleanHeader' = CleanHeader /\ Meaning' = Meaning
           /\ \A n : LineAt(n)' = LineAt(n) /\ Meant(n)' = Meant(n)
<1>1. HasLines' = HasLines /\ LineCount' = LineCount /\ Lines' = Lines
  BY DEF HasLines, LineCount, Lines
<1>2. CleanHeader' = CleanHeader /\ Meaning' = Meaning
  BY <1>1 DEF CleanHeader, Meaning
<1> QED
  BY <1>1, <1>2 DEF LineAt, Meant

\* The lines a parser has.
LEMMA HeaderClosed ==
    ASSUME HeaderInv, FormInv, stage \notin {"start", "NULL", "answered"}
    PROVE  /\ header \in Seq(STRING) /\ header # <<>>
           /\ HasLines => Closed(header)
           /\ \A i \in 1..Len(header) : header[i] # "NUL"
<1>1. WellFormed /\ text \in Requests /\ header = HeaderText
  BY DEF HeaderInv, FormInv
<1> QED
  BY <1>1, HeaderShape DEF HasLines

\* The lists of a parser are sequences.
LEMMA ItemFacts ==
    ASSUME ParserInv
    PROVE  Read \in Nat /\ \A x : Read = Len(headers.items) /\ Push(headers, x).items = Append(headers.items, x)
                                  /\ Len(Append(headers.items, x)) = Read + 1
<1>1. PICK S : headers \in [items : Seq(S), capacity : Nat]
  BY DEF ParserInv
<1>2. headers.items \in Seq(S)
  BY <1>1
<1>3. Read \in Nat /\ Read = Len(headers.items)
  BY <1>2 DEF Read
<1>4. ASSUME NEW x PROVE Len(Append(headers.items, x)) = Read + 1
  <2>1. headers.items \in Seq(S \cup {x}) /\ x \in S \cup {x}
    BY <1>2
  <2> QED
    BY <1>3, <2>1, AppendFacts
<1>5. \A x : Push(headers, x).items = Append(headers.items, x)
  BY DEF Push
<1> QED
  BY <1>3, <1>4, <1>5

\* Where a line is read there is one, at pos.
LEMMA ReadHere ==
    ASSUME ParserInv, HeaderInv, FormInv, LineInv, HasLines, stage \in {"headers", "value"},
           Read < LineCount
    PROVE  \E e \in Nat : /\ IsHere(Read, pos, e) /\ LineEnd = e /\ pos \in Nat
                          /\ At(header, pos) \notin {"NUL", "CRLF"}
<1>1. pos = LineAt(Read) /\ Read \in Nat
  BY ItemFacts DEF LineInv
<1>2. /\ header \in Seq(STRING) /\ Closed(header)
      /\ \A i \in 1..Len(header) : header[i] # "NUL"
  BY HeaderClosed
<1>3. PICK a, e \in Nat : IsHere(Read, a, e)
  BY <1>1, <1>2, LineHere
<1>4. a = pos /\ LineEnd = e
  BY <1>1, <1>3 DEF IsHere, LineEnd
<1>5. a \in 1..Len(header) /\ header[a] # "CRLF"
  <2>1. 1 <= a /\ a < e /\ e <= Len(header) /\ header[a] # "CRLF" /\ Len(header) \in Nat
    BY <1>2, <1>3 DEF IsHere
  <2> QED
    BY <2>1
<1>6. a \in DOMAIN header
  BY <1>2, <1>5
<1>7. At(header, a) = header[a]
  BY <1>6 DEF At
<1> QED
  BY <1>2, <1>3, <1>4, <1>5, <1>7

\* Where no line is left the text of them ends.
LEMMA ReadAll ==
    ASSUME ParserInv, HeaderInv, FormInv, LineInv, HasLines, stage \in {"headers", "value"},
           ~(Read < LineCount)
    PROVE  Read = LineCount /\ At(header, pos) = "NUL"
<1>1. /\ Read <= LineCount /\ pos = LineAt(Read) /\ Read \in Nat
  BY ItemFacts DEF LineInv
<1>2. header \in Seq(STRING) /\ Closed(header)
  BY HeaderClosed
<1>3. LineCount \in Nat
  BY <1>2, LinesFacts
<1>4. Read = LineCount /\ pos = Len(header) + 1
  BY <1>1, <1>3 DEF LineAt
<1>5. pos \notin DOMAIN header
  BY <1>2, <1>4
<1> QED
  BY <1>4, <1>5 DEF At

\* The positions of the parts of a line that is read, if it is clean.
LEMMA CleanHere ==
    ASSUME ParserInv, HeaderInv, FormInv, LineInv, CleanHeader, stage \in {"headers", "value"},
           Read < LineCount
    PROVE  /\ header \in Seq(STRING) /\ pos \in Nat
           /\ \E e, c, v, z \in Nat :
                 /\ IsHere(Read, pos, e) /\ LineEnd = e
                 /\ Lines[Read + 1] = SubSeq(header, pos, e - 1)
                 /\ IsCleanLine(header, pos, e, c, v, z)
<1>1. HasLines
  BY DEF CleanHeader, HasLines
<1>2. /\ header \in Seq(STRING) /\ Closed(header)
  BY <1>1, HeaderClosed
<1>3. PICK e \in Nat : IsHere(Read, pos, e) /\ LineEnd = e /\ pos \in Nat
  BY <1>1, ReadHere
<1>4. /\ 1 <= pos /\ pos < e /\ e <= Len(header)
      /\ Lines[Read + 1] = SubSeq(header, pos, e - 1)
  BY <1>3 DEF IsHere
<1>5. CleanLine(Lines[Read + 1])
  <2>1. Read + 1 \in DOMAIN Lines
    <3>1. Read \in Nat /\ LineCount \in Nat /\ DOMAIN Lines = 1..LineCount
      BY <1>2, ItemFacts, LinesFacts
    <3> QED
      BY <3>1
  <2> QED
    BY <2>1 DEF CleanHeader
<1>6. CleanLine(SubSeq(header, pos, e - 1))
  BY <1>4, <1>5
<1>7. PICK c, v, z \in Nat : IsCleanLine(header, pos, e, c, v, z)
  BY <1>2, <1>3, <1>4, <1>6, CleanLineFacts
<1> QED
  BY <1>2, <1>3, <1>4, <1>7

\* A line of which the key cannot be read ends the list.
LEMMA FailureLeaves ==
    ASSUME NEW r, ParseFailure(r)
    PROVE  stage' = "outside" \/ (stage' = "query" /\ headers' = Destructed)
  BY DEF ParseFailure

\* A key is read from the line behind the ones that are in the list.
LEMMA KeyKeepsLines ==
    ASSUME ParserInv, HeaderInv, FormInv, LineInv, MeaningInv, ParseHeaderKey
    PROVE  LineInv' /\ MeaningInv'
<1>1. /\ stage = "headers" /\ header' = header
      /\ At(header, pos) \notin {"NUL", "CRLF"}
  BY DEF ParseHeaderKey, lines
<1>2. SUFFICES ASSUME HasLines PROVE LineInv' /\ MeaningInv'
  <2>1. HasLines' = HasLines /\ CleanHeader' = CleanHeader
    BY <1>1, HeaderStays
  <2> QED
    BY <2>1 DEF LineInv, MeaningInv, CleanHeader, HasLines
<1>3. PICK r : /\ r = ParseKey(header, pos, find_non_space(header, pos), LineEnd)
               /\ IF r.stat = "key"
                  THEN stage' = "value" /\ key' = r /\ UNCHANGED <<pos, headers>>
                  ELSE ParseFailure(r)
  BY DEF ParseHeaderKey
<1>4. Read < LineCount
  BY <1>1, <1>2, ReadAll
<1>5. Read <= LineCount /\ pos = LineAt(Read)
  BY <1>1, <1>2 DEF LineInv
<1>6. LineInv'
  <2>1. CASE r.stat = "key"
    <3>1. stage' = "value" /\ pos' = pos /\ headers' = headers
      BY <1>3, <2>1
    <3>2. Read' = Read
      BY <3>1 DEF Read
    <3>3. stage' \notin Taken \cup {"query"}
      BY <3>1 DEF Taken, HandlerStages
    <3>4. LineAt(Read)' = LineAt(Read)
      BY <1>1, <3>2, HeaderStays DEF LineAt
    <3> QED
      BY <1>1, <1>4, <1>5, <3>1, <3>2, <3>3, <3>4, HeaderStays DEF LineInv
  <2>2. CASE r.stat # "key"
    <3>1. stage' = "outside" \/ (stage' = "query" /\ headers' = Destructed)
      BY <1>3, <2>2, FailureLeaves
    <3>2. stage' \in Taken => stage' # "outside"
      BY DEF Taken, HandlerStages
    <3> QED
      BY <3>1, <3>2 DEF LineInv
  <2> QED
    BY <2>1, <2>2
<1>7. MeaningInv'
  <2>1. SUFFICES ASSUME CleanHeader PROVE MeaningInv'
    <3>1. CleanHeader' = CleanHeader
      BY <1>1, HeaderStays
    <3> QED
      BY <3>1 DEF MeaningInv
  <2>2. PICK e, c, v, z \in Nat :
              /\ LineEnd = e /\ Lines[Read + 1] = SubSeq(header, pos, e - 1)
              /\ IsCleanLine(header, pos, e, c, v, z)
    BY <1>1, <1>4, <2>1, CleanHere
  <2>3. header \in Seq(STRING) /\ pos \in Nat
    BY <1>1, <1>4, <2>1, CleanHere
  <2>4. /\ find_non_space(header, pos) = pos
        /\ ParseKey(header, pos, pos, e)
              = [stat |-> "key", string |-> SubSeq(header, pos, c - 1), next |-> c + 1]
    BY <2>2, <2>3, KeyRead
  <2>5. r = [stat |-> "key", string |-> SubSeq(header, pos, c - 1), next |-> c + 1]
    BY <1>3, <2>2, <2>4
  <2>6. stage' = "value" /\ key' = r /\ pos' = pos /\ headers' = headers
    BY <1>3, <2>5
  <2>7. /\ NameOf(Lines[Read + 1]) = SubSeq(header, pos, c - 1)
        /\ Find(Lines[Read + 1], 1, ":") = c - pos + 1
    BY <2>2 DEF IsCleanLine
  <2>8. c + 1 = pos + (c - pos + 1)
    BY <2>3
  <2>9. /\ key'.string = NameOf(Lines[Read + 1])
        /\ key'.next = pos + Find(Lines[Read + 1], 1, ":")
    BY <2>5, <2>6, <2>7, <2>8
  <2>10. Read' = Read /\ Lines' = Lines
    BY <1>1, <2>6, HeaderStays DEF Read
  <2>11. headers'.items = Meant(Read)
    BY <1>1, <2>1, <2>6 DEF MeaningInv
  <2>12. Meant(Read)' = Meant(Read)
    BY <2>10 DEF Meant
  <2>13. stage' \notin Taken \cup {"query"} /\ stage' # "outside"
    BY <2>6 DEF Taken, HandlerStages
  <2> QED
    BY <2>6, <2>9, <2>10, <2>11, <2>12, <2>13 DEF MeaningInv
<1> QED
  BY <1>6, <1>7

\* A line becomes an item, and the next one is read.
LEMMA ValueKeepsLines ==
    ASSUME ParserInv, HeaderInv, FormInv, LineInv, MeaningInv, ParseHeaderValue
    PROVE  LineInv' /\ MeaningInv'
<1>1. stage = "value" /\ header' = header
  BY DEF ParseHeaderValue, lines
<1>2. SUFFICES ASSUME HasLines PROVE LineInv' /\ MeaningInv'
  <2>1. HasLines' = HasLines /\ CleanHeader' = CleanHeader
    BY <1>1, HeaderStays
  <2> QED
    BY <2>1 DEF LineInv, MeaningInv, CleanHeader, HasLines
<1>3. PICK r : /\ r = ParseValue(header, find_non_space(header, key.next), LineEnd)
               /\ IF r.stat = "value"
                  THEN /\ stage' = "headers"
                       /\ headers' = Push(headers, [key |-> key.string, val |-> r.val])
                       /\ pos' = LineEnd + 1 /\ key' = NoKey
                  ELSE ParseFailure(r)
  BY DEF ParseHeaderValue
<1>4. Read < LineCount
  BY <1>1, <1>2 DEF LineInv
<1>5. PICK e \in Nat : IsHere(Read, pos, e) /\ LineEnd = e
  BY <1>1, <1>2, <1>4, ReadHere
<1>6. LineAt(Read + 1) = e + 1
  BY <1>5 DEF IsHere
<1>7. Read \in Nat /\ LineCount \in Nat /\ DOMAIN Lines = 1..LineCount
  BY <1>1, <1>2, ItemFacts, HeaderClosed, LinesFacts
<1>8. ASSUME r.stat = "value"
      PROVE  /\ stage' = "headers" /\ pos' = LineAt(Read + 1) /\ Read' = Read + 1
             /\ headers'.items = Append(headers.items, [key |-> key.string, val |-> r.val])
  BY <1>3, <1>5, <1>6, <1>8, ItemFacts DEF Read
<1>9. LineInv'
  <2>1. CASE r.stat = "value"
    <3>1. stage' = "headers" /\ pos' = LineAt(Read + 1) /\ Read' = Read + 1
      BY <1>8, <2>1
    <3>2. Read' <= LineCount /\ pos' = LineAt(Read')
      BY <1>4, <1>7, <3>1
    <3>3. stage' \notin Taken \cup {"query"} /\ stage' # "value"
      BY <3>1 DEF Taken, HandlerStages
    <3>4. LineAt(Read)' = LineAt(Read')
      BY <1>1, HeaderStays DEF LineAt
    <3> QED
      BY <1>1, <3>1, <3>2, <3>3, <3>4, HeaderStays DEF LineInv
  <2>2. CASE r.stat # "value"
    <3>1. stage' = "outside" \/ (stage' = "query" /\ headers' = Destructed)
      BY <1>3, <2>2, FailureLeaves
    <3>2. stage' \in Taken => stage' # "outside"
      BY DEF Taken, HandlerStages
    <3> QED
      BY <3>1, <3>2 DEF LineInv
  <2> QED
    BY <2>1, <2>2
<1>10. MeaningInv'
  <2>1. SUFFICES ASSUME CleanHeader PROVE MeaningInv'
    <3>1. CleanHeader' = CleanHeader
      BY <1>1, HeaderStays
    <3> QED
      BY <3>1 DEF MeaningInv
  <2>2. PICK d, c, v, z \in Nat :
              /\ LineEnd = d /\ Lines[Read + 1] = SubSeq(header, pos, d - 1)
              /\ IsCleanLine(header, pos, d, c, v, z)
    BY <1>1, <1>4, <2>1, CleanHere
  <2>3. header \in Seq(STRING) /\ pos \in Nat
    BY <1>1, <1>4, <2>1, CleanHere
  <2>4. key.next = c + 1 /\ key.string = NameOf(Lines[Read + 1])
    <3>1. /\ key.string = NameOf(Lines[Read + 1])
          /\ key.next = pos + Find(Lines[Read + 1], 1, ":")
      BY <1>1, <2>1 DEF MeaningInv
    <3>2. Find(Lines[Read + 1], 1, ":") = c - pos + 1
      BY <2>2 DEF IsCleanLine
    <3>3. pos + (c - pos + 1) = c + 1
      BY <2>3
    <3> QED
      BY <3>1, <3>2, <3>3
  <2>5. /\ find_non_space(header, c + 1) = v
        /\ ParseValue(header, v, d) = [stat |-> "value", val |-> SubSeq(header, v, z)]
    BY <2>2, <2>3, ValueRead
  <2>6. r = [stat |-> "value", val |-> SubSeq(header, v, z)]
    BY <1>3, <2>2, <2>4, <2>5
  <2>7. r.val = ValueOf(Lines[Read + 1])
    BY <2>2, <2>6 DEF IsCleanLine
  <2>8. /\ stage' = "headers" /\ Read' = Read + 1
        /\ headers'.items = Append(headers.items, MeaningOf(Lines[Read + 1]))
    BY <1>8, <2>4, <2>6, <2>7 DEF MeaningOf
  <2>9. headers.items = Meant(Read)
    BY <1>1, <2>1 DEF MeaningInv
  <2>10. headers'.items = Meant(Read + 1)
    BY <1>7, <2>8, <2>9, MeantFacts
  <2>11. Meant(Read)' = Meant(Read + 1)
    BY <1>1, <2>8, HeaderStays DEF Meant
  <2>12. stage' \notin Taken \cup {"query", "value"} /\ stage' # "outside"
    BY <2>8 DEF Taken, HandlerStages
  <2> QED
    BY <2>8, <2>10, <2>11, <2>12 DEF MeaningInv
<1> QED
  BY <1>9, <1>10

\* The loop ends behind the last line.
LEMMA EndKeepsLines ==
    ASSUME ParserInv, HeaderInv, FormInv, LineInv, MeaningInv, EndHeaders
    PROVE  LineInv' /\ MeaningInv'
<1>1. /\ stage = "headers" /\ stage' = "query" /\ header' = header /\ headers' = headers
      /\ At(header, pos) \in {"NUL", "CRLF"}
  BY DEF EndHeaders, lines
<1>2. SUFFICES ASSUME HasLines PROVE LineInv' /\ MeaningInv'
  <2>1. HasLines' = HasLines /\ CleanHeader' = CleanHeader
    BY <1>1, HeaderStays
  <2> QED
    BY <2>1 DEF LineInv, MeaningInv, CleanHeader, HasLines
<1>3. ~(Read < LineCount)
  BY <1>1, <1>2, ReadHere
<1>4. Read = LineCount
  BY <1>1, <1>2, <1>3, ReadAll
<1>5. LineInv'
  <2>1. Read' = Read /\ LineCount' = LineCount
    BY <1>1, HeaderStays DEF Read
  <2> QED
    BY <1>1, <1>4, <2>1 DEF LineInv
<1>6. MeaningInv'
  <2>1. CleanHeader => headers.items = Meaning
    <3> SUFFICES ASSUME CleanHeader PROVE headers.items = Meaning
      OBVIOUS
    <3>1. headers.items = Meant(LineCount)
      BY <1>1, <1>4 DEF MeaningInv
    <3>2. DOMAIN Lines = 1..LineCount
      BY <1>1, <1>2, HeaderClosed, LinesFacts
    <3> QED
      BY <3>1, <3>2 DEF Meant, Meaning, MeaningOf
  <2> QED
    BY <1>1, <2>1, HeaderStays DEF MeaningInv
<1> QED
  BY <1>5, <1>6

\* The first line is at the beginning of the header lines.
LEMMA StartKeepsLines ==
    ASSUME ParserInv, HeaderInv, ParseStartLine
    PROVE  LineInv' /\ MeaningInv'
<1>1. /\ stage = "start" /\ stage' = "headers" /\ WellFormed /\ pos' = pos
      /\ headers' = headers /\ text \in Requests /\ headers = EmptyList(HeaderCapacity)
  BY Zenon DEF ParseStartLine, HeaderInv
<1>2. header' = HeaderText
  BY Zenon DEF ParseStartLine, HeaderText
<1>3. /\ header' \in Seq(STRING) /\ header' # <<>>
      /\ header'[1] # "CRLF" => Closed(header')
  BY <1>1, <1>2, HeaderShape
<1>4. pos' = 1 /\ headers'.items = <<>> /\ Read' = 0
  BY <1>1 DEF ParserInv, EmptyList, Read
<1>5. stage' \notin Taken \cup {"query", "value"} /\ stage' # "outside"
  BY <1>1 DEF Taken, HandlerStages
<1>6. ASSUME header'[1] # "CRLF" PROVE 0 <= LineCount' /\ pos' = LineAt(0)'
  <2>1. PICK h \in Seq(STRING) : h = header'
    BY <1>3
  <2>2. PICK N \in Nat : N = RunCount(h, "CRLF")
    BY RunFacts
  <2>3. RunCount(h, "CRLF") # 0 /\ RunStart(h, "CRLF", 1) = 1
    BY <1>3, <1>6, <2>1, FirstRun
  <2>4. 0 < N /\ 0 + 1 = 1 /\ 0 <= N
    BY <2>2, <2>3
  <2>5. LineCount' = N
    BY <2>1, <2>2 DEF LineCount
  <2> QED
    BY <1>4, <2>1, <2>3, <2>4, <2>5 DEF LineAt
<1>7. LineInv'
  <2>1. LineAt(Read)' = LineAt(0)'
    BY <1>4 DEF LineAt
  <2> QED
    BY <1>4, <1>5, <1>6, <2>1 DEF LineInv, HasLines
<1>8. MeaningInv'
  <2>1. Meant(Read)' = <<>>
    BY <1>4 DEF Meant
  <2> QED
    BY <1>4, <1>5, <2>1 DEF MeaningInv
<1> QED
  BY <1>7, <1>8

\* The lines are left alone where the query is taken apart and by the callbacks.
LEMMA RestKeepsLines ==
    ASSUME LineInv, MeaningInv, header' = header, headers' = headers,
           stage' \notin {"headers", "value", "outside"},
           stage' \in Taken \cup {"query"} => stage \in Taken \cup {"query"}
    PROVE  LineInv' /\ MeaningInv'
<1>1. Read' = Read /\ HasLines' = HasLines /\ LineCount' = LineCount
      /\ CleanHeader' = CleanHeader /\ Meaning' = Meaning
  BY HeaderStays DEF Read
<1>2. LineInv'
  BY <1>1 DEF LineInv
<1>3. MeaningInv'
  BY <1>1 DEF MeaningInv
<1> QED
  BY <1>2, <1>3

\* Every step keeps the lines, and what is said of them.
LEMMA LinesKeep ==
    ASSUME ParserInv, FormInv, HeaderInv, LineInv, MeaningInv, [HandlersNext]_vars
    PROVE  HeaderInv' /\ LineInv' /\ MeaningInv'
<1>1. CASE ParserStep
  <2>1. text' = text /\ WellFormed' = WellFormed /\ HeaderText' = HeaderText
    <3>1. text' = text
      BY <1>1, ParserStages
    <3> QED
      BY <3>1, TextStays DEF HeaderText, EndOfLine, BlankLine
  <2>2. CASE ParseStartLine
    <3>1. header' = HeaderText /\ stage' = "headers"
      BY <2>2, Zenon DEF ParseStartLine, HeaderText
    <3>2. HeaderInv'
      BY <2>1, <3>1 DEF HeaderInv
    <3> QED
      BY <2>2, <3>2, StartKeepsLines
  <2>3. CASE RefuseStartLine
    <3>1. stage' = "NULL" /\ ~WellFormed /\ header' = header /\ headers' = headers
      BY <2>3 DEF RefuseStartLine, lines
    <3>2. stage' \notin Taken
      BY <3>1 DEF Taken, HandlerStages
    <3> QED
      BY <2>1, <3>1, <3>2, RestKeepsLines DEF HeaderInv
  <2>4. CASE ParseHeaderKey \/ ParseHeaderValue \/ EndHeaders
    <3>1. header' = header /\ stage \in {"headers", "value"}
      BY <2>4 DEF ParseHeaderKey, ParseHeaderValue, EndHeaders, lines
    <3>2. stage' \in {"headers", "value", "query", "outside"}
      BY <2>4 DEF ParseHeaderKey, ParseHeaderValue, EndHeaders, ParseFailure
    <3>3. HeaderInv'
      BY <2>1, <3>1, <3>2 DEF HeaderInv
    <3> QED
      BY <2>4, <3>3, KeyKeepsLines, ValueKeepsLines, EndKeepsLines
  <2>5. CASE InsertParameter \/ EndQuery
    <3>1. /\ stage = "query" /\ stage' \in {"query", "parsed"}
          /\ header' = header /\ headers' = headers
      BY <2>5 DEF InsertParameter, EndQuery, lines
    <3> QED
      BY <2>1, <3>1, RestKeepsLines DEF HeaderInv
  <2> QED
    BY <1>1, <2>2, <2>3, <2>4, <2>5 DEF ParserStep
<1>2. CASE HandlerStep
  <2>1. /\ text' = text /\ header' = header /\ headers' = headers
        /\ stage \in Taken \cup {"NULL"} /\ stage' \in HandlerStages \cup {"answered", "fault"}
        /\ stage = "NULL" => stage' = "answered"
    BY <1>2, HandlerStageSteps DEF lines
  <2>2. WellFormed' = WellFormed /\ HeaderText' = HeaderText
    BY <2>1, TextStays DEF HeaderText, EndOfLine, BlankLine
  <2>3. stage # "start" /\ stage' # "start" /\ stage' \notin {"headers", "value", "outside"}
    BY <2>1 DEF Taken, HandlerStages
  <2>4. stage' \in Taken \cup {"query"} => stage \in Taken \cup {"query"}
    BY <2>1 DEF Taken, HandlerStages
  <2> QED
    BY <2>1, <2>2, <2>3, <2>4, RestKeepsLines DEF HeaderInv
<1>3. CASE UNCHANGED vars
  <2>1. text' = text /\ stage' = stage /\ header' = header /\ headers' = headers /\ pos' = pos
        /\ key' = key
    BY <1>3 DEF vars, requestVars, lines
  <2>2. WellFormed' = WellFormed /\ HeaderText' = HeaderText
    BY <2>1, TextStays DEF HeaderText, EndOfLine, BlankLine
  <2>3. /\ HasLines' = HasLines /\ LineCount' = LineCount /\ Lines' = Lines
        /\ CleanHeader' = CleanHeader /\ Meaning' = Meaning
        /\ Read' = Read /\ LineAt(Read)' = LineAt(Read) /\ Meant(Read)' = Meant(Read)
    <3>1. Read' = Read
      BY <2>1 DEF Read
    <3>2. LineAt(Read)' = LineAt(Read) /\ Meant(Read)' = Meant(Read)
      BY <2>1, <3>1, HeaderStays DEF LineAt, Meant
    <3> QED
      BY <2>1, <3>1, <3>2, HeaderStays
  <2>4. HeaderInv'
    BY <2>1, <2>2 DEF HeaderInv
  <2>5. LineInv'
    BY <2>1, <2>3 DEF LineInv
  <2>6. MeaningInv'
    BY <2>1, <2>3 DEF MeaningInv
  <2> QED
    BY <2>4, <2>5, <2>6
<1> QED
  BY <1>1, <1>2, <1>3 DEF HandlersNext

\* Which lines have been read at each stage, and what has become of them.
THEOREM LinesInvariance ==
    HandlersSpec => [](HeaderInv /\ LineInv /\ MeaningInv)
<1>1. HandlersInit => HeaderInv /\ LineInv /\ MeaningInv
  <2> SUFFICES ASSUME HandlersInit PROVE HeaderInv /\ LineInv /\ MeaningInv
    OBVIOUS
  <2>1. /\ text \in Requests /\ stage = "start" /\ header = <<>>
        /\ headers = EmptyList(HeaderCapacity)
    BY DEF HandlersInit, Init
  <2> QED
    BY <2>1 DEF HeaderInv, LineInv, MeaningInv, HasLines, CleanHeader
<1>2. HandlersInv /\ FormInv /\ (HeaderInv /\ LineInv /\ MeaningInv) /\ [HandlersNext]_vars
      => (HeaderInv /\ LineInv /\ MeaningInv)'
  BY LinesKeep DEF HandlersInv
<1>3. HandlersSpec => []FormInv
  BY QueryInvariance, PTL
<1> QED
  BY <1>1, <1>2, <1>3, HandlersInvariance, PTL DEF HandlersSpec

\* The lines that were read first come first in what all of them mean.
LEMMA MeantPrefix ==
    ASSUME NEW m \in Nat, NEW n \in Nat, m <= n
    PROVE  IsPrefix(Meant(m), Meant(n))
<1> DEFINE V == {MeaningOf(Lines[i]) : i \in Nat}
<1>1. ASSUME NEW k \in Nat
      PROVE  /\ Meant(k) \in Seq(V) /\ Len(Meant(k)) = k
             /\ \A i \in 1..k : Meant(k)[i] = MeaningOf(Lines[i])
  <2>1. \A i \in 1..k : MeaningOf(Lines[i]) \in V
    OBVIOUS
  <2> HIDE DEF V
  <2>2. Meant(k) \in [1..k -> V]
    BY <2>1 DEF Meant
  <2>3. \A i \in 1..k : Meant(k)[i] = MeaningOf(Lines[i])
    BY DEF Meant
  <2> QED
    BY <2>2, <2>3, FunctionType
<1> HIDE DEF V
<1>2. PICK s \in Seq(V) : s = Meant(m) /\ Len(s) = m /\ \A i \in 1..m : s[i] = MeaningOf(Lines[i])
  BY <1>1
<1>3. PICK t \in Seq(V) : t = Meant(n) /\ Len(t) = n /\ \A i \in 1..n : t[i] = MeaningOf(Lines[i])
  BY <1>1
<1>4. SubSeq(s, 1, m) = s
  BY <1>2, SubSeqFull
<1>5. PICK r : r = SubSeq(t, 1, m)
  OBVIOUS
<1>6. r \in Seq(V) /\ Len(r) = m /\ \A i \in 1..m : r[i] = t[1 + i - 1]
  <2>1. 1 \in Nat \ {0} /\ 1 <= m + 1 /\ m <= Len(t) /\ m - 1 + 1 = m
    BY <1>3
  <2>2. /\ SubSeq(t, 1, m) \in Seq(V) /\ Len(SubSeq(t, 1, m)) = m - 1 + 1
        /\ \A i \in 1 .. m - 1 + 1 : SubSeq(t, 1, m)[i] = t[1 + i - 1]
    BY <1>3, <2>1, PartFacts
  <2> QED
    BY <1>5, <2>1, <2>2
<1>7. ASSUME NEW i \in 1..m PROVE r[i] = s[i]
  <2>1. i \in 1..n /\ 1 + i - 1 = i
    OBVIOUS
  <2> QED
    BY <1>2, <1>3, <1>6, <2>1
<1>8. r = s
  BY <1>2, <1>6, <1>7, SeqEqual
<1> QED
  BY <1>2, <1>3, <1>4, <1>5, <1>8 DEF IsPrefix

\* Clean header lines are never read outside and all of them arrive; of whatever
\* lines are sent there is an item for each, or none at all.
THEOREM HeadersKept ==
    HandlersSpec => []HeadersKeptOrDropped
<1>1. HandlersInv /\ FormInv /\ (HeaderInv /\ LineInv /\ MeaningInv) => HeadersKeptOrDropped
  <2> SUFFICES ASSUME HandlersInv, FormInv, HeaderInv, LineInv, MeaningInv
               PROVE  HeadersKeptOrDropped
    OBVIOUS
  <2>0. ParserInv
    BY DEF HandlersInv
  <2>1. ASSUME CleanHeader, stage \in {"headers", "value"} PROVE IsPrefix(headers.items, Meaning)
    <3>1. HasLines
      BY <2>1 DEF CleanHeader, HasLines
    <3>2. header \in Seq(STRING) /\ Closed(header)
      BY <2>1, <3>1, HeaderClosed
    <3>3. LineCount \in Nat /\ DOMAIN Lines = 1..LineCount
      BY <3>2, LinesFacts
    <3>4. Read \in Nat /\ Read <= LineCount /\ headers.items = Meant(Read)
      BY <2>0, <2>1, <3>1, ItemFacts DEF LineInv, MeaningInv
    <3>5. Meaning = Meant(LineCount)
      BY <3>3 DEF Meaning, Meant, MeaningOf
    <3> QED
      BY <3>3, <3>4, <3>5, MeantPrefix
  <2>2. ASSUME stage \in {"query", "parsed"}, At(header, 1) # "CRLF"
        PROVE  Len(headers.items) = Len(Lines) \/ headers = Destructed
    <3>1. header \in Seq(STRING) /\ header # <<>> /\ (HasLines => Closed(header))
      BY <2>2, HeaderClosed
    <3>2. 1 \in DOMAIN header
      BY <3>1
    <3>3. HasLines
      BY <2>2, <3>1, <3>2 DEF HasLines, At
    <3>4. Read = LineCount \/ headers = Destructed
      BY <2>2, <3>3 DEF LineInv, Taken
    <3>5. Len(Lines) = LineCount
      BY <3>1, <3>3, LinesFacts
    <3> QED
      BY <3>4, <3>5 DEF Read
  <2>3. CleanHeader => /\ stage # "outside"
                       /\ stage \in {"query", "parsed"} => headers.items = Meaning
    BY DEF MeaningInv, Taken
  <2> QED
    BY <2>1, <2>2, <2>3 DEF HeadersKeptOrDropped
<1>2. HandlersSpec => []FormInv
  BY QueryInvariance, PTL
<1> QED
  BY <1>1, <1>2, HandlersInvariance, LinesInvariance, PTL

-----------------------------------------------------------------------------
(* What is owed to a complete request *)

\* Where a parameter of this one word for a name begins.
Named(q, name) == {i \in Begins(q) : At(q, i + 1) = name /\ At(q, i + 2) = "="}

\* A parameter of that name is among the pairs.
LEMMA NamedIsKept ==
    ASSUME NEW S, NEW q \in Seq(S), CleanParts(q), NEW name, NEW i \in Named(q, name)
    PROVE  \E n \in 1..RunCount(q, "&") : NthPair(q, n)[1] = <<name>>
<1>1. i \in Begins(q) /\ At(q, i + 1) = name /\ At(q, i + 2) = "="
  BY DEF Named
<1>0. i \in Nat
  BY <1>1 DEF Begins
<1>2. PICK L \in Nat : L = Len(q) /\ DOMAIN q = 1..L
  OBVIOUS
<1>3. PICK e \in Nat, g \in Nat : e = i + 1 /\ g = i + 2
  BY <1>0
<1>4. e \in 1..L /\ g \in 1..L
  <2>1. PICK j \in i + 4 .. Len(q) + 1 : TRUE
    BY <1>1, BetweenDelimiters
  <2>2. j \in i + 4 .. L + 1
    BY <1>2, <2>1
  <2> QED
    BY <1>0, <1>3, <2>2
<1>5. q[e] = name /\ q[g] = "="
  BY <1>1, <1>2, <1>3, <1>4 DEF At
<1>6. e \in RunStarts(q, "&")
  BY <1>1, <1>3, BeginsAreRuns
<1>7. PICK n \in 1..RunCount(q, "&") : RunStart(q, "&", n) = e
  BY <1>6, RunFacts
<1>8. PICK u \in Nat : IsNth(q, n, e, u)
  <2>1. PICK u : u = RunEnd(q, "&", e)
    OBVIOUS
  <2>2. u \in e..Len(q)
    BY <1>7, <2>1, ParameterFacts
  <2>3. u \in Nat
    BY <1>3, <2>2
  <2> QED
    BY <1>7, <2>1, <2>3 DEF IsNth
<1>9. PICK j, k, l \in Nat : IsCut(q, n, e, j, k, l, u)
  BY <1>7, <1>8, RunPair
<1>10. /\ e < k /\ k < u /\ j = k - 1
       /\ \A m \in e..u : q[m] = "=" => m = k
       /\ NthPair(q, n)[1] = SubSeq(q, e, j)
  BY <1>9 DEF IsCut
<1>11. g = k
  <2>1. e < k /\ k < u
    BY <1>10
  <2>2. g \in e..u
    BY <1>0, <1>3, <2>1
  <2> QED
    BY <1>5, <1>10, <2>2
<1>12. j = e
  BY <1>0, <1>3, <1>10, <1>11
<1>13. SubSeq(q, e, e) = <<q[e]>>
  BY <1>2, <1>4, OnePart
<1> QED
  BY <1>5, <1>7, <1>10, <1>12, <1>13

IsOneWord(q, name, values) ==
    \A i \in Named(q, name) : At(q, i + 3) \in values /\ At(q, i + 4) \in {"&", "NUL"}

\* The value of each parameter of that name is one word, if it is one in the text.
LEMMA NamedHasValue ==
    ASSUME NEW S, NEW q \in Seq(S), CleanParts(q), "NUL" \notin Range(q), NEW name,
           NEW values, IsOneWord(q, name, values),
           NEW n \in 1..RunCount(q, "&"), NthPair(q, n)[1] = <<name>>
    PROVE  \E v \in values : NthPair(q, n)[2] = <<v>>
<1>1. PICK L \in Nat : L = Len(q) /\ DOMAIN q = 1..L
  OBVIOUS
<1>2. PICK a : a = RunStart(q, "&", n)
  OBVIOUS
<1>3. PICK u : u = RunEnd(q, "&", a)
  OBVIOUS
<1>4. a \in 1..Len(q) /\ u \in a..Len(q) /\ (a = 1 \/ q[a - 1] = "&")
  BY <1>2, <1>3, ParameterFacts
<1>5. a \in Nat /\ u \in Nat /\ 1 <= a /\ a <= u /\ u <= L
  <2>1. a \in 1..L /\ u \in a..L
    BY <1>1, <1>4
  <2> QED
    BY <2>1
<1>6. \A m \in a..u : q[m] # "&"
  BY <1>2, <1>3, NextRun
<1>7. PICK j, k, l \in Nat : IsCut(q, n, a, j, k, l, u)
  BY <1>2, <1>3, <1>5, RunPair DEF IsNth
<1>8. /\ a < k /\ k < u /\ j = k - 1 /\ l = k + 1 /\ q[k] = "="
      /\ NthPair(q, n)[1] = SubSeq(q, a, j) /\ NthPair(q, n)[2] = SubSeq(q, l, u)
  BY <1>7 DEF IsCut
<1>9. j = a /\ q[a] = name
  <2>1. /\ Len(SubSeq(q, a, j)) = j - a + 1
        /\ \A i \in 1 .. j - a + 1 : SubSeq(q, a, j)[i] = q[a + i - 1]
    <3>1. a \in Nat \ {0} /\ a <= j + 1 /\ j <= L
      BY <1>5, <1>8
    <3>2. j <= Len(q)
      BY <1>1, <3>1
    <3> QED
      BY <3>1, <3>2, PartFacts
  <2>2. PICK r : r = SubSeq(q, a, j)
    OBVIOUS
  <2>3. r = <<name>>
    BY <1>8, <2>2
  <2>4. Len(r) = 1 /\ r[1] = name
    BY <2>3
  <2>5. j - a + 1 = 1
    BY <2>1, <2>2, <2>4
  <2>6. j = a
    BY <1>5, <2>5
  <2>7. r[1] = q[a + 1 - 1]
    <3>1. 1 \in 1 .. j - a + 1
      BY <2>5
    <3> QED
      BY <2>1, <2>2, <3>1
  <2>8. a + 1 - 1 = a
    BY <1>5
  <2> QED
    BY <2>4, <2>6, <2>7, <2>8
<1>10. PICK i \in Nat : a = i + 1
  <2>1. a - 1 \in Nat /\ a = (a - 1) + 1
    BY <1>5
  <2> QED
    BY <2>1
<1>11. k = i + 2 /\ l = i + 3 /\ i + 3 <= u /\ k \in 1..L /\ a \in 1..L /\ l \in 1..L
  BY <1>5, <1>8, <1>9, <1>10
<1>12. i \in Named(q, name)
  <2>1. i \in Begins(q)
    <3>1. a = 1 => i = 0
      BY <1>10
    <3>2. a # 1 => i \in 1..L /\ a - 1 = i
      BY <1>5, <1>10
    <3> QED
      BY <1>1, <1>4, <3>1, <3>2 DEF Begins
  <2>2. q[i + 1] = name /\ q[i + 2] = "="
    BY <1>8, <1>9, <1>10, <1>11
  <2>3. i + 1 \in DOMAIN q /\ i + 2 \in DOMAIN q
    BY <1>1, <1>10, <1>11
  <2> QED
    BY <2>1, <2>2, <2>3 DEF Named, At
<1>13. At(q, i + 3) \in values /\ At(q, i + 4) \in {"&", "NUL"}
  BY <1>12 DEF IsOneWord
<1>14. q[l] \in values
  BY <1>1, <1>11, <1>13 DEF At
<1>15. u = l
  <2>1. SUFFICES ASSUME u # l PROVE FALSE
    OBVIOUS
  <2>2. PICK y \in Nat : y = i + 4 /\ y \in a..u /\ y \in 1..L
    <3>1. i + 4 \in Nat /\ i + 4 \in a..u /\ i + 4 \in 1..L
      BY <1>5, <1>10, <1>11, <2>1
    <3> QED
      BY <3>1
  <2>3. At(q, y) = q[y]
    BY <1>1, <2>2 DEF At
  <2>4. q[y] \in Range(q)
    BY <1>1, <2>2 DEF Range
  <2>5. q[y] # "&" /\ q[y] # "NUL"
    BY <1>6, <2>2, <2>4
  <2>6. At(q, y) \in {"&", "NUL"}
    BY <1>13, <2>2
  <2> QED
    BY <2>3, <2>5, <2>6
<1>16. SubSeq(q, l, l) = <<q[l]>>
  BY <1>1, <1>11, OnePart
<1> QED
  BY <1>8, <1>14, <1>15, <1>16

\* No two routes have the same path, with or without a slash at the end.
LEMMA RoutesDiffer ==
    ASSUME NEW i \in DOMAIN Routes, NEW k \in DOMAIN Routes,
           url_path_cmp(Routes[i].path, Routes[k].path)
    PROVE  i = k
<1> DEFINE S == {"/", "stop", "input", "program", "run", "text-mode", "interactive-mode", "debugger"}
           last(n) == <<"stop", "input", "program", "text-mode", "interactive-mode", "debugger">>[n]
           size(n) == IF n <= 3 THEN 2 ELSE 4
<1>1. DOMAIN Routes = 1..6
  BY DEF Routes
<1>2. /\ "/" \in S /\ "stop" \in S /\ "input" \in S /\ "program" \in S /\ "run" \in S
      /\ "text-mode" \in S /\ "interactive-mode" \in S /\ "debugger" \in S
  OBVIOUS
<1>3. ASSUME NEW n \in 1..6
      PROVE  /\ Routes[n].path \in Seq(S) /\ Len(Routes[n].path) = size(n)
             /\ Routes[n].path[size(n)] = last(n)
  <2>1. CASE n = 1
    <3>1. Routes[n].path = <<"/", "stop">>
      BY <2>1 DEF Routes
    <3>2. <<"/", "stop">> \in Seq(S)
      <4> HIDE DEF S
      <4> QED
        BY <1>2
    <3>3. Len(<<"/", "stop">>) = 2 /\ <<"/", "stop">>[2] = "stop"
      OBVIOUS
    <3>4. size(n) = 2 /\ last(n) = "stop"
      BY <2>1
    <3> HIDE DEF S, size, last
    <3> QED
      BY <3>1, <3>2, <3>3, <3>4
  <2>2. CASE n = 2
    <3>1. Routes[n].path = <<"/", "input">>
      BY <2>2 DEF Routes
    <3>2. <<"/", "input">> \in Seq(S)
      <4> HIDE DEF S
      <4> QED
        BY <1>2
    <3>3. Len(<<"/", "input">>) = 2 /\ <<"/", "input">>[2] = "input"
      OBVIOUS
    <3>4. size(n) = 2 /\ last(n) = "input"
      BY <2>2
    <3> HIDE DEF S, size, last
    <3> QED
      BY <3>1, <3>2, <3>3, <3>4
  <2>3. CASE n = 3
    <3>1. Routes[n].path = <<"/", "program">>
      BY <2>3 DEF Routes
    <3>2. <<"/", "program">> \in Seq(S)
      <4> HIDE DEF S
      <4> QED
        BY <1>2
    <3>3. Len(<<"/", "program">>) = 2 /\ <<"/", "program">>[2] = "program"
      OBVIOUS
    <3>4. size(n) = 2 /\ last(n) = "program"
      BY <2>3
    <3> HIDE DEF S, size, last
    <3> QED
      BY <3>1, <3>2, <3>3, <3>4
  <2>4. CASE n = 4
    <3>1. Routes[n].path = <<"/", "run", "/", "text-mode">>
      BY <2>4 DEF Routes
    <3>2. <<"/", "run", "/", "text-mode">> \in Seq(S)
      <4> HIDE DEF S
      <4> QED
        BY <1>2
    <3>3. Len(<<"/", "run", "/", "text-mode">>) = 4 /\ <<"/", "run", "/", "text-mode">>[4] = "text-mode"
      OBVIOUS
    <3>4. size(n) = 4 /\ last(n) = "text-mode"
      BY <2>4
    <3> HIDE DEF S, size, last
    <3> QED
      BY <3>1, <3>2, <3>3, <3>4
  <2>5. CASE n = 5
    <3>1. Routes[n].path = <<"/", "run", "/", "interactive-mode">>
      BY <2>5 DEF Routes
    <3>2. <<"/", "run", "/", "interactive-mode">> \in Seq(S)
      <4> HIDE DEF S
      <4> QED
        BY <1>2
    <3>3. Len(<<"/", "run", "/", "interactive-mode">>) = 4 /\ <<"/", "run", "/", "interactive-mode">>[4] = "interactive-mode"
      OBVIOUS
    <3>4. size(n) = 4 /\ last(n) = "interactive-mode"
      BY <2>5
    <3> HIDE DEF S, size, last
    <3> QED
      BY <3>1, <3>2, <3>3, <3>4
  <2>6. CASE n = 6
    <3>1. Routes[n].path = <<"/", "run", "/", "debugger">>
      BY <2>6 DEF Routes
    <3>2. <<"/", "run", "/", "debugger">> \in Seq(S)
      <4> HIDE DEF S
      <4> QED
        BY <1>2
    <3>3. Len(<<"/", "run", "/", "debugger">>) = 4 /\ <<"/", "run", "/", "debugger">>[4] = "debugger"
      OBVIOUS
    <3>4. size(n) = 4 /\ last(n) = "debugger"
      BY <2>6
    <3> HIDE DEF S, size, last
    <3> QED
      BY <3>1, <3>2, <3>3, <3>4
  <2> HIDE DEF S, size, last
  <2> QED
    BY <2>1, <2>2, <2>3, <2>4, <2>5, <2>6
<1>4. PICK l, r \in Seq(S) : l = Routes[i].path /\ r = Routes[k].path
  BY <1>1, <1>3
<1>5. Len(l) = size(i) /\ Len(r) = size(k) /\ l[size(i)] = last(i) /\ r[size(k)] = last(k)
  BY <1>1, <1>3, <1>4
<1>6. size(i) \in {2, 4} /\ size(k) \in {2, 4}
  OBVIOUS
<1>7. Len(Append(l, "/")) = Len(l) + 1 /\ Len(Append(r, "/")) = Len(r) + 1
  <2> HIDE DEF S
  <2> QED
    BY <1>2, <1>4
<1>8. l = r
  <2>1. PICK m, n \in Nat : m = Len(l) /\ n = Len(r) /\ m \in {2, 4} /\ n \in {2, 4}
    BY <1>5, <1>6
  <2>2. l = r \/ Len(l) = Len(r) + 1 \/ Len(r) = Len(l) + 1
    BY <1>4, <1>7 DEF url_path_cmp
  <2>3. l = r \/ m = n + 1 \/ n = m + 1
    BY <2>1, <2>2
  <2>4. m # n + 1 /\ n # m + 1
    <3>1. m = 2 \/ m = 4
      BY <2>1
    <3>2. n = 2 \/ n = 4
      BY <2>1
    <3> QED
      BY <3>1, <3>2
  <2> QED
    BY <2>3, <2>4
<1>9. last(i) = last(k)
  BY <1>5, <1>8
<1> QED
  BY <1>1, <1>9

\* The route of a path and a method is found.
LEMMA RouteFound ==
    ASSUME NEW i \in DOMAIN Routes
    PROVE  find_route(Routes[i].path, Routes[i].method) = i
<1> DEFINE Fitting(k) == /\ Routes[k].method = Routes[i].method
                         /\ url_path_cmp(Routes[i].path, Routes[k].path)
           I == {k \in 1..Len(Routes) : Fitting(k)}
<1>1. find_route(Routes[i].path, Routes[i].method) = IF I # {} THEN Min(I) ELSE 0
  BY DEF find_route, SelectInSeq, SelectInSubSeq
<1>2. DOMAIN Routes = 1..6 /\ Len(Routes) = 6
  BY DEF Routes
<1>3. i \in I
  BY <1>2 DEF url_path_cmp
<1>4. \A k \in I : k = i
  BY <1>2, RoutesDiffer
<1>5. I \in SUBSET Nat
  BY <1>2, <1>4
<1> HIDE DEF I
<1>6. Min(I) \in I
  BY <1>3, <1>5, MinFacts
<1> QED
  BY <1>1, <1>3, <1>4, <1>6

\* In front of the question mark is the path; neither the target nor the query
\* has a zero in it.
LEMMA TargetFacts ==
    ASSUME text \in Seq(STRING), "NUL" \notin Range(text), WellFormed, CleanQuery
    PROVE  /\ "NUL" \notin Range(QueryText) /\ CleanParts(QueryText) /\ Starts = Begins(QueryText)
           /\ QueryText \in Seq(STRING)
           /\ PathText = SubSeq(Target, 1, Mark - 1)
<1> DEFINE S == STRING \ {"NUL"}
<1>0. PICK e, b, c, n \in Nat : IsLine(e, b, c, n)
  BY StartLineFacts
<1>1. PICK b2, c2, f, n2 \in Nat : IsQuery(b2, c2, f, n2)
  BY QueryFacts DEF CleanQuery
<1>2. /\ EndOfLine = e /\ Blank1 = b /\ Blank2 = c
      /\ 1 <= b /\ b < c /\ c < e /\ e <= Len(text)
      /\ Len(StartLine) = e - 1 /\ Len(Target) = n
  BY <1>0 DEF IsLine
<1>3. /\ Mark = f /\ 2 <= f /\ f <= n2 /\ Len(Target) = n2 /\ Target[f] = "?"
      /\ \A i \in 2 .. f - 1 : Target[i] # "?"
      /\ CleanParts(QueryText) /\ Starts = Begins(QueryText) /\ QueryText \in Seq(STRING)
  BY <1>1 DEF IsQuery
<1>4. text \in Seq(S)
  BY WithoutWord
<1> HIDE DEF S
<1>5. StartLine \in Seq(S)
  <2>1. e - 1 \in 0..Len(text)
    BY <1>2
  <2> QED
    BY <1>2, <1>4, <2>1, PartType DEF StartLine
<1>6. Target \in Seq(S)
  <2>1. b + 1 \in Nat \ {0} /\ c - 1 \in 0..Len(StartLine)
    BY <1>2
  <2> QED
    BY <1>2, <1>5, <2>1, PartType DEF Target
<1>7. QueryText \in Seq(S)
  <2>1. f + 1 \in Nat \ {0} /\ Len(Target) \in 0..Len(Target)
    BY <1>2
  <2>2. QueryText = SubSeq(Target, f + 1, Len(Target))
    BY <1>3 DEF QueryText, Mark
  <2> QED
    BY <1>6, <2>1, <2>2, PartType
<1>8. "NUL" \notin Range(QueryText)
  BY <1>7 DEF Range, S
<1>9. n2 = n
  BY <1>2, <1>3
<1> DEFINE J == {i \in 2 .. Len(Target) + 1 : At(Target, i) \in {"?", "NUL"}}
<1>10. DOMAIN Target = 1..n
  BY <1>2, <1>6
<1>11. f \in J
  <2>1. f \in 2 .. Len(Target) + 1 /\ f \in 1..n
    BY <1>2, <1>3, <1>9
  <2> QED
    BY <1>3, <1>10, <2>1 DEF At
<1>12. ASSUME NEW i \in J PROVE f <= i
  <2>1. SUFFICES ASSUME i < f PROVE FALSE
    BY <1>2
  <2>2. i \in 2 .. f - 1 /\ i \in 1..n
    BY <1>2, <1>3, <1>9, <2>1
  <2>3. At(Target, i) = Target[i] /\ Target[i] \in S
    BY <1>6, <1>10, <2>2 DEF At
  <2> QED
    BY <1>3, <2>2, <2>3 DEF S
<1>13. J \in SUBSET Nat
  BY <1>2
<1> HIDE DEF J
<1>14. Min(J) = f
  BY <1>11, <1>12, <1>13, MinIs
<1>15. PathText = SubSeq(Target, 1, Mark - 1)
  <2>1. First(J) = f
    BY <1>11, <1>14 DEF First
  <2> QED
    BY <1>3, <2>1 DEF PathText, J
<1> QED
  BY <1>3, <1>8, <1>15

\* What the parser has made of the start line.
RequestInv ==
    stage # "start" /\ WellFormed /\ CleanQuery =>
        /\ request.method = parse_http_method(SubSeq(StartLine, 1, Blank1 - 1))
        /\ request.path = SubSeq(Target, 1, Mark - 1)
        /\ request.body = SubSeq(text, BlankLine + 2, Len(text))

\* A parameter that was sent with one of these values is found with it.
LEMMA SentFound ==
    ASSUME text \in Seq(STRING), "NUL" \notin Range(text), WellFormed, CleanQuery,
           params = Kept(QueryCount), NEW name, NEW values, Sent(name, values)
    PROVE  Has(name) /\ \E v \in values : Parameter(name) = <<v>>
<1> DEFINE q == QueryText
<1>1. /\ "NUL" \notin Range(q) /\ CleanParts(q) /\ q \in Seq(STRING)
      /\ Starts = Begins(q)
  BY TargetFacts
<1>2. PICK N \in Nat : N = QueryCount /\ N = RunCount(q, "&")
  BY ListFacts DEF QueryCount
<1>3. PICK at : at = Named(q, name)
  OBVIOUS
<1>4. /\ Cardinality(at) = 1
      /\ \A i \in at : At(q, i + 3) \in values /\ At(q, i + 4) \in {"&", "NUL"}
  BY <1>1, <1>3 DEF Sent, Named
<1>5. at # {}
  BY <1>4, FS_EmptySet
<1> HIDE DEF q
<1>6. PICK n \in 1..N : NthPair(q, n)[1] = <<name>>
  BY <1>1, <1>2, <1>3, <1>5, NamedIsKept
<1>7. ASSUME NEW k \in 1..N, NthPair(q, k)[1] = <<name>>
      PROVE  \E v \in values : NthPair(q, k)[2] = <<v>>
  <2>1. k \in 1..RunCount(q, "&")
    BY <1>2
  <2>2. IsOneWord(q, name, values)
    BY <1>3, <1>4 DEF IsOneWord
  <2> QED
    BY <1>1, <1>7, <2>1, <2>2, NamedHasValue
<1>8. /\ Len(params) = N
      /\ \A k \in 1..N : params[k] = [key |-> NthPair(q, k)[1], val |-> NthPair(q, k)[2]]
  <2>1. params = Kept(N)
    BY <1>2
  <2>2. Len(params) = N
    BY <2>1, KeptFacts
  <2> QED
    BY <2>1, <2>2 DEF Kept, q
<1> DEFINE I == {k \in 1..Len(params) : params[k].key = <<name>>}
<1>9. find_query_parameter(name) = IF I # {} THEN Min(I) ELSE 0
  BY DEF find_query_parameter, SelectInSeq, SelectInSubSeq
<1>10. I = {k \in 1..N : NthPair(q, k)[1] = <<name>>}
  BY <1>8
<1>11. n \in I /\ I \in SUBSET Nat
  BY <1>6, <1>10
<1>12. I \subseteq 1..N /\ \A k \in I : NthPair(q, k)[1] = <<name>>
  BY <1>10
<1> HIDE DEF I
<1>13. PICK k \in I : k = find_query_parameter(name)
  <2>1. Min(I) \in I
    BY <1>11, MinFacts
  <2> QED
    BY <1>9, <1>11, <2>1
<1>14. k \in 1..N /\ k # 0
  BY <1>12
<1>15. Parameter(name) = NthPair(q, k)[2]
  BY <1>8, <1>13, <1>14 DEF Parameter
<1> QED
  BY <1>7, <1>12, <1>13, <1>14, <1>15 DEF Has

\* A call is routed to its callback.
LEMMA CallRouted ==
    ASSUME text \in Seq(STRING), "NUL" \notin Range(text), WellFormed, CleanQuery,
           RequestInv, stage # "start", NEW method \in Methods, NEW names, Calls(method, names),
           \A i \in DOMAIN Routes : Routes[i].callback \in names => Routes[i].method = method
    PROVE  /\ request.method = method
           /\ find_route(request.path, request.method) # 0
           /\ Routes[find_route(request.path, request.method)].callback \in names
<1>1. SubSeq(StartLine, 1, Blank1 - 1) = <<method>>
  BY DEF Calls
<1>2. PICK i \in DOMAIN Routes : Routes[i].callback \in names /\ PathText = Routes[i].path
  BY DEF Calls
<1>3. request.method = method
  <2>1. parse_http_method(<<method>>) = method
    BY DEF parse_http_method, Known
  <2> QED
    BY <1>1, <2>1 DEF RequestInv
<1>4. request.path = Routes[i].path
  BY <1>2, TargetFacts DEF RequestInv
<1>5. Routes[i].method = method
  BY <1>2
<1>6. find_route(request.path, request.method) = i
  BY <1>3, <1>4, <1>5, RouteFound
<1>7. i # 0
  BY DEF Routes
<1> QED
  BY <1>2, <1>3, <1>6, <1>7

\* What is in the body is found there.
LEMMA BodyFoundIn ==
    ASSUME WellFormed, CleanQuery, RequestInv, stage # "start", NEW name, SentBody(name)
    PROVE  ~Malformed /\ Element(name)
<1>1. request.body = SubSeq(text, BlankLine + 2, Len(text))
  BY DEF RequestInv
<1> QED
  BY <1>1 DEF SentBody, Malformed, Element

\* No two lines have the same name, in whatever case.
Single == \A i, j \in DOMAIN Meaning :
              LowerCase(Meaning[i].key) = LowerCase(Meaning[j].key) => i = j

\* The type of the body is found whatever headers are in front of it.
LEMMA TypeFound ==
    ASSUME header \in Seq(STRING), Closed(header), headers.items = Meaning, Single
    PROVE  /\ (\E i \in DOMAIN Meaning : /\ LowerCase(Meaning[i].key) = LowerCase(ContentType)
                                         /\ LowerCase(Meaning[i].val) = Json) => RunContentType
           /\ ExactJson => ExactContentType
<1>1. PICK N \in Nat : N = LineCount /\ DOMAIN Lines = 1..N
  BY LinesFacts
<1>2. DOMAIN Meaning = 1..N /\ Len(Meaning) = N
  <2>1. DOMAIN Meaning = 1..N
    BY <1>1 DEF Meaning
  <2>2. Meaning \in [1..N -> Range(Meaning)]
    BY <2>1 DEF Meaning, Range
  <2>3. Len(Meaning) = N
    BY <2>2, FunctionType
  <2> QED
    BY <2>1, <2>3
<1>3. ASSUME NEW i \in 1..N, LowerCase(Meaning[i].key) = LowerCase(ContentType),
             LowerCase(Meaning[i].val) = Json
      PROVE  RunContentType
  <2> DEFINE I == {k \in 1..Len(headers.items) :
                      LowerCase(headers.items[k].key) = LowerCase(ContentType)}
  <2>1. SelectInSeq(headers.items, LAMBDA h : LowerCase(h.key) = LowerCase(ContentType))
        = IF I # {} THEN Min(I) ELSE 0
    BY DEF SelectInSeq, SelectInSubSeq
  <2>2. I = {k \in 1..N : LowerCase(Meaning[k].key) = LowerCase(ContentType)}
    BY <1>2
  <2>3. i \in I /\ I \in SUBSET Nat /\ \A k \in I : k = i
    BY <1>2, <1>3, <2>2 DEF Single
  <2> HIDE DEF I
  <2>4. Min(I) = i
    BY <2>3, MinFacts
  <2>5. SelectInSeq(headers.items, LAMBDA h : LowerCase(h.key) = LowerCase(ContentType)) = i
    BY <2>1, <2>3, <2>4
  <2>6. i # 0
    OBVIOUS
  <2> QED
    BY <1>3, <2>5, <2>6 DEF RunContentType
<1>4. ASSUME NEW i \in 1..N, Meaning[i] = [key |-> ContentType, val |-> Json]
      PROVE  ExactContentType
  <2> DEFINE I == {k \in 1..Len(headers.items) : headers.items[k].key = ContentType}
  <2>1. find_header(ContentType) = IF I # {} THEN Min(I) ELSE 0
    BY DEF find_header, SelectInSeq, SelectInSubSeq
  <2>2. I = {k \in 1..N : Meaning[k].key = ContentType}
    BY <1>2
  <2>a. Meaning[i].key = ContentType /\ Meaning[i].val = Json
    BY <1>4
  <2>3. i \in I /\ I \in SUBSET Nat /\ \A k \in I : k = i
    BY <1>2, <2>a, <2>2 DEF Single
  <2> HIDE DEF I
  <2>4. Min(I) = i
    BY <2>3, MinFacts
  <2>5. find_header(ContentType) = i /\ i # 0
    BY <2>1, <2>3, <2>4
  <2> QED
    BY <2>5, <2>a DEF ExactContentType
<1> QED
  BY <1>2, <1>3, <1>4 DEF ExactJson

\* What a complete request has met so far: its callback, which refuses nothing,
\* and if it is answered the answer, or what ended the server.
Behind == {"execute", "compile", "pass input"}
RunServed ==
    /\ stage \in HandlerStages => callback = "run"
    /\ stage = "answered" => response.status \in {200, 500}
    /\ stage = "fault" => fault \in {"assert pass_input", "service"}
CallServed(name) ==
    /\ stage \notin Behind
    /\ stage = "called" => callback = name
    /\ stage = "answered" => response.status = 200
    /\ stage = "fault" => fault = "service"
ProgramServed ==
    /\ stage \notin Behind
    /\ stage = "called" => callback = "program"
    /\ stage = "answered" =>
          response.status \in {200, 204} \/ response.body = <<"Invalid parameter: pid">>
    /\ stage = "fault" => fault = "service"
ServedInv ==
    Complete => /\ CompleteRun => RunServed
                /\ CompleteStop => CallServed("stop")
                /\ CompleteInput => CallServed("input")
                /\ CompleteProgram => ProgramServed

\* What the callbacks ask for is there.
IsRouted(method, name) ==
    /\ request.method = method
    /\ find_route(request.path, request.method) # 0
    /\ Routes[find_route(request.path, request.method)].callback = name
RunFinds ==
    /\ IsRouted("POST", "run") /\ RunContentType /\ ~Malformed
    /\ Has("language") /\ Parameter("language") \in {<<"c">>, <<"cpp">>}
    /\ Has("compiler_type") /\ Parameter("compiler_type") \in {<<"gcc">>, <<"clang">>}
    /\ Element("source_code") /\ Element("stdin")
StopFinds == IsRouted("POST", "stop") /\ ExactContentType /\ Has("pid")
InputFinds == IsRouted("POST", "input") /\ ExactContentType /\ Has("pid") /\ Element("stdin")
ProgramFinds == IsRouted("GET", "program") /\ Has("pid")
FoundInv ==
    Complete /\ stage \in Taken =>
        /\ CompleteRun => RunFinds
        /\ CompleteStop => StopFinds
        /\ CompleteInput => InputFinds
        /\ CompleteProgram => ProgramFinds

\* A callback finds all that a complete request has sent.
LEMMA CompleteFound ==
    ASSUME HandlersInv, FormInv, QueryInv, HeaderInv, MeaningInv, RequestInv
    PROVE  FoundInv
<1> SUFFICES ASSUME Complete, stage \in Taken
             PROVE  /\ CompleteRun => RunFinds
                    /\ CompleteStop => StopFinds
                    /\ CompleteInput => InputFinds
                    /\ CompleteProgram => ProgramFinds
  BY DEF FoundInv
<1>1. WellFormed /\ CleanHeader /\ CleanQuery /\ Cardinality(Starts) <= MaxParameters
      /\ Single
  BY DEF Complete, Single
<1>2. stage # "start" /\ stage \notin {"start", "NULL", "answered"}
  BY DEF Taken, HandlerStages
<1>3. text \in Seq(STRING) /\ "NUL" \notin Range(text)
  BY RequestAssumption DEF HeaderInv
<1>4. header \in Seq(STRING) /\ Closed(header)
  <2>1. HasLines
    BY <1>1 DEF CleanHeader, HasLines
  <2> QED
    BY <1>2, <2>1, HeaderClosed
<1>5. params = Kept(QueryCount)
  <2>1. Cardinality(Starts) = QueryCount
    BY <1>1, <1>3, ListFacts
  <2>2. params = IF QueryCount <= MaxParameters THEN Kept(QueryCount) ELSE NoParameters
    BY <1>1 DEF QueryInv
  <2>3. QueryCount <= MaxParameters
    BY <1>1, <2>1
  <2> QED
    BY <2>2, <2>3
<1>6. headers.items = Meaning
  BY <1>1 DEF MeaningInv
<1>7. ASSUME NEW name, NEW values, Sent(name, values)
      PROVE  Has(name) /\ \E v \in values : Parameter(name) = <<v>>
  BY <1>1, <1>3, <1>5, <1>7, SentFound
<1>8. ASSUME NEW name, SentBody(name) PROVE ~Malformed /\ Element(name)
  BY <1>1, <1>2, <1>8, BodyFoundIn
<1>9. ASSUME NEW method \in Methods, NEW name, Calls(method, {name}),
             \A i \in DOMAIN Routes : Routes[i].callback = name => Routes[i].method = method
      PROVE  IsRouted(method, name)
  <2>1. \A i \in DOMAIN Routes : Routes[i].callback \in {name} => Routes[i].method = method
    BY <1>9
  <2>2. /\ request.method = method
        /\ find_route(request.path, request.method) # 0
        /\ Routes[find_route(request.path, request.method)].callback \in {name}
    BY <1>1, <1>2, <1>3, <1>9, <2>1, CallRouted
  <2> QED
    BY <2>2 DEF IsRouted
<1>10. /\ "POST" \in Methods /\ "GET" \in Methods
       /\ \A i \in DOMAIN Routes : /\ Routes[i].callback = "run" => Routes[i].method = "POST"
                                   /\ Routes[i].callback = "stop" => Routes[i].method = "POST"
                                   /\ Routes[i].callback = "input" => Routes[i].method = "POST"
                                   /\ Routes[i].callback = "program" => Routes[i].method = "GET"
  BY DEF Methods, Routes
<1>11. ASSUME CompleteRun PROVE RunFinds
  <2>1. IsRouted("POST", "run")
    BY <1>9, <1>10, <1>11 DEF CompleteRun
  <2>2. RunContentType
    BY <1>1, <1>4, <1>6, <1>11, TypeFound DEF CompleteRun
  <2>3. Sent("language", {"c", "cpp"}) /\ Sent("compiler_type", {"gcc", "clang"})
    BY <1>11 DEF CompleteRun
  <2>4. Has("language") /\ \E v \in {"c", "cpp"} : Parameter("language") = <<v>>
    BY <1>7, <2>3
  <2>5. Has("compiler_type") /\ \E v \in {"gcc", "clang"} : Parameter("compiler_type") = <<v>>
    BY <1>7, <2>3
  <2>6. ~Malformed /\ Element("source_code") /\ Element("stdin")
    BY <1>8, <1>11 DEF CompleteRun
  <2>7. Parameter("language") \in {<<"c">>, <<"cpp">>}
    BY <2>4
  <2>8. Parameter("compiler_type") \in {<<"gcc">>, <<"clang">>}
    BY <2>5
  <2> QED
    BY <2>1, <2>2, <2>4, <2>5, <2>6, <2>7, <2>8, Zenon DEF RunFinds
<1>12. ASSUME ExactJson PROVE ExactContentType
  BY <1>1, <1>4, <1>6, <1>12, TypeFound
<1>13. ASSUME Sent("pid", Numbers) PROVE Has("pid")
  BY <1>7, <1>13
<1>14. CompleteRun => RunFinds
  BY <1>11
<1>15. CompleteStop => StopFinds
  BY <1>9, <1>10, <1>12, <1>13 DEF CompleteStop, StopFinds
<1>16. CompleteInput => InputFinds
  BY <1>8, <1>9, <1>10, <1>12, <1>13 DEF CompleteInput, InputFinds
<1>17. CompleteProgram => ProgramFinds
  BY <1>9, <1>10, <1>13 DEF CompleteProgram, ProgramFinds
<1> QED
  BY <1>14, <1>15, <1>16, <1>17

\* What was sent stays as it is.
LEMMA SentStays ==
    ASSUME text' = text, header' = header
    PROVE  /\ Complete' = Complete /\ CompleteRun' = CompleteRun /\ CompleteStop' = CompleteStop
           /\ CompleteInput' = CompleteInput /\ CompleteProgram' = CompleteProgram
<1>1. /\ EndOfLine' = EndOfLine /\ StartLine' = StartLine /\ Blank1' = Blank1 /\ Blank2' = Blank2
      /\ BlankLine' = BlankLine
  BY DEF EndOfLine, StartLine, Blank1, Blank2, BlankLine
<1>2. Target' = Target /\ QueryText' = QueryText
  BY <1>1 DEF Target, QueryText
<1>3. Starts' = Starts /\ PathText' = PathText
  BY <1>2 DEF Starts, PathText
<1>4. CleanHeader' = CleanHeader /\ Meaning' = Meaning
  BY HeaderStays
<1>5. WellFormed' = WellFormed /\ CleanQuery' = CleanQuery
  BY TextStays
<1>6. Complete' = Complete
  BY <1>3, <1>4, <1>5 DEF Complete
<1>7. \A name, values : Sent(name, values)' = Sent(name, values)
  BY <1>2, <1>3 DEF Sent
<1>8. \A method, names : Calls(method, names)' = Calls(method, names)
  BY <1>1, <1>3 DEF Calls
<1>9. \A name : SentBody(name)' = SentBody(name)
  BY <1>1 DEF SentBody
<1>10. ExactJson' = ExactJson
  BY <1>4 DEF ExactJson
<1> QED
  BY <1>4, <1>6, <1>7, <1>8, <1>9, <1>10, Zenon
  DEF CompleteRun, CompleteStop, CompleteInput, CompleteProgram

\* A call that is routed is neither a preflight nor a file.
LEMMA RoutedSteps ==
    ASSUME HandlerStep, stage = "parsed", NEW method, NEW name, method # "OPTIONS",
           IsRouted(method, name)
    PROVE  stage' = "called" /\ callback' = name
<1>1. request.method # "OPTIONS" /\ find_route(request.path, request.method) # 0
  BY DEF IsRouted
<1>2. Call
  BY <1>1 DEF HandlerStep, AnswerNull, AnswerOptions, AnswerStatic, Validate, CreateFile, Compile,
     PassInput, StopCallback, InputCallback, ProgramCallback
<1>3. stage' = "called"
  BY <1>2 DEF Call, Goto
<1>4. callback' = Routes[find_route(request.path, request.method)].callback
  BY <1>2 DEF Call
<1> QED
  BY <1>3, <1>4 DEF IsRouted

\* After an answer nothing is left to do.
LEMMA AnswerEnds ==
    ASSUME NEW status, NEW hs, NEW body, Answer(status, hs, body)
    PROVE  /\ stage' = "answered" /\ stage' \notin HandlerStages \cup {"fault"}
           /\ response'.status = status /\ response'.body = body
  BY DEF Answer, Goto, HandlerStages

\* Nor after a stop.
LEMMA StopEnds ==
    ASSUME NEW what, Stop(what)
    PROVE  stage' = "fault" /\ stage' \notin HandlerStages \cup {"answered"} /\ fault' = what
  BY DEF Stop, Goto, HandlerStages

\* A complete run is not refused, and its program gets its input.
LEMMA RunSteps ==
    ASSUME HandlerStep, RunFinds, RunServed, stage \in Taken
    PROVE  RunServed'
<1>1. CASE stage = "parsed"
  <2>1. stage' = "called" /\ callback' = "run"
    BY <1>1, RoutedSteps DEF RunFinds
  <2> QED
    BY <2>1 DEF RunServed
<1>2. CASE stage = "called"
  <2>1. callback = "run"
    BY <1>2 DEF RunServed, HandlerStages
  <2>2. Validate
    BY <1>2, <2>1 DEF HandlerStep, AnswerNull, AnswerOptions, AnswerStatic, Call, CreateFile,
       Compile, PassInput, StopCallback, InputCallback, ProgramCallback
  <2>3. Refusal = "none"
    BY DEF RunFinds, Refusal
  <2>4. Goto("execute") /\ callback' = callback
    <3>1. Element("source_code")
      BY DEF RunFinds
    <3> HIDE DEF Refusal
    <3> QED
      BY <2>2, <2>3, <3>1 DEF Validate
  <2>5. stage' = "execute" /\ callback' = "run"
    BY <2>1, <2>4 DEF Goto
  <2> QED
    BY <2>5 DEF RunServed
<1>3. CASE stage = "execute"
  <2>1. CreateFile
    BY <1>3 DEF HandlerStep, AnswerNull, AnswerOptions, AnswerStatic, Call, Validate,
       Compile, PassInput, StopCallback, InputCallback, ProgramCallback
  <2>2. Parameter("language") \in {<<"c">>, <<"cpp">>}
    BY DEF RunFinds
  <2>3. \/ Answer(500, JsonCors, <<"Failed to create source code file">>)
        \/ Answer(500, JsonCors, <<"Failed to write source code to file">>)
        \/ Goto("compile") /\ callback' = callback
    BY <2>1, <2>2 DEF CreateFile
  <2>4. CASE \/ Answer(500, JsonCors, <<"Failed to create source code file">>)
             \/ Answer(500, JsonCors, <<"Failed to write source code to file">>)
    <3>1. \E body : Answer(500, JsonCors, body)
      BY <2>4, Zenon
    <3>2. stage' = "answered" /\ stage' \notin HandlerStages /\ response'.status = 500
      BY <3>1, AnswerEnds
    <3> QED
      BY <3>2 DEF RunServed
  <2>5. CASE Goto("compile") /\ callback' = callback
    <3>1. callback = "run"
      BY <1>3 DEF RunServed, HandlerStages
    <3>2. stage' = "compile" /\ callback' = "run"
      BY <2>5, <3>1 DEF Goto
    <3> QED
      BY <3>2 DEF RunServed
  <2> QED
    BY <2>3, <2>4, <2>5
<1>4. CASE stage = "compile"
  <2>1. Compile
    BY <1>4 DEF HandlerStep, AnswerNull, AnswerOptions, AnswerStatic, Call, Validate,
       CreateFile, PassInput, StopCallback, InputCallback, ProgramCallback
  <2>2. Parameter("compiler_type") \in {<<"gcc">>, <<"clang">>}
    BY DEF RunFinds
  <2>3. \/ Answer(500, JsonCors, <<"Failed to build and run program">>)
        \/ Goto("pass input") /\ callback' = callback
        \/ Stop("service")
    BY <2>1, <2>2 DEF Compile
  <2>4. CASE Answer(500, JsonCors, <<"Failed to build and run program">>)
    <3>1. \E body : Answer(500, JsonCors, body)
      BY <2>4, Zenon
    <3>2. stage' = "answered" /\ stage' \notin HandlerStages /\ response'.status = 500
      BY <3>1, AnswerEnds
    <3> QED
      BY <3>2 DEF RunServed
  <2>5. CASE Goto("pass input") /\ callback' = callback
    <3>1. callback = "run"
      BY <1>4 DEF RunServed, HandlerStages
    <3>2. stage' = "pass input" /\ callback' = "run"
      BY <2>5, <3>1 DEF Goto
    <3> QED
      BY <3>2 DEF RunServed
  <2>6. CASE Stop("service")
    <3>1. stage' = "fault" /\ stage' \notin HandlerStages /\ fault' = "service"
      BY <2>6, StopEnds
    <3> QED
      BY <3>1 DEF RunServed
  <2> QED
    BY <2>3, <2>4, <2>5, <2>6
<1>5. CASE stage = "pass input"
  <2>1. PassInput
    BY <1>5 DEF HandlerStep, AnswerNull, AnswerOptions, AnswerStatic, Call, Validate,
       CreateFile, Compile, StopCallback, InputCallback, ProgramCallback
  <2>2. Element("stdin")
    BY DEF RunFinds
  <2>3. Answer(200, JsonCors, <<"pid">>) \/ Stop("assert pass_input") \/ Stop("service")
    BY <2>1, <2>2 DEF PassInput
  <2>4. CASE Answer(200, JsonCors, <<"pid">>)
    <3>1. stage' = "answered" /\ stage' \notin HandlerStages /\ response'.status = 200
      BY <2>4, AnswerEnds
    <3> QED
      BY <3>1 DEF RunServed
  <2>5. CASE Stop("assert pass_input") \/ Stop("service")
    <3>1. /\ stage' = "fault" /\ stage' \notin HandlerStages
          /\ fault' = "assert pass_input" \/ fault' = "service"
      BY <2>5, StopEnds
    <3> QED
      BY <3>1 DEF RunServed
  <2> QED
    BY <2>3, <2>4, <2>5
<1> QED
  BY <1>1, <1>2, <1>3, <1>4, <1>5 DEF Taken, HandlerStages
\* A complete call is not refused.
LEMMA CallSteps ==
    ASSUME HandlerStep, stage \in Taken, NEW name \in {"stop", "input"},
           IsRouted("POST", name), ExactContentType, Has("pid"),
           name = "input" => Element("stdin"), CallServed(name)
    PROVE  CallServed(name)'
<1>1. CASE stage = "parsed"
  <2>1. stage' = "called" /\ callback' = name
    BY <1>1, RoutedSteps
  <2> QED
    BY <2>1 DEF CallServed, Behind
<1>2. CASE stage = "called"
  <2>1. callback = name
    BY <1>2 DEF CallServed
  <2>2. (StopCallback /\ name = "stop") \/ (InputCallback /\ name = "input")
    BY <1>2, <2>1 DEF HandlerStep, AnswerNull, AnswerOptions, AnswerStatic, Call, CreateFile,
       Compile, PassInput, Validate, StopCallback, InputCallback, ProgramCallback
  <2>3. Answer(200, JsonCors, <<"pid", atoi(Parameter("pid"))>>) \/ Stop("service")
    BY <2>2 DEF StopCallback, InputCallback
  <2>4. \/ stage' = "answered" /\ response'.status = 200
        \/ stage' = "fault" /\ fault' = "service"
    BY <2>3, AnswerEnds, StopEnds
  <2> QED
    BY <2>4 DEF CallServed, Behind
<1> QED
  BY <1>1, <1>2 DEF Taken, HandlerStages, CallServed, Behind

\* A complete question for output is not refused.
LEMMA ProgramSteps ==
    ASSUME HandlerStep, stage \in Taken, ProgramFinds, ProgramServed
    PROVE  ProgramServed'
<1>1. CASE stage = "parsed"
  <2>1. stage' = "called" /\ callback' = "program"
    BY <1>1, RoutedSteps DEF ProgramFinds
  <2> QED
    BY <2>1 DEF ProgramServed, Behind
<1>2. CASE stage = "called"
  <2>1. callback = "program"
    BY <1>2 DEF ProgramServed
  <2>2. ProgramCallback /\ Has("pid")
    BY <1>2, <2>1 DEF HandlerStep, AnswerNull, AnswerOptions, AnswerStatic, Call, CreateFile,
       Compile, PassInput, Validate, StopCallback, InputCallback, ProgramCallback, ProgramFinds
  <2>3. \/ \E body : Answer(200, JsonCors, body)
        \/ Answer(204, JsonCors, <<>>)
        \/ Answer(400, JsonCors, <<"Invalid parameter: pid">>)
        \/ Stop("service")
    BY <2>2, Zenon DEF ProgramCallback
  <2>4. \/ /\ stage' = "answered"
           /\ \/ response'.status \in {200, 204}
              \/ response'.body = <<"Invalid parameter: pid">>
        \/ stage' = "fault" /\ fault' = "service"
    <3>1. CASE \E body : Answer(200, JsonCors, body)
      BY <3>1, AnswerEnds
    <3>2. CASE Answer(204, JsonCors, <<>>)
      <4>1. stage' = "answered" /\ response'.status = 204
        BY <3>2, AnswerEnds, Zenon
      <4> QED
        BY <4>1
    <3>3. CASE Answer(400, JsonCors, <<"Invalid parameter: pid">>)
      <4>1. PICK body : body = <<"Invalid parameter: pid">>
        OBVIOUS
      <4>2. Answer(400, JsonCors, body)
        BY <3>3, <4>1, Zenon
      <4>3. stage' = "answered" /\ response'.body = body
        BY <4>2, AnswerEnds
      <4> QED
        BY <4>1, <4>3
    <3>4. CASE Stop("service")
      BY <3>4, StopEnds
    <3> QED
      BY <2>3, <3>1, <3>2, <3>3, <3>4
  <2> QED
    BY <2>4 DEF ProgramServed, Behind
<1> QED
  BY <1>1, <1>2 DEF Taken, HandlerStages, ProgramServed, Behind

\* What the start line said is not changed any more.
LEMMA RequestKeeps ==
    ASSUME ParserInv, FormInv, RequestInv, [HandlersNext]_vars
    PROVE  RequestInv'
<1>1. ASSUME text' = text
      PROVE  /\ WellFormed' = WellFormed /\ CleanQuery' = CleanQuery
             /\ StartLine' = StartLine /\ Blank1' = Blank1 /\ Target' = Target /\ Mark' = Mark
             /\ BlankLine' = BlankLine
  <2>1. WellFormed' = WellFormed /\ CleanQuery' = CleanQuery
    BY <1>1, TextStays
  <2>2. /\ EndOfLine' = EndOfLine /\ StartLine' = StartLine /\ Blank1' = Blank1
        /\ Blank2' = Blank2 /\ BlankLine' = BlankLine
    BY <1>1 DEF EndOfLine, StartLine, Blank1, Blank2, BlankLine
  <2>3. Target' = Target /\ Mark' = Mark
    BY <2>2 DEF Target, Mark
  <2> QED
    BY <2>1, <2>2, <2>3
<1>2. CASE ParseStartLine
  <2>1. text' = text
    BY <1>2, Zenon DEF ParseStartLine
  <2>2. CleanQuery =>
          /\ request'.method = parse_http_method(SubSeq(StartLine, 1, Blank1 - 1))
          /\ request'.path = SubSeq(Target, 1, Mark - 1)
          /\ request'.body = SubSeq(text, BlankLine + 2, Len(text))
    BY <1>2, StartLineParsed DEF ParserInv, CleanQuery
  <2> QED
    BY <1>1, <2>1, <2>2 DEF RequestInv
<1>3. CASE RefuseStartLine
  <2>1. text' = text /\ ~WellFormed
    BY <1>3 DEF RefuseStartLine, lines
  <2> QED
    BY <1>1, <2>1 DEF RequestInv
<1>4. CASE ~ParseStartLine /\ ~RefuseStartLine
  <2>1. text' = text /\ request' = request /\ (stage' # "start" => stage # "start")
    <3>1. CASE ParserStep
      <4>1. ParseHeaderKey \/ ParseHeaderValue \/ EndHeaders \/ InsertParameter \/ EndQuery
        BY <1>4, <3>1 DEF ParserStep
      <4> QED
        BY <4>1 DEF ParseHeaderKey, ParseHeaderValue, EndHeaders, InsertParameter, EndQuery, lines
    <3>2. CASE HandlerStep
      <4>1. UNCHANGED lines /\ stage \in Taken \cup {"NULL"}
        BY <3>2, HandlerStageSteps
      <4> QED
        BY <4>1 DEF lines, Taken, HandlerStages
    <3>3. CASE UNCHANGED vars
      BY <3>3 DEF vars, requestVars, lines
    <3> QED
      BY <3>1, <3>2, <3>3 DEF HandlersNext
  <2> QED
    BY <1>1, <2>1 DEF RequestInv
<1> QED
  BY <1>2, <1>3, <1>4

\* Nothing is owed while a request is parsed.
LEMMA NothingOwed ==
    ASSUME stage \notin HandlerStages \cup {"answered", "fault"}
    PROVE  ServedInv
<1>1. RunServed /\ ProgramServed /\ CallServed("stop") /\ CallServed("input")
  BY DEF RunServed, ProgramServed, CallServed, HandlerStages, Behind
<1> QED
  BY <1>1 DEF ServedInv

\* Every step keeps what is owed to a complete request.
LEMMA ServedKeeps ==
    ASSUME FormInv, FoundInv, ServedInv, [HandlersNext]_vars
    PROVE  ServedInv'
<1>1. CASE ParserStep
  <2>1. stage' \in {"headers", "NULL", "value", "query", "outside", "parsed"}
    BY <1>1, ParserStages
  <2>2. stage' \notin HandlerStages \cup {"answered", "fault"}
    BY <2>1 DEF HandlerStages
  <2>3. RunServed' /\ ProgramServed' /\ CallServed("stop")' /\ CallServed("input")'
    BY <2>2 DEF RunServed, ProgramServed, CallServed, HandlerStages, Behind
  <2> QED
    BY <2>3 DEF ServedInv
<1>2. CASE HandlerStep
  <2>1. text' = text /\ header' = header /\ stage \in Taken \cup {"NULL"}
    BY <1>2, HandlerStageSteps DEF lines
  <2>2. /\ Complete' = Complete /\ CompleteRun' = CompleteRun /\ CompleteStop' = CompleteStop
        /\ CompleteInput' = CompleteInput /\ CompleteProgram' = CompleteProgram
    BY <2>1, SentStays
  <2>3. Complete => stage \in Taken
    BY <2>1 DEF Complete, FormInv
  <2>4. Complete /\ CompleteRun => RunServed'
    BY <1>2, <2>3, RunSteps DEF FoundInv, ServedInv
  <2>5. Complete /\ CompleteStop => CallServed("stop")'
    BY <1>2, <2>3, CallSteps DEF FoundInv, ServedInv, StopFinds
  <2>6. Complete /\ CompleteInput => CallServed("input")'
    BY <1>2, <2>3, CallSteps DEF FoundInv, ServedInv, InputFinds
  <2>7. Complete /\ CompleteProgram => ProgramServed'
    BY <1>2, <2>3, ProgramSteps DEF FoundInv, ServedInv
  <2> QED
    BY <2>2, <2>4, <2>5, <2>6, <2>7 DEF ServedInv
<1>3. CASE UNCHANGED vars
  <2>1. /\ text' = text /\ header' = header /\ stage' = stage /\ callback' = callback
        /\ fault' = fault /\ response' = response
    BY <1>3 DEF vars, requestVars, lines, handlerVars
  <2>2. /\ Complete' = Complete /\ CompleteRun' = CompleteRun /\ CompleteStop' = CompleteStop
        /\ CompleteInput' = CompleteInput /\ CompleteProgram' = CompleteProgram
    BY <2>1, SentStays
  <2>3. /\ RunServed' = RunServed /\ ProgramServed' = ProgramServed
        /\ CallServed("stop")' = CallServed("stop") /\ CallServed("input")' = CallServed("input")
    BY <2>1 DEF RunServed, ProgramServed, CallServed
  <2> QED
    BY <2>2, <2>3 DEF ServedInv
<1> QED
  BY <1>1, <1>2, <1>3 DEF HandlersNext

\* At each stage a complete request has met nothing that refuses it.
THEOREM ServedInvariance ==
    HandlersSpec => [](RequestInv /\ ServedInv)
<1>1. HandlersInit => RequestInv /\ ServedInv
  <2> SUFFICES ASSUME HandlersInit PROVE RequestInv /\ ServedInv
    OBVIOUS
  <2>1. stage = "start"
    BY DEF HandlersInit, Init
  <2>2. stage \notin HandlerStages \cup {"answered", "fault"}
    BY <2>1 DEF HandlerStages
  <2> QED
    BY <2>1, <2>2, NothingOwed DEF RequestInv
<1>2. HandlersInv /\ (FormInv /\ QueryInv) /\ (HeaderInv /\ LineInv /\ MeaningInv)
      /\ (RequestInv /\ ServedInv) /\ [HandlersNext]_vars
      => (RequestInv /\ ServedInv)'
  BY CompleteFound, RequestKeeps, ServedKeeps DEF HandlersInv
<1> QED
  BY <1>1, <1>2, HandlersInvariance, QueryInvariance, LinesInvariance, PTL DEF HandlersSpec

\* A request that has everything the API asks for is answered with 200, unless
\* the operation it asks for says otherwise itself or ends the server.
THEOREM CompleteServed ==
    HandlersSpec => []CompleteAnswered
<1>1. HandlersInv /\ (FormInv /\ QueryInv) /\ (HeaderInv /\ LineInv /\ MeaningInv)
      /\ (RequestInv /\ ServedInv) => CompleteAnswered
  <2> SUFFICES ASSUME HandlersInv, FormInv, MeaningInv, ServedInv,
                      stage \in Final \cup {"NULL"}, Complete
               PROVE  /\ CompleteRun =>
                            \/ stage = "answered" /\ Seen.reason \in {"OK", "Internal Server Error"}
                            \/ fault \in {"assert pass_input", "service"}
                      /\ CompleteStop \/ CompleteInput =>
                            \/ stage = "answered" /\ Seen.reason = "OK"
                            \/ fault = "service"
                      /\ CompleteProgram =>
                            \/ /\ stage = "answered"
                               /\ \/ Seen.reason \in {"OK", "No Content"}
                                  \/ Seen.body = <<"Invalid parameter: pid">>
                            \/ fault = "service"
    BY DEF CompleteAnswered
  <2>1. WellFormed /\ CleanHeader
    BY DEF Complete
  <2>2. stage \in {"answered", "fault"}
    BY <2>1 DEF Final, FormInv, MeaningInv
  <2>3. stage = "answered" => /\ Seen.reason = http_status_code_stringify(response.status)
                              /\ Seen.body = response.body
    BY SeenFacts DEF HandlersInv
  <2>4. /\ stage = "answered" /\ response.status = 200 => Seen.reason = "OK"
        /\ stage = "answered" /\ response.status = 204 => Seen.reason = "No Content"
        /\ stage = "answered" /\ response.status = 500 => Seen.reason = "Internal Server Error"
    <3>1. /\ http_status_code_stringify(200) = "OK"
          /\ http_status_code_stringify(204) = "No Content"
          /\ http_status_code_stringify(500) = "Internal Server Error"
      BY DEF http_status_code_stringify
    <3>2. ASSUME NEW code, stage = "answered", response.status = code
          PROVE  Seen.reason = http_status_code_stringify(code)
      BY <2>3, <3>2, Zenon
    <3>3. PICK a, b, c : a = 200 /\ b = 204 /\ c = 500
      BY Zenon
    <3>4. /\ http_status_code_stringify(a) = "OK"
          /\ http_status_code_stringify(b) = "No Content"
          /\ http_status_code_stringify(c) = "Internal Server Error"
      BY <3>1, <3>3, Zenon
    <3>5. stage = "answered" /\ response.status = a => Seen.reason = "OK"
      BY <3>2, <3>4, Zenon
    <3>6. stage = "answered" /\ response.status = b => Seen.reason = "No Content"
      BY <3>2, <3>4, Zenon
    <3>7. stage = "answered" /\ response.status = c => Seen.reason = "Internal Server Error"
      BY <3>2, <3>4, Zenon
    <3> QED
      BY <3>3, <3>5, <3>6, <3>7, Zenon
  <2>5. ASSUME CompleteRun
        PROVE  \/ stage = "answered" /\ Seen.reason \in {"OK", "Internal Server Error"}
               \/ fault \in {"assert pass_input", "service"}
    <3>1. RunServed
      BY <2>5 DEF ServedInv
    <3>2. /\ stage = "answered" => response.status = 200 \/ response.status = 500
          /\ stage = "fault" => fault \in {"assert pass_input", "service"}
      BY <3>1 DEF RunServed
    <3> QED
      BY <2>2, <2>4, <3>2, Zenon
  <2>6. ASSUME CompleteStop \/ CompleteInput
        PROVE  (stage = "answered" /\ Seen.reason = "OK") \/ fault = "service"
    <3>1. CallServed("stop") \/ CallServed("input")
      BY <2>6 DEF ServedInv
    <3>2. /\ stage = "fault" => fault = "service"
          /\ stage = "answered" => response.status = 200
      BY <3>1 DEF CallServed
    <3> QED
      BY <2>2, <2>4, <3>2, Zenon
  <2>7. ASSUME CompleteProgram
        PROVE  \/ /\ stage = "answered"
                  /\ \/ Seen.reason \in {"OK", "No Content"}
                     \/ Seen.body = <<"Invalid parameter: pid">>
               \/ fault = "service"
    <3>1. ProgramServed
      BY <2>7 DEF ServedInv
    <3>2. /\ stage = "fault" => fault = "service"
          /\ stage = "answered" => \/ response.status = 200 \/ response.status = 204
                                   \/ response.body = <<"Invalid parameter: pid">>
      BY <3>1 DEF ProgramServed
    <3> QED
      BY <2>2, <2>3, <2>4, <3>2, Zenon
  <2> QED
    BY <2>5, <2>6, <2>7
<1> QED
  BY <1>1, HandlersInvariance, QueryInvariance, LinesInvariance, ServedInvariance, PTL
=============================================================================
