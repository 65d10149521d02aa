---------------------------- MODULE HttpRequest -----------------------------
(***************************************************************************)
(* parse_http_request of src/http.c: the start line, then one header line, *)
(* then one query parameter per step.  A text is a sequence of tokens as   *)
(* in Utility; CRLF is one of them, so is every sign that the parser looks *)
(* for.  parse_http_header is followed character by character, since what  *)
(* it does to a line that is not as it expects depends on the next one.    *)
(***************************************************************************)
EXTENDS Utility

CONSTANTS Requests,             \* bound: texts to parse
          HeaderCapacity,       \* 8 (http.c:301)
          MaxParameters         \* 10

\* "NUL" is the zero that ends a text, and so in none.
ASSUME RequestAssumption ==
    /\ Requests \subseteq Seq(STRING) /\ \A t \in Requests : "NUL" \notin Range(t)
    /\ {HeaderCapacity, MaxParameters} \subseteq Nat \ {0}

VARIABLES text,                 \* what the buffer of the handler holds
          stage,                \* where parse_http_request is
          request,              \* method, version, path and body
          header,               \* header lines, each with its CRLF
          pos,                  \* offset in header
          key,                  \* key of the line that is being parsed
          headers,              \* the list made of them
          query,                \* text behind the question mark, cut at &
          params                \* the list made of it

lines == <<text, request, header, query>>
requestVars == <<lines, stage, pos, key, headers, params>>

At(s, i) == IF i \in DOMAIN s THEN s[i] ELSE "NUL"
First(S) == IF S = {} THEN 0 ELSE Min(S)
Trimmed(s, first, last) == SubSeq(s, first, LastNonSpace(s, first, last))

Methods == {"GET", "POST", "PUT", "DELETE", "OPTIONS"}
Versions == {"HTTP/1.0", "HTTP/1.1", "HTTP/2.0", "HTTP/3.0"}
Known(S, s) == IF Len(s) = 1 /\ s[1] \in S THEN s[1] ELSE "UNKNOWN"
parse_http_method(s) == Known(Methods, s)
parse_http_version(s) == Known(Versions, s)

-----------------------------------------------------------------------------
(* parse_http_header.  "Outside": memory in front of or behind the header  *)
(* lines is used, or a null pointer.                                       *)

Failed == [stat |-> "NULL"]
Outside == [stat |-> "outside"]

NoKey == [stat |-> "none", string |-> <<>>, next |-> 0]

\* The key of the line of h that begins at p and ends at e; k is where the key
\* begins.  next, where its value is looked for, does not count the blanks
\* in front of the key (http.c:183).
ParseKey(h, p, k, e) ==
    LET \* inside of quotes: the first character, and the colon behind a quote
        l == find_non_space(h, k + 1)
        last(i) == LastNonSpace(h, l, i - 1)
        ends == IF h[k] = Quote
                THEN {i \in l + 1 .. Len(h) : i = e \/ (h[i] = ":" /\ h[last(i)] = Quote)}
                ELSE {i \in k .. Len(h) : i = e \/ h[i] = ":"}
        j == First(ends)
        string == IF h[k] = Quote THEN SubSeq(h, k + 1, last(j) - 1) ELSE Trimmed(h, k, j - 1)
    IN  IF k = 0 \/ (h[k] = Quote /\ l = 0) \/ j \in {0, k} THEN Outside
        ELSE IF j = e THEN Failed
        ELSE [stat |-> "key", string |-> string, next |-> p + (j - k) + 1]

\* A value ends at the end of the line, which is passed if the value is empty.
ParseValue(h, v, e) ==
    LET l == find_non_space(h, v + 1)
        last == LastNonSpace(h, l, e - 1)
        val == IF h[v] = Quote THEN SubSeq(h, v + 1, last - 1) ELSE Trimmed(h, v, e - 1)
    IN  IF v = 0 \/ (IF h[v] = Quote THEN l = 0 \/ l > e ELSE v > e) THEN Outside
        ELSE IF h[v] = Quote /\ h[last] # Quote THEN Failed
        ELSE [stat |-> "value", val |-> val]

http_headers_stringify(items) ==
    FlattenSeq([i \in DOMAIN items |->
        items[i].key \o <<":", " ">> \o items[i].val \o <<"CRLF">>])

-----------------------------------------------------------------------------
NoParameters == <<>>

Init ==
    /\ text \in Requests
    /\ stage = "start"
    /\ request = [method |-> "UNKNOWN", version |-> "UNKNOWN", path |-> <<>>, body |-> <<>>]
    /\ header = <<>> /\ pos = 1 /\ key = NoKey /\ headers = EmptyList(HeaderCapacity)
    /\ query = <<>> /\ params = NoParameters

\* The blanks that end method and target, and the CRLF of the start line.
EndOfLine == Find(text, 1, "CRLF")
StartLine == SubSeq(text, 1, EndOfLine - 1)
Blank1 == Find(StartLine, 1, " ")
Blank2 == Find(StartLine, Blank1 + 1, " ")
\* Where the empty line begins that ends the headers.
BlankLine == First({i \in EndOfLine + 1 .. Len(text) - 1 :
                       text[i] = "CRLF" /\ text[i + 1] = "CRLF"})

WellFormed == EndOfLine # 0 /\ Blank1 # 0 /\ Blank2 # 0 /\ BlankLine # 0

\* The question mark is searched behind the first character of the target, and
\* so in the version, which was parsed before, if the target is empty.
ParseStartLine ==
    /\ stage = "start" /\ WellFormed
    /\ \E from \in {Blank1 + 1}, end \in {Blank2}, line \in {StartLine}, blank \in {BlankLine} :
        LET to == IF end = from THEN Len(line) ELSE end - 1
        IN  \E mark \in {SelectInSubSeq(line, from + 1, to, LAMBDA c : c = "?")} :
            /\ request' = [method |-> parse_http_method(SubSeq(line, 1, from - 2)),
                           version |-> parse_http_version(SubSeq(line, end + 1, Len(line))),
                           path |-> SubSeq(line, from,
                                       (IF mark # 0 /\ mark < end THEN mark ELSE end) - 1),
                           body |-> SubSeq(text, blank + 2, Len(text))]
            /\ query' = IF mark = 0 THEN <<>> ELSE Runs(SubSeq(line, mark + 1, to), "&")
    /\ header' = SubSeq(text, EndOfLine + 1, BlankLine)
    /\ stage' = "headers"
    /\ UNCHANGED <<text, pos, key, headers, params>>

\* NULL for the caller, which answers with 500.
RefuseStartLine ==
    /\ stage = "start" /\ ~WellFormed
    /\ stage' = "NULL"
    /\ UNCHANGED <<lines, pos, key, headers, params>>

\* One turn of the loop of parse_http_headers is a key and a value.
LineEnd == Find(header, pos, "CRLF")
ParseFailure(r) ==
    /\ stage' = IF r = Outside THEN "outside" ELSE "query"
    /\ headers' = IF r = Outside THEN headers ELSE Destructed
    /\ UNCHANGED <<pos, key>>

ParseHeaderKey ==
    /\ stage = "headers" /\ At(header, pos) \notin {"NUL", "CRLF"}
    /\ \E k \in {find_non_space(header, pos)}, e \in {LineEnd} :
       \E r \in {ParseKey(header, pos, k, e)} :
          IF r.stat = "key" THEN stage' = "value" /\ key' = r /\ UNCHANGED <<pos, headers>>
          ELSE ParseFailure(r)
    /\ UNCHANGED <<lines, params>>

\* Mutant: the value is looked for from the colon on.
ParseHeaderValueLate ==
    /\ stage = "value"
    /\ \E v \in {find_non_space(header, key.next - 1)}, e \in {LineEnd} :
       \E r \in {ParseValue(header, v, e)} :
          IF r.stat = "value"
          THEN /\ stage' = "headers"
               /\ headers' = Push(headers, [key |-> key.string, val |-> r.val])
               /\ pos' = e + 1 /\ key' = NoKey
          ELSE ParseFailure(r)
    /\ UNCHANGED <<lines, params>>

ParseHeaderValue ==
    /\ stage = "value"
    /\ \E v \in {find_non_space(header, key.next)}, e \in {LineEnd} :
       \E r \in {ParseValue(header, v, e)} :
          IF r.stat = "value"
          THEN /\ stage' = "headers"
               /\ headers' = Push(headers, [key |-> key.string, val |-> r.val])
               /\ pos' = e + 1 /\ key' = NoKey
          ELSE ParseFailure(r)
    /\ UNCHANGED <<lines, params>>

\* The header lines end with CRLF, so that the loop ends behind the last one,
\* or at once if an empty line follows the start line.
EndHeaders ==
    /\ stage = "headers" /\ At(header, pos) \in {"NUL", "CRLF"}
    /\ stage' = "query"
    /\ UNCHANGED <<lines, pos, key, headers, params>>

-----------------------------------------------------------------------------
(* parse_query_parameters: one call of insert_query_parameter per step.    *)

\* Mutant: nothing is dropped if a parameter cannot be inserted.
InsertParameterKeeping ==
    /\ stage = "query" /\ query # <<>>
    /\ LET pair == Runs(Head(query), "=")
           fits == Len(pair) >= 2 /\ Len(params) < MaxParameters
       IN  /\ stage' = IF fits /\ Len(query) > 1 THEN "query" ELSE "parsed"
           /\ params' = IF fits THEN Append(params, [key |-> pair[1], val |-> pair[2]]) ELSE params
           /\ query' = Tail(query)
    /\ UNCHANGED <<text, request, header, pos, key, headers>>

InsertParameter ==
    /\ stage = "query" /\ query # <<>>
    /\ LET pair == Runs(Head(query), "=")
           fits == Len(pair) >= 2 /\ Len(params) < MaxParameters
       IN  /\ stage' = IF fits /\ Len(query) > 1 THEN "query" ELSE "parsed"
           /\ params' = IF fits THEN Append(params, [key |-> pair[1], val |-> pair[2]])
                        ELSE NoParameters
           /\ query' = Tail(query)
    /\ UNCHANGED <<text, request, header, pos, key, headers>>

EndQuery ==
    /\ stage = "query" /\ query = <<>>
    /\ stage' = "parsed"
    /\ UNCHANGED <<lines, pos, key, headers, params>>

ParserStep ==
    \/ ParseStartLine \/ RefuseStartLine
    \/ ParseHeaderKey \/ ParseHeaderValue \/ EndHeaders
    \/ InsertParameter \/ EndQuery

Parsing == {"start", "headers", "value", "query"}

-----------------------------------------------------------------------------
(* What the properties compare with: lines as they should be, and what     *)
(* they mean.                                                              *)

Lines == Runs(header, "CRLF")
NameOf(l) == SubSeq(l, 1, Find(l, 1, ":") - 1)
ValueOf(l) == LET v == SubSeq(l, Find(l, 1, ":") + 1, Len(l)) IN Trimmed(v, find_non_space(v, 1), Len(v))
\* A name without blanks and quotes, a value that does not begin with a quote.
CleanLine(l) ==
    /\ Find(l, 1, ":") > 1
    /\ \A i \in DOMAIN NameOf(l) : NameOf(l)[i] \notin White \cup {Quote}
    /\ \E i \in Find(l, 1, ":") + 1 .. Len(l) : l[i] \notin White
    /\ ValueOf(l)[1] # Quote
CleanHeader == header # <<>> /\ header[1] # "CRLF" /\ \A i \in DOMAIN Lines : CleanLine(Lines[i])
Meaning == [i \in DOMAIN Lines |-> [key |-> NameOf(Lines[i]), val |-> ValueOf(Lines[i])]]

(* Header lines that are as RFC 9110 wants them (a value is not empty and  *)
(* not quoted) are never read outside, and all of them arrive, in order,   *)
(* without the blanks around their values.  Of whatever lines a client     *)
(* sends, no part is lost: there is an item for each of them, or none at   *)
(* all and no capacity, which says that parsing failed (http.h:142).       *)
HeadersKeptOrDropped ==
    /\ CleanHeader =>
          /\ stage # "outside"
          /\ stage \in {"headers", "value"} => IsPrefix(headers.items, Meaning)
          /\ stage \in {"query", "parsed"} => headers.items = Meaning
    /\ stage \in {"query", "parsed"} /\ At(header, 1) # "CRLF" =>
          Len(headers.items) = Len(Lines) \/ headers = Destructed

\* The target behind its first question mark that is not its first character.
\* The API takes of it what ampersands delimit, and of that what has something
\* on both sides of an equals sign.
Target == SubSeq(StartLine, Blank1 + 1, Blank2 - 1)
HasQuery == \E i \in 2 .. Len(Target) : Target[i] = "?"
QueryText == SubSeq(Target, First({i \in 2 .. Len(Target) : Target[i] = "?"}) + 1, Len(Target))
Parameters == Runs(QueryText, "&")
Valued(p) == \E a, b, c \in DOMAIN p : /\ a < b /\ b < c
                                       /\ p[a] # "=" /\ p[b] = "=" /\ p[c] # "="

\* A parameter begins behind each of Starts and ends in front of the next one, or
\* with the target: it is a name, one equals sign and a value.
Starts == {0} \cup {i \in DOMAIN QueryText : QueryText[i] = "&"}
CleanQuery ==
    /\ HasQuery
    /\ \A i \in Starts, j \in Starts \cup {Len(QueryText) + 1} :
          i < j /\ (\A m \in i + 1 .. j - 1 : QueryText[m] # "&") =>
             \E k \in i + 2 .. j - 2 : {m \in i + 1 .. j - 1 : QueryText[m] = "="} = {k}
Joined(ps) == FlattenSeq([i \in DOMAIN ps |->
    (IF i > 1 THEN <<"&">> ELSE <<>>) \o ps[i].key \o <<"=">> \o ps[i].val])

(* Whatever the query, it leaves all of its parameters or none: all if     *)
(* they fit and each has a name and a value, none if there are more or one *)
(* is not such a pair.  A query that is nothing but names and values is    *)
(* taken apart without a loss: joined again it is the text that was sent.  *)
QueryKeptOrDropped ==
    /\ stage = "parsed" /\ HasQuery =>
          Len(params) = IF /\ Len(Parameters) <= MaxParameters
                           /\ \A i \in DOMAIN Parameters : Valued(Parameters[i])
                        THEN Len(Parameters) ELSE 0
    /\ stage = "parsed" /\ CleanQuery =>
          IF Cardinality(Starts) <= MaxParameters THEN Joined(params) = QueryText
          ELSE params = NoParameters
=============================================================================
