---------------------------- MODULE JsonDocument ----------------------------
(***************************************************************************)
(* src/json.c.  An object is built with the calls of Containers, turned    *)
(* into text, by json_object_stringify or by a client that puts blanks     *)
(* between the tokens, and read again: the whole of it, or as much of it   *)
(* as the first read of a request returned (runner.c:124).  parse_json     *)
(* also reads texts that nobody made from an object.                       *)
(*                                                                         *)
(* Strings are sequences of characters; those of a kind that the code does *)
(* not tell apart are one.  A step of the parser is one turn of its loop.  *)
(***************************************************************************)
EXTENDS Containers

CONSTANTS Paddings,             \* what a client may put around a token
          Texts                 \* bound: texts made from no object

\* What an escape gives that stands for no character, or is read behind the text.
Invalid == "invalid escape"
Beyond == "escape behind the text"
Characters == STRING \ {Invalid, Beyond}

ASSUME JsonAssumption ==
    /\ Paddings \subseteq Seq(Characters) /\ Texts \subseteq Seq(Characters)
    /\ "json" \in Kinds =>
          /\ Keys["json"] \subseteq Seq(Characters)
          /\ \A val \in Values["json"] : val.text \in Seq(Characters)

VARIABLES text,                 \* the argument of parse_json
          source,               \* how it came about: whole, cut, given
          pos,                  \* offset
          name,                 \* key of the element that is being parsed
          parsed,               \* json_object_ret
          place                 \* where the parser is, and in the end its result

parserVars == <<text, source, pos, name, parsed, place>>
jsonVars == <<containerVars, parserVars>>

\* "outside": a null pointer or memory outside of the text is used.  The text is
\* everything up to the terminating zero, which may be read as well.
Parsing == {"element", "colon", "value", "after"}
Results == {"object", "NULL", "outside", "assert"}
Strings == {"string"}           \* value types that are written in quotes

Escape == [c \in {Quote, Backslash, "/", "LF"} |-> IF c = "LF" THEN "n" ELSE c]
Unescape == [c \in Range(Escape) |-> CHOOSE d \in DOMAIN Escape : Escape[d] = c]
Hex == {"0", "a"}
At(s, i) == IF i \in DOMAIN s THEN s[i] ELSE "NUL"

\* What JSON calls a number has no blanks, and nothing that ends a value.
Plain(s) == s # <<>> /\ \A i \in 1..Len(s) : s[i] \notin White \cup {",", "}", Quote, "NUL"}

\* What the program and its clients write: strings and numbers, with white space
\* between the tokens.
WellWritten ==
    /\ \A pad \in Paddings : Range(pad) \subseteq White
    /\ "json" \in Kinds =>
          \A val \in Values["json"] :
              /\ val = [type |-> val.type, text |-> val.text]
              /\ val.type \notin Strings => val.type = "number" /\ Plain(val.text)

-----------------------------------------------------------------------------
(* json_object_stringify: a pass that counts, and one that writes.         *)

\* Mutant: quotes and backslashes are written as they are.
EncodedPlain(s) == s
Encoded(s) ==
    FlattenSeq([i \in DOMAIN s |->
        IF s[i] \in DOMAIN Escape THEN <<Backslash, Escape[s[i]]>> ELSE <<s[i]>>])

Quoted(s) == <<Quote>> \o Encoded(s) \o <<Quote>>
ValueText(val) == IF val.type \in Strings THEN Quoted(val.text) ELSE val.text
ElementText(e, pad) ==
    pad \o Quoted(e.key) \o pad \o <<":">> \o pad \o ValueText(e.val) \o pad
Rendered(items, pad) ==
    LET comma(i) == IF i < Len(items) THEN <<",">> ELSE <<>>
    IN  <<"{">> \o FlattenSeq([i \in DOMAIN items |-> ElementText(items[i], pad) \o comma(i)])
                \o <<"}">>
json_object_stringify(items) == Rendered(items, <<>>)

Escapes(s) == Cardinality({i \in DOMAIN s : s[i] \in DOMAIN Escape})

\* Mutant: a value is counted without its escapes.
StringifiedLengthShort(items) ==
    LET length(e) == Len(e.key) + Escapes(e.key) + 3 + Len(e.val.text)
                     + IF e.val.type \in Strings THEN 2 ELSE 0
    IN  FoldFunction(+, 0, [i \in DOMAIN items |-> length(items[i])]) + 1 + Len(items)
StringifiedLength(items) ==
    LET length(e) == Len(e.key) + Escapes(e.key) + 3 + Len(e.val.text)
                     + IF e.val.type \in Strings THEN 2 + Escapes(e.val.text) ELSE 0
    IN  FoldFunction(+, 0, [i \in DOMAIN items |-> length(items[i])]) + 1 + Len(items)

-----------------------------------------------------------------------------
(* parse_string_token for the text from p on, and the values that are not  *)
(* strings.  next is the position behind what was read, 0 for failure.     *)

Failed == [next |-> 0]
Outside == [next |-> 0, what |-> "outside"]

\* A quote ends a string if there is no backslash in front of it.
ClosingQuote(s, p) ==
    LET ends == {j \in p + 1 .. Len(s) : s[j] = Quote /\ s[j - 1] # Backslash}
    IN  IF ends = {} THEN 0 ELSE Min(ends)

\* Behind \u the code looks at four characters, whatever they are: near the end
\* of the text that is behind its terminating zero (json.c:88).
Hexed(s, i) ==
    IF \A k \in i + 2 .. i + 5 : At(s, k) \in Hex THEN " "
    ELSE IF i + 5 > Len(s) + 1 THEN Beyond
    ELSE Invalid

\* What stands for Beyond is the last thing decoded: the quote is one of the four.
parse_string_token(s, p) ==
    LET q == ClosingQuote(s, p)
        decoded[i \in p .. q + 6] ==
            IF i >= q THEN <<>>
            ELSE IF s[i] # Backslash THEN <<s[i]>> \o decoded[i + 1]
            ELSE IF s[i + 1] = "u" THEN <<Hexed(s, i)>> \o decoded[i + 6]
            ELSE <<IF s[i + 1] \in DOMAIN Unescape THEN Unescape[s[i + 1]] ELSE Invalid>>
                 \o decoded[i + 2]
    IN  IF q = 0 \/ s[p] # Quote \/ Contains(decoded[p + 1], Invalid) THEN Failed
        ELSE IF Contains(decoded[p + 1], Beyond) THEN Outside
        ELSE [next |-> q + 1, string |-> decoded[p + 1]]

\* Mutant: a brace does not end a value.
ParseOtherNoBrace(s, c, v) ==
    LET end == SelectInSubSeq(s, v, Len(s), LAMBDA d : d = ",")
        e == IF end = 0 THEN Len(s) + 1 ELSE end
        last == LastNonSpace(s, c, e - 1)
    IN  IF last < v - 1 THEN Outside
        ELSE [next |-> e, string |-> SubSeq(s, v, last)]

\* Everything but a string: up to the next comma or brace, whatever it is.
\* An empty value behind a blank has a negative length.
ParseOther(s, c, v) ==
    LET end == SelectInSubSeq(s, v, Len(s), LAMBDA d : d \in {",", "}"})
        e == IF end = 0 THEN Len(s) + 1 ELSE end
        last == LastNonSpace(s, c, e - 1)
    IN  IF last < v - 1 THEN Outside
        ELSE [next |-> e, string |-> SubSeq(s, v, last)]

-----------------------------------------------------------------------------
JsonInit ==
    /\ ContainerInit
    /\ text = <<>>
    /\ source = "none"
    /\ pos = 1
    /\ name = <<>>
    /\ parsed = EmptyList(InitialCapacity)
    /\ place = "building"

Build == place = "building" /\ ContainerNext /\ UNCHANGED parserVars

\* The first test of parse_json comes before the object is made.
Receive(t, how) ==
    /\ text' = t
    /\ source' = how
    /\ pos' = 2
    /\ place' = IF At(t, 1) = "{" THEN "element" ELSE "NULL"
    /\ UNCHANGED <<containerVars, name, parsed>>

\* The assertion compares the two passes.
Stringify ==
    /\ kind = "json" /\ place = "building" /\ list.capacity # 0
    /\ LET s == json_object_stringify(list.items)
       IN  IF StringifiedLength(list.items) = Len(s) THEN Receive(s, "whole")
           ELSE place' = "assert" /\ UNCHANGED <<containerVars, text, source, pos, name, parsed>>

\* A body that a client wrote by hand, or that arrives in more than one piece.
\* What has arrived is taken to end with a zero, as it does where nothing was
\* written before; what is left of an earlier request is RequestHandler's matter.
ReceiveBody(pad) ==
    /\ kind = "json" /\ place = "building" /\ list.capacity # 0
    /\ \E s \in {Rendered(list.items, pad)} : \E length \in 0 .. Len(s) :
           Receive(SubSeq(s, 1, length), IF length = Len(s) THEN "whole" ELSE "cut")

ReceiveText ==
    /\ kind = "json" /\ place = "building" /\ made = 0
    /\ \E t \in Texts : Receive(t, "given")

-----------------------------------------------------------------------------
(* The loop of parse_json, and in it parse_json_element, from one token to *)
(* the next.  f is the next token, 0 if there is none.                     *)

Here == find_non_space(text, pos)
Go(where, next) == place' = where /\ pos' = next /\ UNCHANGED <<containerVars, text, source>>
Return(result) == Go(result, pos) /\ UNCHANGED <<name, parsed>>
\* What was parsed is destructed, the object freed.
Fail == Go("NULL", pos) /\ parsed' = Destructed /\ UNCHANGED name

\* The text may end here, with or without a brace.
ParseName ==
    /\ place = "element"
    /\ \E f \in {Here} :
        \/ (pos > Len(text) \/ At(text, f) = "}") /\ Return("object")
        \/ pos <= Len(text) /\ At(text, f) \notin {"}", Quote} /\ Fail
        \/ /\ At(text, f) = Quote
           /\ \E t \in {parse_string_token(text, f)} :
                CASE t = Failed  -> Fail
                  [] t = Outside -> Return("outside")
                  [] OTHER -> Go("colon", t.next) /\ name' = t.string /\ UNCHANGED parsed

ParseColon ==
    /\ place = "colon"
    /\ \E f \in {Here} :
        IF At(text, f) = ":" THEN Go("value", f + 1) /\ UNCHANGED <<name, parsed>> ELSE Fail

\* There is no test for a name that is in the object already.
PushElement(next, type, string) ==
    /\ Go("after", next)
    /\ parsed' = Push(parsed, [key |-> name, val |-> [type |-> type, text |-> string]])
    /\ UNCHANGED name

ParseValue ==
    /\ place = "value"
    /\ \E f \in {Here} :
        \/ f = 0 /\ Return("outside")
        \/ /\ At(text, f) = Quote
           /\ \E t \in {parse_string_token(text, f)} :
                CASE t = Failed  -> Fail
                  [] t = Outside -> Return("outside")
                  [] OTHER -> PushElement(t.next, "string", t.string)
        \/ /\ At(text, f) \notin {"NUL", Quote}
           /\ \E t \in {ParseOther(text, pos - 1, f)} :
                IF t = Outside THEN Return("outside") ELSE PushElement(t.next, "number", t.string)

\* Mutant: the end of the text is taken for the end of the object.
ParseAfterLenient ==
    /\ place = "after"
    /\ \E f \in {Here} :
        \/ f = 0 /\ Return("object")
        \/ At(text, f) = "}" /\ Return("object")
        \/ At(text, f) = "," /\ Go("element", f + 1) /\ UNCHANGED <<name, parsed>>
        \/ f # 0 /\ At(text, f) \notin {"}", ","} /\ Fail
ParseAfter ==
    /\ place = "after"
    /\ \E f \in {Here} :
        \/ f = 0 /\ Return("outside")
        \/ At(text, f) = "}" /\ Return("object")
        \/ At(text, f) = "," /\ Go("element", f + 1) /\ UNCHANGED <<name, parsed>>
        \/ f # 0 /\ At(text, f) \notin {"}", ","} /\ Fail

ParseStep == ParseName \/ ParseColon \/ ParseValue \/ ParseAfter

JsonNext ==
    \/ Build
    \/ Stringify
    \/ \E pad \in Paddings : ReceiveBody(pad)
    \/ ReceiveText
    \/ ParseStep

JsonSpec == JsonInit /\ [][JsonNext]_jsonVars

-----------------------------------------------------------------------------
JsonTypeOK ==
    /\ ContainerTypeOK
    /\ place \in {"building"} \cup Parsing \cup Results
    /\ source \in {"none", "whole", "cut", "given"}
    /\ pos \in 1 .. Len(text) + 2
    /\ Fits(parsed)

Clean(s) == s = <<>> \/ Last(s) # Backslash
CleanItems ==
    \A i \in Items : Clean(list.items[i].key)
                    /\ (list.items[i].val.type \in Strings => Clean(list.items[i].val.text))
Original == [i \in Items |-> [key |-> list.items[i].key, val |-> list.items[i].val]]

(* What was turned into text is read back as it was, with every quote,     *)
(* backslash and line feed, whatever blanks a client puts between the      *)
(* tokens, unless a string ends in a backslash: json.c:51 then takes its   *)
(* closing quote for an escaped one.                                       *)
RoundTrip ==
    source = "whole" /\ CleanItems =>
        /\ place \in Parsing \cup {"object"}
        /\ place = "object" => parsed.items = Original

(* A body of which only the beginning has arrived is refused, reads        *)
(* outside, or gives the first elements it has: a name or value that was   *)
(* cut never passes for a whole one.                                       *)
CutGivesPrefix ==
    source \in {"whole", "cut"} /\ CleanItems /\ place \in {"element", "object"} =>
        IsPrefix(parsed.items, Original)

(* The length that is allocated is the length that is written, but for the *)
(* object without elements, which has one byte less than it needs          *)
(* (json.c:385, 495).                                                      *)
AssertOnlyWhenEmpty == place = "assert" => list.items = <<>>

(* The parser leaves its text in three cases only: that does not end with  *)
(* a brace, a value is missing behind a colon and a blank (json.c:174,     *)
(* 256), or less than three characters follow a \u (json.c:88).            *)
OutsideOnlyWhenUnclosed ==
    place = "outside" =>
        \/ text = <<>> \/ Last(text) # "}"
        \/ \E i \in 1 .. Len(text) - 2 :
               text[i] = ":" /\ text[i + 1] \in White /\
               At(text, find_non_space(text, i + 1)) \in {",", "}"}
        \/ \E i \in 1 .. Len(text) - 1 :
               text[i] = Backslash /\ text[i + 1] = "u" /\ Len(text) - (i + 1) < 3

(* json.h:102 says that parse_json returns NULL if it fails in any         *)
(* situation.  But where the text ends behind an element it goes on with   *)
(* the null pointer that find_non_space returned (json.c:256), and behind  *)
(* a \u at the end of a string it reads on behind the text.                *)
FailureIsNull == place # "outside"
=============================================================================
