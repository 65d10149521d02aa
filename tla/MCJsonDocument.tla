--------------------------- MODULE MCJsonDocument ---------------------------
(* Instances of JsonDocument, and with it of Containers.                   *)
EXTENDS JsonDocument

MCKeys == [headers |-> {<<"Host">>, <<"host">>, <<"Accept">>},
           routes |-> {<<"/", "a">>, <<"/", "a", "/">>, <<"/", "a", "/", "/">>, <<"/">>, <<"a">>, <<>>},
           query |-> {<<"pid">>, <<"language">>},
           json |-> {<<"a">>, <<"b">>, <<Quote>>, <<"a", Backslash>>},
           array |-> {<<"a">>}]

JsonValues == [type : Strings, text : {<<>>, <<"LF", Backslash, ",">>}]
              \cup {[type |-> "number", text |-> <<"0", "0">>]}
MCValues == [k \in DOMAIN MCKeys |->
    CASE k = "json" -> JsonValues
      [] k = "routes" -> {"GET", "POST"}
      [] OTHER -> {"1", "2"}]

MCFold == [k \in MCKeys.headers |-> IF k = <<"Host">> THEN <<"host">> ELSE k]

\* No blanks, or one around every token.
MCPaddings == {<<>>, <<" ">>}

\* Every text of up to five characters behind the first brace, and escapes.
Escaped == {<<"{", Quote, Backslash>> \o t \o <<Quote, ":", "0", "}">> :
               t \in SeqOf({"u", "0", Quote, Backslash}, 5)}
MCTexts == {<<"{">> \o t : t \in SeqOf({"}", ":", ",", Quote, Backslash, " ", "a"}, 5)}
           \cup Escaped \cup {<<>>, <<" ", "{", "}">>}

\* What the theorems about texts that are read back assume.
ASSUME MCWellWritten == WellWritten
=============================================================================
