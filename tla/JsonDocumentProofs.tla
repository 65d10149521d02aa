------------------------- MODULE JsonDocumentProofs -------------------------
(***************************************************************************)
(* Proofs about JsonDocument: where the parser may be in its text, for     *)
(* every text of any length, whether it was made from an object, cut off   *)
(* or sent by anybody, and what it has built when it fails; and that an    *)
(* object of any size that was turned into text is read back as it was,    *)
(* as far as its text has arrived.                                         *)
(***************************************************************************)
EXTENDS JsonDocument, ContainersProofs

-----------------------------------------------------------------------------
(* Texts *)

\* The provers do not know that a string that is written down is one of STRING.
Chars == Characters \cup {Quote, Backslash, "/", "n", "{", "}", ",", ":"}
Text == Seq(Chars)

\* No character is what stands for none.
LEMMA NoSuchCharacter == Invalid \notin Chars /\ Beyond \notin Chars
  BY DEF Chars, Characters, Invalid, Beyond, Quote, Backslash

\* A text has a length.
LEMMA Lengths ==
    ASSUME NEW s \in Text
    PROVE  Len(s) \in Nat /\ DOMAIN s = 1..Len(s) /\ s \in Seq(Chars)
<1> HIDE DEF Chars
<1> QED
  BY DEF Text

\* Behind the first character and at most one behind the last.
LEMMA WithinText ==
    ASSUME NEW n \in Nat, NEW p \in 2 .. n + 1
    PROVE  p \in 1 .. n + 2 /\ p \in Nat /\ 2 <= p /\ p <= n + 1 /\ p # 0
  OBVIOUS

\* What the constants are made of is text.
LEMMA StringsAreText == ASSUME NEW s \in Seq(Characters) PROVE s \in Text
<1>1. Len(s) \in Nat /\ DOMAIN s = 1..Len(s) /\ s = [i \in 1..Len(s) |-> s[i]]
  OBVIOUS
<1>2. ASSUME NEW i \in 1..Len(s) PROVE s[i] \in Chars
  <2>1. s[i] \in Characters
    <3> HIDE DEF Characters
    <3> QED
      OBVIOUS
  <2> QED
    BY <2>1, Zenon DEF Chars
<1>3. s \in [1..Len(s) -> Chars]
  BY <1>1, <1>2
<1> QED
  BY <1>1, <1>3 DEF Text

\* And so is a sign alone, or nothing.
LEMMA SignsAreText ==
    /\ <<>> \in Text /\ <<Quote>> \in Text /\ <<"{">> \in Text /\ <<"}">> \in Text
    /\ <<",">> \in Text /\ <<":">> \in Text
<1>1. \A c \in Chars : <<c>> \in Text
  BY DEF Text
<1>2. {Quote, "{", "}", ",", ":"} \subseteq Chars /\ <<>> \in Text
  BY DEF Chars, Text
<1> HIDE DEF Text, Chars
<1> QED
  BY <1>1, <1>2

\* Texts put together.
LEMMA JoinedText == ASSUME NEW s \in Text, NEW t \in Text PROVE s \o t \in Text
  BY DEF Text

-----------------------------------------------------------------------------
(* Lengths *)

\* Both passes count a text with one character more for each that is escaped.
LEMMA EncodedLength ==
    ASSUME NEW s \in Text
    PROVE  Escapes(s) \in Nat /\ Encoded(s) \in Text /\ Len(Encoded(s)) = Len(s) + Escapes(s)
<1> DEFINE piece(i) == IF s[i] \in DOMAIN Escape THEN <<Backslash, Escape[s[i]]>> ELSE <<s[i]>>
           pieces == [i \in DOMAIN s |-> piece(i)]
           upto(k) == {i \in 1..k : s[i] \in DOMAIN Escape}
           len == [k \in 0..Len(s) |-> k + Cardinality(upto(k))]
<1>1. Backslash \in Chars /\ \A c \in DOMAIN Escape : Escape[c] \in Chars
  BY DEF Escape, Chars
<1>2. DOMAIN s = 1..Len(s) /\ Len(s) \in Nat /\ \A i \in 1..Len(s) : s[i] \in Chars
  BY DEF Text
<1>3. \A i \in 1..Len(s) : piece(i) \in Text
  <2> HIDE DEF Chars
  <2> QED
    BY <1>1, <1>2 DEF Text
<1>4. pieces \in Seq(Text) /\ Len(pieces) = Len(s) /\ \A i \in 1..Len(s) : pieces[i] = piece(i)
  <2> HIDE DEF piece
  <2>1. pieces \in [1..Len(s) -> Text]
    BY <1>2, <1>3
  <2>2. \A i \in 1..Len(s) : pieces[i] = piece(i)
    BY <1>2
  <2> HIDE DEF pieces
  <2> QED
    BY <1>2, <2>1, <2>2
<1>5. Encoded(s) = FlattenSeq(pieces)
  BY DEF Encoded
<1>6. Encoded(s) \in Text
  <2> HIDE DEF pieces
  <2> QED
    BY <1>4, <1>5, FlattenType DEF Text
<1>7. ASSUME NEW k \in Nat PROVE IsFiniteSet(upto(k)) /\ Cardinality(upto(k)) \in Nat
  <2>1. IsFiniteSet(1..k) /\ upto(k) \subseteq 1..k
    BY FS_Interval
  <2> HIDE DEF upto
  <2> QED
    BY <2>1, FS_Subset, FS_CardinalityType
<1>8. len[0] = 0 /\ len[Len(s)] = Len(s) + Escapes(s) /\ Escapes(s) \in Nat
  <2>1. upto(0) = {}
    OBVIOUS
  <2>2. Cardinality(upto(0)) = 0
    <3> HIDE DEF upto
    <3> QED
      BY <2>1, FS_EmptySet
  <2>3. Escapes(s) = Cardinality(upto(Len(s)))
    BY <1>2 DEF Escapes
  <2> HIDE DEF upto
  <2> QED
    BY <1>2, <1>7, <2>2, <2>3
<1>9. ASSUME NEW k \in 1..Len(s)
      PROVE  len[k - 1] \in Nat /\ len[k] = len[k - 1] + Len(pieces[k])
  <2>1. k \in Nat /\ k - 1 \in Nat /\ k \in 0..Len(s) /\ k - 1 \in 0..Len(s)
    BY <1>2
  <2>2. Len(piece(k)) = IF s[k] \in DOMAIN Escape THEN 2 ELSE 1
    OBVIOUS
  <2>3. upto(k) = IF s[k] \in DOMAIN Escape THEN upto(k - 1) \cup {k} ELSE upto(k - 1)
    BY <2>1
  <2>4. k \notin upto(k - 1)
    BY <2>1
  <2> HIDE DEF upto, piece
  <2>a. IsFiniteSet(upto(k - 1)) /\ Cardinality(upto(k - 1)) \in Nat
    BY <1>7, <2>1
  <2>b. Cardinality(upto(k - 1) \cup {k}) = Cardinality(upto(k - 1)) + 1
    BY <2>4, <2>a, FS_AddElement
  <2>5. Cardinality(upto(k)) = Cardinality(upto(k - 1))
                               + IF s[k] \in DOMAIN Escape THEN 1 ELSE 0
    <3>1. CASE s[k] \in DOMAIN Escape
      BY <2>b, <2>3, <3>1
    <3>2. CASE s[k] \notin DOMAIN Escape
      BY <2>a, <2>3, <3>2
    <3> QED
      BY <3>1, <3>2
  <2>6. len[k] = k + Cardinality(upto(k)) /\ len[k - 1] = k - 1 + Cardinality(upto(k - 1))
    BY <2>1
  <2>7. pieces[k] = piece(k)
    BY <1>4
  <2> HIDE DEF len, pieces
  <2> QED
    <3>1. PICK c \in Nat : c = Cardinality(upto(k - 1))
      BY <2>a
    <3>2. len[k - 1] = k - 1 + c
      BY <2>6, <3>1
    <3>3. CASE s[k] \in DOMAIN Escape
      <4>1. len[k] = k + (c + 1) /\ Len(pieces[k]) = 2
        BY <2>2, <2>5, <2>6, <2>7, <3>1, <3>3
      <4> QED
        BY <2>1, <3>1, <3>2, <4>1
    <3>4. CASE s[k] \notin DOMAIN Escape
      <4>1. len[k] = k + (c + 0) /\ Len(pieces[k]) = 1
        BY <2>2, <2>5, <2>6, <2>7, <3>1, <3>4
      <4> QED
        BY <2>1, <3>1, <3>2, <4>1
    <3> QED
      BY <3>3, <3>4
<1> HIDE DEF pieces, len
<1> QED
  BY <1>4, <1>5, <1>6, <1>8, <1>9, FlattenLength DEF Text

\* A text in quotes is longer by the quotes.
LEMMA QuotedType ==
    ASSUME NEW s \in Text
    PROVE  /\ Quoted(s) \in Text
           /\ Escapes(s) \in Nat /\ Len(Quoted(s)) = Len(s) + Escapes(s) + 2
<1>1. \A t, u \in Text : t \o u \in Text /\ Len(t \o u) = Len(t) + Len(u) /\ Len(t) \in Nat
  <2> HIDE DEF Chars
  <2> QED
    BY DEF Text
<1>2. <<Quote>> \in Text /\ Len(<<Quote>>) = 1
  BY SignsAreText
<1>3. Encoded(s) \in Text /\ Len(Encoded(s)) = Len(s) + Escapes(s) /\ Escapes(s) \in Nat
  BY EncodedLength
<1>4. <<Quote>> \o Encoded(s) \in Text /\ Len(<<Quote>> \o Encoded(s)) = 1 + Len(Encoded(s))
  BY <1>1, <1>2, <1>3
<1>5. /\ (<<Quote>> \o Encoded(s)) \o <<Quote>> \in Text
      /\ Len((<<Quote>> \o Encoded(s)) \o <<Quote>>) = Len(<<Quote>> \o Encoded(s)) + 1
  BY <1>1, <1>2, <1>4
<1>6. Len(s) \in Nat
  BY <1>1
<1> QED
  BY <1>3, <1>4, <1>5, <1>6 DEF Quoted

\* So is an object that is written down.
LEMMA RenderedType ==
    ASSUME ContainerTypeOK, kind = "json", NEW pad \in Text
    PROVE  Rendered(list.items, pad) \in Text
<1> DEFINE items == list.items
           comma(i) == IF i < Len(items) THEN <<",">> ELSE <<>>
           pieces == [i \in DOMAIN items |-> ElementText(items[i], pad) \o comma(i)]
<1>1. /\ items \in Seq(Record) /\ Len(items) \in Nat
      /\ \A i \in 1..Len(items) : items[i] \in Record
  BY Parts DEF Items
<1>2. ASSUME NEW i \in 1..Len(items)
      PROVE  ElementText(items[i], pad) \o comma(i) \in Text
  <2>1. items[i].key \in Text /\ items[i].val.text \in Text
    BY <1>1, StringsAreText, ContainersAssumption, JsonAssumption DEF Record, ContainerTypeOK
  <2> HIDE DEF items
  <2>2. Quoted(items[i].key) \in Text /\ ValueText(items[i].val) \in Text
    BY <2>1, QuotedType DEF ValueText
  <2>3. comma(i) \in Text /\ <<":">> \in Text
    BY SignsAreText
  <2> HIDE DEF comma
  <2> DEFINE a == pad \o Quoted(items[i].key) \o pad
             b == a \o <<":">> \o pad
             c == b \o ValueText(items[i].val) \o pad
  <2>4. a \in Text
    BY <2>2, JoinedText
  <2>5. b \in Text
    <3> HIDE DEF a
    <3> QED
      BY <2>3, <2>4, JoinedText
  <2>6. c \in Text
    <3> HIDE DEF b
    <3> QED
      BY <2>2, <2>5, JoinedText
  <2>7. ElementText(items[i], pad) = c
    BY DEF ElementText
  <2> HIDE DEF c
  <2> QED
    BY <2>3, <2>6, <2>7, JoinedText
<1>3. pieces \in Seq(Text)
  <2> HIDE DEF comma
  <2>1. DOMAIN items = 1..Len(items)
    BY <1>1
  <2>2. pieces \in [1..Len(items) -> Text]
    BY <1>2, <2>1
  <2> HIDE DEF pieces
  <2> QED
    BY <1>1, <2>2
<1>4. FlattenSeq(pieces) \in Text
  <2> HIDE DEF pieces
  <2> QED
    BY <1>3, FlattenType DEF Text
<1>5. Rendered(items, pad) = <<"{">> \o FlattenSeq(pieces) \o <<"}">>
  BY DEF Rendered
<1>6. <<"{">> \in Text /\ <<"}">> \in Text
  BY SignsAreText
<1> HIDE DEF pieces
<1> QED
  BY <1>4, <1>5, <1>6, JoinedText

\* What json_object_stringify counts for an element: names and values with their
\* escapes, the quotes and the colon.
Counted(e) == Len(e.key) + Escapes(e.key) + 3 + Len(e.val.text)
              + IF e.val.type \in Strings THEN 2 + Escapes(e.val.text) ELSE 0

\* And what it writes.
LEMMA ElementLength ==
    ASSUME NEW e, e.key \in Text, e.val.text \in Text
    PROVE  /\ Counted(e) \in Nat
           /\ ElementText(e, <<>>) \in Text /\ Len(ElementText(e, <<>>)) = Counted(e)
<1> DEFINE key == Quoted(e.key)
           val == ValueText(e.val)
           kes == Escapes(e.key)
           ves == Escapes(e.val.text)
<1>0. \A a, b \in Nat : a + b + 2 = a + (2 + b)
  OBVIOUS
<1>1. \A s, t \in Text : s \o t \in Text /\ Len(s \o t) = Len(s) + Len(t) /\ Len(s) \in Nat
  <2> HIDE DEF Chars
  <2> QED
    BY DEF Text
<1>2. /\ <<>> \in Text /\ <<Quote>> \in Text /\ <<":">> \in Text
      /\ Len(<<>>) = 0 /\ Len(<<Quote>>) = 1 /\ Len(<<":">>) = 1
  BY SignsAreText
<1>4. /\ Len(e.key) \in Nat /\ Len(e.val.text) \in Nat /\ kes \in Nat /\ ves \in Nat
  BY <1>1, QuotedType
<1>5. key \in Text /\ Len(key) = Len(e.key) + kes + 2
  BY QuotedType
<1>6. /\ val \in Text
      /\ Len(val) = Len(e.val.text) + IF e.val.type \in Strings THEN 2 + ves ELSE 0
  <2>1. CASE e.val.type \in Strings
    <3>1. val = Quoted(e.val.text)
      BY <2>1 DEF ValueText
    <3>2. Quoted(e.val.text) \in Text /\ Len(Quoted(e.val.text)) = Len(e.val.text) + ves + 2
      BY QuotedType
    <3>3. ves \in Nat /\ Len(e.val.text) \in Nat
      BY <1>4
    <3>4. Len(val) = Len(e.val.text) + ves + 2 /\ val \in Text
      BY <3>1, <3>2
    <3> HIDE DEF val, ves
    <3>5. Len(val) = Len(e.val.text) + (2 + ves)
      BY <1>0, <3>3, <3>4, Zenon
    <3> QED
      BY <2>1, <3>4, <3>5, Zenon
  <2>2. CASE e.val.type \notin Strings
    <3>1. val = e.val.text
      BY <2>2 DEF ValueText
    <3> QED
      BY <1>4, <2>2, <3>1
  <2> QED
    BY <2>1, <2>2
<1> HIDE DEF key, val, kes, ves
<1> DEFINE a == <<>> \o key
           b == a \o <<>>
           c == b \o <<":">>
           d == c \o <<>>
           f == d \o val
           g == f \o <<>>
<1>7. a \in Text /\ Len(a) = Len(key)
  BY <1>1, <1>2, <1>5
<1>8. b \in Text /\ Len(b) = Len(key)
  BY <1>1, <1>2, <1>7
<1>9. c \in Text /\ Len(c) = Len(key) + 1
  <2> HIDE DEF b
  <2> QED
    BY <1>1, <1>2, <1>8
<1>10. d \in Text /\ Len(d) = Len(key) + 1
  <2> HIDE DEF c
  <2> QED
    BY <1>1, <1>2, <1>9
<1>11. f \in Text /\ Len(f) = Len(key) + 1 + Len(val)
  <2> HIDE DEF d
  <2> QED
    BY <1>1, <1>6, <1>10
<1>12. g \in Text /\ Len(g) = Len(key) + 1 + Len(val)
  <2> HIDE DEF f
  <2> QED
    BY <1>1, <1>2, <1>11
<1>13. ElementText(e, <<>>) = g
  BY DEF ElementText, key, val
<1>14. Counted(e) = Len(e.key) + kes + 3 + Len(e.val.text)
                    + IF e.val.type \in Strings THEN 2 + ves ELSE 0
  BY DEF Counted, kes, ves
<1> HIDE DEF g
<1>15. Len(g) = Len(e.key) + kes + 3 + Len(val)
  <2>1. Len(val) \in Nat
    BY <1>1, <1>6
  <2> QED
    BY <1>4, <1>5, <1>12, <2>1
<1>16. Counted(e) = Len(g) /\ Counted(e) \in Nat
  <2>1. PICK x \in Nat : x = IF e.val.type \in Strings THEN 2 + ves ELSE 0
    <3>1. 2 + ves \in Nat
      BY <1>4
    <3> QED
      BY <3>1
  <2>2. Len(val) = Len(e.val.text) + x
    BY <1>6, <2>1
  <2>3. Counted(e) = Len(e.key) + kes + 3 + Len(e.val.text) + x
    BY <1>14, <2>1
  <2>4. Len(g) = Len(e.key) + kes + 3 + (Len(e.val.text) + x)
    BY <1>15, <2>2
  <2>5. PICK h, i, j \in Nat : h = Len(e.key) /\ i = kes /\ j = Len(e.val.text)
    BY <1>4
  <2>6. Counted(e) = h + i + 3 + j + x /\ Len(g) = h + i + 3 + (j + x)
    BY <2>3, <2>4, <2>5
  <2>7. h + i + 3 + j + x = h + i + 3 + (j + x) /\ h + i + 3 + j + x \in Nat
    OBVIOUS
  <2> HIDE DEF g
  <2> QED
    BY <2>6, <2>7
<1> QED
  BY <1>12, <1>13, <1>16

\* The two passes agree on every object that has an element.
LEMMA PassesAgree ==
    ASSUME ContainerTypeOK, kind = "json", list.items # <<>>
    PROVE  StringifiedLength(list.items) = Len(json_object_stringify(list.items))
<1> DEFINE items == list.items
           n == Len(items)
           comma(i) == IF i < n THEN <<",">> ELSE <<>>
           F == [i \in DOMAIN items |-> Counted(items[i])]
           pieces == [i \in DOMAIN items |-> ElementText(items[i], <<>>) \o comma(i)]
<1>1. /\ n \in Nat /\ n # 0 /\ DOMAIN items = 1..n
      /\ \A i \in 1..n : items[i] \in Record
  BY Parts DEF Items
<1>2. ASSUME NEW i \in 1..n PROVE items[i].key \in Text /\ items[i].val.text \in Text
  BY <1>1, StringsAreText, ContainersAssumption, JsonAssumption DEF Record, ContainerTypeOK
<1> HIDE DEF items, n
<1>3. ASSUME NEW i \in 1..n
      PROVE  /\ F[i] \in Nat /\ F[i] = Counted(items[i])
             /\ pieces[i] \in Text
             /\ Len(pieces[i]) = F[i] + IF i < n THEN 1 ELSE 0
  <2> DEFINE x == ElementText(items[i], <<>>)
  <2>1. Counted(items[i]) \in Nat /\ x \in Text /\ Len(x) = Counted(items[i])
    BY <1>2, ElementLength
  <2>2. F[i] = Counted(items[i]) /\ pieces[i] = x \o comma(i)
    <3> HIDE DEF x, comma
    <3> QED
      BY <1>1 DEF x
  <2>3. comma(i) \in Text /\ Len(comma(i)) = IF i < n THEN 1 ELSE 0
    BY SignsAreText
  <2>4. x \o comma(i) \in Text /\ Len(x \o comma(i)) = Len(x) + Len(comma(i))
    <3>1. \A s, t \in Text : s \o t \in Text /\ Len(s \o t) = Len(s) + Len(t)
      <4> HIDE DEF Chars
      <4> QED
        BY DEF Text
    <3> HIDE DEF x, comma
    <3> QED
      BY <2>1, <2>3, <3>1
  <2> HIDE DEF x, comma, F, pieces
  <2> QED
    BY <2>1, <2>2, <2>3, <2>4
<1>4. F \in [1..n -> Nat]
  <2>1. \A i \in 1..n : Counted(items[i]) \in Nat
    BY <1>3
  <2> QED
    BY <1>1, <2>1
<1>5. pieces \in Seq(Text) /\ Len(pieces) = n
  <2>1. DOMAIN pieces = 1..n /\ \A i \in 1..n : pieces[i] \in Text
    BY <1>1, <1>3
  <2>2. pieces \in [1..n -> Text]
    <3> HIDE DEF comma
    <3> QED
      BY <2>1
  <2> HIDE DEF pieces
  <2> QED
    BY <1>1, <2>2
<1>6. StringifiedLength(items) = FoldFunction(+, 0, F) + 1 + n
  BY DEF StringifiedLength, Counted, n
<1>7. json_object_stringify(items) = <<"{">> \o FlattenSeq(pieces) \o <<"}">>
  BY DEF json_object_stringify, Rendered, n
<1> HIDE DEF F, pieces, comma
<1>8. PICK upto : /\ FoldFunction(+, 0, F) = upto[n]
                  /\ upto[0] = 0
                  /\ \A k \in 1..n : upto[k - 1] \in Nat /\ upto[k] = upto[k - 1] + F[k]
  BY <1>1, <1>4, FoldSteps
<1> DEFINE len == [k \in 0..n |-> upto[k] + IF k < n THEN k ELSE n - 1]
<1>9. len[0] = 0 /\ len[n] = upto[n] + (n - 1)
  <2>1. 0 \in 0..n /\ n \in 0..n /\ 0 < n /\ ~(n < n)
    BY <1>1
  <2>2. len[0] = upto[0] + 0 /\ len[n] = upto[n] + (n - 1)
    BY <2>1
  <2>3. upto[0] = 0
    BY <1>8
  <2> HIDE DEF len
  <2> QED
    BY <2>2, <2>3
<1>10. ASSUME NEW k \in 1..n
       PROVE  len[k - 1] \in Nat /\ len[k] = len[k - 1] + Len(pieces[k])
  <2>1. k \in 0..n /\ k - 1 \in 0..n /\ k - 1 < n /\ k - 1 \in Nat
    BY <1>1
  <2>2. len[k - 1] = upto[k - 1] + (k - 1)
    BY <2>1
  <2>3. len[k] = upto[k] + IF k < n THEN k ELSE n - 1
    BY <2>1
  <2>4. upto[k - 1] \in Nat /\ upto[k] = upto[k - 1] + F[k]
    BY <1>8
  <2>5. F[k] \in Nat /\ Len(pieces[k]) = F[k] + IF k < n THEN 1 ELSE 0
    BY <1>3
  <2> HIDE DEF len
  <2> QED
    BY <1>1, <2>1, <2>2, <2>3, <2>4, <2>5
<1>11. Len(FlattenSeq(pieces)) = upto[n] + (n - 1)
  <2> HIDE DEF len
  <2> QED
    BY <1>5, <1>9, <1>10, FlattenLength DEF Text
<1>12. FlattenSeq(pieces) \in Text
  BY <1>5, FlattenType DEF Text
<1>13. Len(json_object_stringify(items)) = 1 + Len(FlattenSeq(pieces)) + 1
  <2>1. \A s, t \in Text : s \o t \in Text /\ Len(s \o t) = Len(s) + Len(t) /\ Len(s) \in Nat
    <3> HIDE DEF Chars
    <3> QED
      BY DEF Text
  <2>2. /\ <<"{">> \in Text /\ <<"}">> \in Text
        /\ Len(<<"{">>) = 1 /\ Len(<<"}">>) = 1
    BY SignsAreText
  <2> DEFINE a == <<"{">> \o FlattenSeq(pieces)
  <2>3. a \in Text /\ Len(a) = 1 + Len(FlattenSeq(pieces))
    BY <1>12, <2>1, <2>2
  <2>4. Len(a \o <<"}">>) = Len(a) + 1
    <3> HIDE DEF a
    <3> QED
      BY <2>1, <2>2, <2>3
  <2> QED
    BY <1>7, <2>3, <2>4
<1>14. upto[n] \in Nat
  <2>1. n \in 1..n
    BY <1>1
  <2>2. upto[n - 1] \in Nat /\ upto[n] = upto[n - 1] + F[n] /\ F[n] \in Nat
    BY <1>3, <1>8, <2>1
  <2> QED
    BY <2>2
<1> QED
  <2>1. StringifiedLength(items) = upto[n] + 1 + n
    BY <1>6, <1>8
  <2>2. Len(json_object_stringify(items)) = 1 + (upto[n] + (n - 1)) + 1
    BY <1>11, <1>13
  <2>3. \A u, m \in Nat : m # 0 => u + 1 + m = 1 + (u + (m - 1)) + 1
    OBVIOUS
  <2>4. upto[n] + 1 + n = 1 + (upto[n] + (n - 1)) + 1
    BY <1>1, <1>14, <2>3, Zenon
  <2> QED
    BY <2>1, <2>2, <2>4, Zenon DEF items

-----------------------------------------------------------------------------
(* Looking for tokens *)

\* One turn of the loop of parse_string_token at position i, if f is what follows.
Turn(t, q, f, i) ==
    IF i >= q THEN <<>>
    ELSE IF t[i] # Backslash THEN <<t[i]>> \o f[i + 1]
    ELSE IF t[i + 1] = "u"
         THEN <<Hexed(t, i)>> \o f[i + 6]
    ELSE <<IF t[i + 1] \in DOMAIN Unescape THEN Unescape[t[i + 1]] ELSE Invalid>> \o f[i + 2]

\* The loop ends at the closing quote, wherever it begins.
LEMMA DecodedExists ==
    ASSUME NEW t, NEW p \in Nat, NEW q \in Nat, p <= q
    PROVE  \E f : f = [i \in p .. q + 6 |-> Turn(t, q, f, i)]
<1> DEFINE Solves(f, n) == f = [i \in q + 6 - n .. q + 6 |-> Turn(t, q, f, i)]
           Bad == {n \in Nat : n <= q + 6 - p /\ ~ \E f : Solves(f, n)}
<1>1. Bad = {}
  <2> SUFFICES ASSUME Bad # {} PROVE FALSE
    OBVIOUS
  <2>1. PICK n \in Bad : n - 1 \notin Bad
    <3>1. Bad \subseteq Nat
      <4> HIDE DEF Solves
      <4> QED
        OBVIOUS
    <3> HIDE DEF Bad
    <3> QED
      BY <3>1, FirstOf
  <2>2. n \in Nat /\ n <= q + 6 - p /\ ~ \E f : Solves(f, n)
    <3> HIDE DEF Solves
    <3> QED
      BY <2>1
  <2>3. n # 0
    <3> SUFFICES ASSUME n = 0 PROVE FALSE
      OBVIOUS
    <3> DEFINE f == [i \in q + 6 - 0 .. q + 6 |-> <<>>]
    <3>1. \A i \in q + 6 - 0 .. q + 6 : Turn(t, q, f, i) = <<>>
      <4>1. \A i \in q + 6 - 0 .. q + 6 : i >= q
        OBVIOUS
      <4> HIDE DEF f
      <4> QED
        BY <4>1, Zenon DEF Turn
    <3>2. f = [i \in q + 6 - 0 .. q + 6 |-> Turn(t, q, f, i)]
      <4>1. [i \in q + 6 - 0 .. q + 6 |-> <<>>] = [i \in q + 6 - 0 .. q + 6 |-> Turn(t, q, f, i)]
        <5> HIDE DEF f
        <5> QED
          BY <3>1, Zenon
      <4> QED
        BY <4>1, Zenon
    <3>3. Solves(f, 0)
      BY <3>2, Zenon
    <3> HIDE DEF Solves, f
    <3> QED
      BY <2>2, <3>3
  <2>4. PICK f : Solves(f, n - 1)
    <3> HIDE DEF Solves
    <3>1. n - 1 \in Nat /\ n - 1 <= q + 6 - p
      BY <2>2, <2>3
    <3> QED
      BY <2>1, <3>1
  <2> DEFINE m == q + 6 - n
             D == m .. q + 6
             E == q + 6 - (n - 1) .. q + 6
             g == [i \in D |-> IF i = m THEN Turn(t, q, f, m) ELSE f[i]]
  <2>5. m \in Nat /\ E = m + 1 .. q + 6 /\ m \in D /\ E = D \ {m}
    BY <2>2, <2>3
  <2>6. \A i \in E : f[i] = Turn(t, q, f, i)
    <3>1. \A i \in E : [j \in E |-> Turn(t, q, f, j)][i] = Turn(t, q, f, i)
      <4> HIDE DEF E
      <4> QED
        OBVIOUS
    <3>2. f = [j \in E |-> Turn(t, q, f, j)]
      BY <2>4
    <3> HIDE DEF E
    <3> QED
      BY <3>1, <3>2, Zenon
  <2>7. \A i \in E : g[i] = f[i]
    <3> HIDE DEF D, E, m
    <3> QED
      BY <2>5
  <2>8. ASSUME NEW i \in D PROVE Turn(t, q, g, i) = Turn(t, q, f, i)
    <3>1. i < q => i + 1 \in E /\ i + 2 \in E /\ i + 6 \in E
      BY <2>2, <2>5
    <3>2. i >= q \/ i < q
      BY <2>5
    <3>3. CASE i >= q
      BY <3>3, Zenon DEF Turn
    <3>4. CASE i < q
      <4>1. g[i + 1] = f[i + 1] /\ g[i + 2] = f[i + 2] /\ g[i + 6] = f[i + 6]
        <5> HIDE DEF g, E, D, m
        <5> QED
          BY <2>7, <3>1, <3>4
      <4> HIDE DEF g, E, D, m
      <4> QED
        BY <4>1, Zenon DEF Turn
    <3> QED
      BY <3>2, <3>3, <3>4
  <2>9. ASSUME NEW i \in D PROVE g[i] = Turn(t, q, g, i)
    <3>1. CASE i = m
      <4>1. g[m] = Turn(t, q, f, m)
        <5> HIDE DEF D, m
        <5> QED
          BY <2>5
      <4> HIDE DEF g, D, m
      <4> QED
        BY <2>8, <3>1, <4>1, Zenon
    <3>2. CASE i # m
      <4>1. i \in E
        <5> HIDE DEF D, E, m, g
        <5> QED
          BY <2>5, <3>2
      <4> HIDE DEF g, D, E, m
      <4> QED
        BY <2>6, <2>7, <2>8, <4>1, Zenon
    <3> QED
      BY <3>1, <3>2
  <2>10. Solves(g, n)
    <3>1. g = [i \in D |-> g[i]]
      <4> HIDE DEF D, m
      <4> QED
        OBVIOUS
    <3>2. [i \in D |-> g[i]] = [i \in D |-> Turn(t, q, g, i)]
      <4> HIDE DEF g, D
      <4> QED
        BY <2>9, Zenon
    <3>3. g = [i \in D |-> Turn(t, q, g, i)]
      <4> HIDE DEF g, D
      <4> QED
        BY <3>1, <3>2, Zenon
    <3> HIDE DEF g
    <3> QED
      BY <3>3, Zenon
  <2> HIDE DEF Solves, g
  <2> QED
    BY <2>2, <2>10
<1>2. q + 6 - p \in Nat /\ q + 6 - (q + 6 - p) = p
  OBVIOUS
<1>3. \E f : Solves(f, q + 6 - p)
  <2>1. q + 6 - p <= q + 6 - p
    BY <1>2
  <2> HIDE DEF Solves
  <2> QED
    BY <1>1, <1>2, <2>1
<1> QED
  BY <1>2, <1>3

\* What parse_string_token makes of a text with a closing quote.
LEMMA TokenDecodes ==
    ASSUME NEW t, NEW p \in Nat, NEW q \in Nat, q = ClosingQuote(t, p), p <= q, q # 0
    PROVE  \E decoded :
              /\ \A i \in p .. q + 6 : decoded[i] = Turn(t, q, decoded, i)
              /\ parse_string_token(t, p) =
                    IF t[p] # Quote \/ Contains(decoded[p + 1], Invalid) THEN Failed
                    ELSE IF Contains(decoded[p + 1], Beyond) THEN Outside
                    ELSE [next |-> q + 1, string |-> decoded[p + 1]]
<1> DEFINE decoded == CHOOSE f : f = [i \in p .. q + 6 |-> Turn(t, q, f, i)]
<1>1. decoded = [i \in p .. q + 6 |-> Turn(t, q, decoded, i)]
  <2>1. \E f : f = [i \in p .. q + 6 |-> Turn(t, q, f, i)]
    BY DecodedExists
  <2> QED
    BY <2>1, Zenon
<1>2. parse_string_token(t, p) =
          IF ClosingQuote(t, p) = 0 \/ t[p] # Quote \/ Contains(decoded[p + 1], Invalid) THEN Failed
          ELSE IF Contains(decoded[p + 1], Beyond) THEN Outside
          ELSE [next |-> ClosingQuote(t, p) + 1, string |-> decoded[p + 1]]
  BY DEF parse_string_token, Turn
<1> HIDE DEF decoded
<1>3. \A i \in p .. q + 6 : decoded[i] = Turn(t, q, decoded, i)
  <2>1. \A i \in p .. q + 6 :
           [j \in p .. q + 6 |-> Turn(t, q, decoded, j)][i] = Turn(t, q, decoded, i)
    OBVIOUS
  <2> QED
    BY <1>1, <2>1, Zenon
<1>4. parse_string_token(t, p) =
          IF t[p] # Quote \/ Contains(decoded[p + 1], Invalid) THEN Failed
          ELSE IF Contains(decoded[p + 1], Beyond) THEN Outside
          ELSE [next |-> q + 1, string |-> decoded[p + 1]]
  BY <1>2
<1> QED
  BY <1>3, <1>4

\* What a text in quotes may become.
Decoded == Chars \cup {" ", "LF", Invalid, Beyond}

\* A turn reads one character, and something behind the text only after a \u that
\* has less than three characters behind it.
LEMMA TurnFacts ==
    ASSUME NEW t \in Text, NEW q \in Nat, q <= Len(t), NEW f, NEW i \in 1 .. q - 1
    PROVE  \E c \in Decoded, n \in {i + 1, i + 2, i + 6} :
              /\ Turn(t, q, f, i) = <<c>> \o f[n]
              /\ c = Beyond => t[i] = Backslash /\ t[i + 1] = "u" /\ i + 5 > Len(t) + 1
<1>1. Len(t) \in Nat /\ \A j \in 1..Len(t) : t[j] \in Chars
  BY Lengths
<1>2. i \in 1..Len(t) /\ ~(i >= q)
  BY <1>1
<1>3. Beyond \notin Chars /\ Invalid # Beyond /\ " " # Beyond
  BY NoSuchCharacter DEF Invalid, Beyond
<1>4. CASE t[i] # Backslash
  <2>1. t[i] \in Decoded /\ t[i] # Beyond
    BY <1>1, <1>2, <1>3, Zenon DEF Decoded
  <2>2. Turn(t, q, f, i) = <<t[i]>> \o f[i + 1]
    BY <1>2, <1>4, Zenon DEF Turn
  <2> QED
    BY <2>1, <2>2, Zenon
<1>5. CASE t[i] = Backslash /\ t[i + 1] = "u"
  <2>1. Hexed(t, i) \in Decoded
    BY Zenon DEF Hexed, Decoded
  <2>2. Hexed(t, i) = Beyond => i + 5 > Len(t) + 1
    BY <1>3, Zenon DEF Hexed
  <2>3. Turn(t, q, f, i) = <<Hexed(t, i)>> \o f[i + 6]
    BY <1>2, <1>5, Zenon DEF Turn
  <2> QED
    BY <1>5, <2>1, <2>2, <2>3, Zenon
<1>6. CASE t[i] = Backslash /\ t[i + 1] # "u"
  <2> DEFINE c == IF t[i + 1] \in DOMAIN Unescape THEN Unescape[t[i + 1]] ELSE Invalid
  <2>1. Turn(t, q, f, i) = <<c>> \o f[i + 2]
    BY <1>2, <1>6, Zenon DEF Turn
  <2>2. ASSUME NEW d \in DOMAIN Unescape PROVE Unescape[d] \in {Quote, Backslash, "/", "LF"}
    <3>1. PICK e \in DOMAIN Escape : Escape[e] = d
      BY DEF Unescape, Range
    <3>2. Unescape[d] = CHOOSE e_1 \in DOMAIN Escape : Escape[e_1] = d
      BY DEF Unescape
    <3>3. Unescape[d] \in DOMAIN Escape
      BY <3>1, <3>2, Zenon
    <3> QED
      BY <3>3 DEF Escape
  <2>3. {Quote, Backslash, "/", "LF"} \subseteq Decoded
    BY Zenon DEF Decoded, Chars
  <2>4. Beyond \notin {Quote, Backslash, "/", "LF"}
    BY DEF Beyond, Quote, Backslash
  <2>5. c \in Decoded /\ c # Beyond
    <3>1. CASE t[i + 1] \in DOMAIN Unescape
      BY <2>2, <2>3, <2>4, <3>1, Zenon
    <3>2. CASE t[i + 1] \notin DOMAIN Unescape
      BY <1>3, <3>2, Zenon DEF Decoded
    <3> QED
      BY <3>1, <3>2
  <2> HIDE DEF c
  <2> QED
    BY <2>1, <2>5, Zenon
<1> QED
  BY <1>4, <1>5, <1>6

\* One character in front of others.
LEMMA ContainsOneMore ==
    ASSUME NEW c \in Decoded, NEW s \in Seq(Decoded), NEW x
    PROVE  <<c>> \o s \in Seq(Decoded) /\ (Contains(<<c>> \o s, x) => c = x \/ Contains(s, x))
<1> HIDE DEF Decoded
<1>1. <<c>> \in Seq(Decoded) /\ <<c>> \o s \in Seq(Decoded)
  OBVIOUS
<1>2. ASSUME NEW i \in 1..Len(<<c>> \o s), i # 1
      PROVE  i - 1 \in 1..Len(s) /\ (<<c>> \o s)[i] = s[i - 1]
  BY <1>2
<1>3. (<<c>> \o s)[1] = c
  OBVIOUS
<1> QED
  BY <1>1, <1>2, <1>3, Zenon DEF Contains

\* Where something behind the text was read, there is such a \u.
LEMMA BeyondIsBehind ==
    ASSUME NEW t \in Text, NEW p \in Nat \ {0}, NEW q \in Nat, p <= q, q <= Len(t), NEW f,
           \A i \in p .. q + 6 : f[i] = Turn(t, q, f, i)
    PROVE  Contains(f[p], Beyond) =>
              \E j \in 1 .. q - 1 : t[j] = Backslash /\ t[j + 1] = "u" /\ j + 5 > Len(t) + 1
<1> DEFINE Found == \E j \in 1 .. q - 1 :
                       t[j] = Backslash /\ t[j + 1] = "u" /\ j + 5 > Len(t) + 1
           Good(i) == f[i] \in Seq(Decoded) /\ (Contains(f[i], Beyond) => Found)
           Bad == {n \in Nat : n <= q + 6 - p /\ ~Good(q + 6 - n)}
<1>1. Bad = {}
  <2> HIDE DEF Good
  <2> SUFFICES ASSUME Bad # {} PROVE FALSE
    OBVIOUS
  <2>1. Bad \in SUBSET Nat
    OBVIOUS
  <2> DEFINE n == Min(Bad)
             i == q + 6 - n
  <2>2. n \in Bad /\ \A m \in Bad : n <= m
    <3> HIDE DEF Bad
    <3> QED
      BY <2>1, MinFacts
  <2> HIDE DEF n
  <2>3. n \in Nat /\ i \in p .. q + 6 /\ ~Good(i)
    BY <2>2
  <2>4. \A k \in i + 1 .. q + 6 : Good(k)
    <3> SUFFICES ASSUME NEW k \in i + 1 .. q + 6, ~Good(k) PROVE FALSE
      OBVIOUS
    <3>1. q + 6 - k \in Nat /\ q + 6 - k <= q + 6 - p /\ q + 6 - (q + 6 - k) = k /\ q + 6 - k < n
      BY <2>3
    <3>2. q + 6 - k \in Bad
      BY <3>1
    <3>3. n <= q + 6 - k
      <4> HIDE DEF Bad
      <4> QED
        BY <2>2, <3>2
    <3> HIDE DEF Bad, i
    <3> QED
      BY <2>3, <3>1, <3>3
  <2>5. f[i] = Turn(t, q, f, i)
    <3> HIDE DEF i
    <3> QED
      BY <2>3
  <2>6. CASE i >= q
    <3>1. f[i] = <<>>
      BY <2>5, <2>6, Zenon DEF Turn
    <3>2. <<>> \in Seq(Decoded) /\ ~Contains(<<>>, Beyond)
      BY DEF Contains
    <3> QED
      BY <2>3, <3>1, <3>2, Zenon DEF Good
  <2>7. CASE i < q
    <3>1. i \in 1 .. q - 1 /\ {i + 1, i + 2, i + 6} \subseteq i + 1 .. q + 6
      BY <2>3, <2>7
    <3>2. PICK c \in Decoded, m \in {i + 1, i + 2, i + 6} :
             /\ Turn(t, q, f, i) = <<c>> \o f[m]
             /\ c = Beyond => t[i] = Backslash /\ t[i + 1] = "u" /\ i + 5 > Len(t) + 1
      <4> HIDE DEF i
      <4> QED
        BY <3>1, TurnFacts
    <3>3. Good(m)
      <4> HIDE DEF i
      <4> QED
        BY <2>4, <3>1, <3>2
    <3>4. f[m] \in Seq(Decoded) /\ (Contains(f[m], Beyond) => Found)
      BY <3>3, Zenon DEF Good
    <3>5. c = Beyond => Found
      <4> HIDE DEF i
      <4> QED
        BY <3>1, <3>2, Zenon
    <3>6. f[i] \in Seq(Decoded) /\ (Contains(f[i], Beyond) => c = Beyond \/ Contains(f[m], Beyond))
      <4> HIDE DEF i
      <4> QED
        BY <2>5, <3>2, <3>4, ContainsOneMore, Zenon
    <3> QED
      BY <2>3, <3>4, <3>5, <3>6, Zenon DEF Good
  <2>8. i >= q \/ i < q
    BY <2>3
  <2> QED
    BY <2>6, <2>7, <2>8
<1>2. q + 6 - p \in Nat /\ q + 6 - (q + 6 - p) = p /\ q + 6 - p <= q + 6 - p
  OBVIOUS
<1>3. Good(p)
  <2> HIDE DEF Good
  <2>1. q + 6 - p \notin Bad
    BY <1>1
  <2>2. Good(q + 6 - (q + 6 - p))
    BY <1>2, <2>1
  <2> QED
    BY <1>2, <2>2, Zenon
<1> QED
  BY <1>3

\* A string token is left only through a \u at the end of the text.
LEMMA EscapeAtEnd ==
    ASSUME NEW s \in Text, NEW p \in 1..Len(s), parse_string_token(s, p) = Outside
    PROVE  \E i \in 1 .. Len(s) - 1 :
              s[i] = Backslash /\ s[i + 1] = "u" /\ Len(s) - (i + 1) < 3
<1> DEFINE ends == {j \in p + 1 .. Len(s) : s[j] = Quote /\ s[j - 1] # Backslash}
           q == ClosingQuote(s, p)
<1>1. Len(s) \in Nat
  BY Lengths
<1>2. q = IF ends = {} THEN 0 ELSE Min(ends)
  BY DEF ClosingQuote
<1>3. ends \in SUBSET Nat
  BY <1>1
<1>4. ends # {} => Min(ends) \in ends
  BY <1>3, MinFacts
<1>5. q # 0
  BY DEF parse_string_token, Failed, Outside
<1>6. q \in p + 1 .. Len(s)
  BY <1>2, <1>4, <1>5
<1> HIDE DEF q
<1>7. p \in Nat \ {0} /\ q \in Nat /\ p + 1 \in Nat \ {0} /\ p <= q /\ p + 1 <= q /\ q <= Len(s)
  BY <1>1, <1>6
<1>8. PICK f :
         /\ \A i \in p .. q + 6 : f[i] = Turn(s, q, f, i)
         /\ parse_string_token(s, p) =
               IF s[p] # Quote \/ Contains(f[p + 1], Invalid) THEN Failed
               ELSE IF Contains(f[p + 1], Beyond) THEN Outside
               ELSE [next |-> q + 1, string |-> f[p + 1]]
  BY <1>5, <1>7, TokenDecodes DEF q
<1>9. Contains(f[p + 1], Beyond)
  <2>1. Outside # Failed /\ Outside # [next |-> q + 1, string |-> f[p + 1]]
    BY DEF Outside, Failed
  <2> HIDE DEF Outside, Failed
  <2> QED
    BY <1>8, <2>1
<1>10. \A i \in p + 1 .. q + 6 : f[i] = Turn(s, q, f, i)
  BY <1>7, <1>8
<1>11. PICK j \in 1 .. q - 1 : s[j] = Backslash /\ s[j + 1] = "u" /\ j + 5 > Len(s) + 1
  BY <1>7, <1>9, <1>10, BeyondIsBehind
<1>12. j \in 1 .. Len(s) - 1 /\ Len(s) - (j + 1) < 3
  BY <1>1, <1>7, <1>11
<1> QED
  BY <1>11, <1>12, Zenon

\* A string token is read up to a quote, or not at all.
LEMMA TokenFacts ==
    ASSUME NEW s \in Text, NEW p \in 1..Len(s),
           parse_string_token(s, p) \notin {Failed, Outside}
    PROVE  LET next == parse_string_token(s, p).next
           IN  next \in p + 2 .. Len(s) + 1 /\ s[next - 1] = Quote
<1> DEFINE ends == {j \in p + 1 .. Len(s) : s[j] = Quote /\ s[j - 1] # Backslash}
           q == ClosingQuote(s, p)
<1>1. Len(s) \in Nat
  BY DEF Text
<1>2. q = IF ends = {} THEN 0 ELSE Min(ends)
  BY DEF ClosingQuote
<1>3. ends \in SUBSET Nat /\ 0 \notin ends
  BY <1>1
<1>4. ends # {} => Min(ends) \in ends
  BY <1>3, MinFacts
<1>5. q # 0 /\ parse_string_token(s, p).next = q + 1
  BY DEF parse_string_token
<1>6. q \in ends
  BY <1>2, <1>4, <1>5
<1>7. q \in p + 1 .. Len(s) /\ s[q] = Quote
  BY <1>6
<1> HIDE DEF q
<1> QED
  BY <1>1, <1>5, <1>7

\* A value that is no string is read up to a comma, a brace or the end of the
\* text.  It reaches in front of its first character only if that is a comma or
\* a brace behind a blank.
LEMMA OtherFacts ==
    ASSUME NEW s \in Text, NEW c \in 1..Len(s), s[c] = ":",
           NEW v \in Nat, c < v, v <= Len(s), s[v] \notin White,
           \A k \in (c + 1)..(v - 1) : s[k] \in White
    PROVE  /\ ParseOther(s, c, v) = Outside =>
                 s[c + 1] \in White /\ c + 2 <= Len(s) /\ s[v] \in {",", "}"}
           /\ ParseOther(s, c, v) # Outside =>
                 /\ ParseOther(s, c, v).next \in v .. Len(s) + 1
                 /\ ParseOther(s, c, v).next = Len(s) + 1 => s[Len(s)] # "}"
<1> DEFINE Stops(k) == s[k] \in {",", "}"}
           Dark(k) == s[k] \notin White
           ends == {k \in v..Len(s) : Stops(k)}
           end == IF ends # {} THEN Min(ends) ELSE 0
           e == IF end = 0 THEN Len(s) + 1 ELSE end
           dark == {k \in c..(e - 1) : Dark(k)}
           last == LastNonSpace(s, c, e - 1)
<1>1. Len(s) \in Nat /\ c \in Nat /\ c # 0
  BY DEF Text
<1>2. s[Len(s)] = "}" => Stops(Len(s))
  OBVIOUS
<1>3. /\ s[v] \notin White /\ Dark(v) /\ Dark(c) /\ \A k \in (c + 1)..(v - 1) : ~Dark(k)
      /\ v # c + 1 => s[c + 1] \in White
  <2>1. v # c + 1 => c + 1 \in (c + 1)..(v - 1)
    BY <1>1
  <2>2. ":" \notin White
    BY DEF White
  <2> HIDE DEF White
  <2> QED
    BY <2>1, <2>2
<1>4. ParseOther(s, c, v) = IF last < v - 1 THEN Outside
                            ELSE [next |-> e, string |-> SubSeq(s, v, last)]
  BY DEF ParseOther, SelectInSubSeq
<1>5. dark # {} => last = Max(dark)
  BY DEF LastNonSpace, SelectLastInSubSeq
<1> HIDE DEF Stops, Dark, last, White
<1>6. ends \in SUBSET Nat /\ 0 \notin ends
  BY <1>1
<1>7. ends # {} => Min(ends) \in ends
  BY <1>6, MinFacts
<1>8. e \in v .. Len(s) + 1 /\ (e = v => Stops(v)) /\ (e = Len(s) + 1 => ~Stops(Len(s)))
  <2>1. CASE ends = {}
    BY <1>1, <2>1
  <2>2. CASE ends # {}
    <3>1. end \in ends /\ end # 0
      BY <1>6, <1>7, <2>2
    <3> HIDE DEF end
    <3> QED
      BY <1>1, <3>1
  <2> QED
    BY <2>1, <2>2
<1> HIDE DEF e
<1>9. c \in dark /\ last \in dark /\ \A y \in dark : y <= last
  <2>1. dark \in SUBSET (0..Len(s)) /\ c \in dark
    BY <1>1, <1>3, <1>8
  <2> HIDE DEF dark
  <2> QED
    BY <1>1, <1>5, <2>1, MaxGreatest
<1>10. last < v - 1 => e = v /\ v # c + 1
  <2>1. e # v => v \in dark
    BY <1>1, <1>3, <1>8
  <2>2. last \in Nat
    BY <1>1, <1>8, <1>9
  <2> HIDE DEF dark
  <2> QED
    BY <1>1, <1>9, <2>1, <2>2
<1>11. CASE last < v - 1
  <2>1. s[v] \in {",", "}"} /\ s[c + 1] \in White /\ c + 2 <= Len(s)
    <3>1. Stops(v)
      BY <1>8, <1>10, <1>11
    <3>2. s[v] \in {",", "}"}
      BY <3>1 DEF Stops
    <3>3. v # c + 1
      BY <1>10, <1>11
    <3>4. c + 2 <= Len(s)
      BY <1>1, <3>3
    <3> QED
      BY <1>3, <3>2, <3>3, <3>4
  <2> QED
    BY <1>4, <1>11, <2>1
<1>12. CASE ~(last < v - 1)
  <2>1. ParseOther(s, c, v) # Outside /\ ParseOther(s, c, v).next = e
    <3>1. ParseOther(s, c, v) = [next |-> e, string |-> SubSeq(s, v, last)]
      BY <1>4, <1>12
    <3>2. [next |-> e, string |-> SubSeq(s, v, last)] # Outside
      <4>1. v # 0 /\ e # 0
        BY <1>1, <1>8
      <4> QED
        BY <4>1 DEF Outside
    <3>3. [next |-> e, string |-> SubSeq(s, v, last)].next = e
      OBVIOUS
    <3> QED
      BY <3>1, <3>2, <3>3, Zenon
  <2>2. e = Len(s) + 1 => s[Len(s)] # "}"
    BY <1>2, <1>8
  <2> QED
    BY <1>8, <2>1, <2>2
<1> QED
  BY <1>11, <1>12

-----------------------------------------------------------------------------
(* The parser *)

\* Where it is: in its text, or one behind it, and while it looks for a value
\* right behind a colon.  Behind an element it is inside of a text that is closed.
PositionInv ==
    /\ place \in {"building"} \cup Parsing \cup Results
    /\ source \in {"none", "whole", "cut", "given"}
    /\ text \in Text
    /\ pos \in 1 .. Len(text) + 2
    /\ place \in Parsing => pos \in 2 .. Len(text) + 1
    /\ place = "value" => text[pos - 1] = ":"
    /\ place = "after" /\ text[Len(text)] = "}" => pos <= Len(text)

\* What it has built has room for its elements, until it was destructed.
ParsedInv ==
    /\ \E S : parsed \in [items : Seq(S), capacity : Nat]
    /\ Fits(parsed)
    /\ place # "NULL" => parsed.capacity # 0

JsonInv ==
    /\ ContainerInv
    /\ PositionInv
    /\ ParsedInv
    /\ OutsideOnlyWhenUnclosed

\* A text that arrives is parsed from its second character on.
LEMMA ReceiveKeeps ==
    ASSUME ParsedInv, place = "building", NEW t \in Text,
           NEW how \in {"whole", "cut", "given"}, Receive(t, how)
    PROVE  PositionInv' /\ OutsideOnlyWhenUnclosed' /\ ParsedInv'
<1>1. /\ text' = t /\ source' = how /\ pos' = 2 /\ parsed' = parsed
      /\ place' = IF At(t, 1) = "{" THEN "element" ELSE "NULL"
  BY DEF Receive
<1>2. Len(t) \in Nat /\ (At(t, 1) = "{" => 2 \in 2 .. Len(t) + 1) /\ 2 \in 1 .. Len(t) + 2
  <2>1. Len(t) \in Nat /\ DOMAIN t = 1..Len(t)
    BY Lengths
  <2>2. At(t, 1) = "{" => 1 \in 1..Len(t)
    BY <2>1, Zenon DEF At
  <2>3. ASSUME NEW n \in Nat
        PROVE  2 \in 1 .. n + 2 /\ (1 \in 1..n => 2 \in 2 .. n + 1)
    OBVIOUS
  <2> QED
    BY <2>1, <2>2, <2>3, Zenon
<1>3. PositionInv'
  <2>1. text' \in Text /\ place' \in {"element", "NULL"} /\ source' \in {"whole", "cut", "given"}
    BY <1>1
  <2>2. pos' \in 1 .. Len(text') + 2 /\ (place' = "element" => pos' \in 2 .. Len(text') + 1)
    <3>1. place' = "element" => At(t, 1) = "{"
      BY <1>1
    <3> QED
      BY <1>1, <1>2, <3>1, Zenon
  <2>3. place' \in {"building"} \cup Parsing \cup Results
    BY <2>1 DEF Parsing, Results
  <2>4. /\ place' \in Parsing => place' = "element"
        /\ place' # "value" /\ place' # "after"
    BY <2>1 DEF Parsing
  <2>5. source' \in {"none", "whole", "cut", "given"}
    BY <2>1
  <2> QED
    BY <2>1, <2>2, <2>3, <2>4, <2>5, Zenon DEF PositionInv
<1>4. ParsedInv'
  BY <1>1 DEF ParsedInv
<1>5. OutsideOnlyWhenUnclosed'
  BY <1>1 DEF OutsideOnlyWhenUnclosed
<1> QED
  BY <1>3, <1>4, <1>5

\* The parser stops, with or without a result.
LEMMA StopKeeps ==
    ASSUME PositionInv, ParsedInv, place \in Parsing,
           \/ Return("object")
           \/ Fail
           \/ Return("outside") /\ OutsideOnlyWhenUnclosed'
    PROVE  PositionInv' /\ OutsideOnlyWhenUnclosed' /\ ParsedInv'
<1>1. /\ text' = text /\ source' = source /\ pos' = pos
      /\ place' \in {"object", "outside", "NULL"}
      /\ place' = "outside" => OutsideOnlyWhenUnclosed'
      /\ \/ parsed' = parsed
         \/ place' = "NULL" /\ parsed' = Destructed
  <2> HIDE DEF OutsideOnlyWhenUnclosed
  <2> QED
    BY DEF Return, Fail, Go
<1>2. PositionInv'
  BY <1>1 DEF PositionInv, Parsing, Results
<1>3. ParsedInv'
  BY <1>1, EmptyListed DEF ParsedInv, Destructed, Parsing
<1>4. OutsideOnlyWhenUnclosed'
  BY <1>1 DEF OutsideOnlyWhenUnclosed
<1> QED
  BY <1>2, <1>3, <1>4

\* The parser goes on.
LEMMA GoKeeps ==
    ASSUME PositionInv, ParsedInv, place \in Parsing,
           NEW where \in Parsing, NEW next \in 2 .. Len(text) + 1, Go(where, next),
           where = "value" => text[next - 1] = ":",
           where = "after" /\ text[Len(text)] = "}" => next <= Len(text),
           parsed' = parsed \/ \E e : parsed' = Push(parsed, e)
    PROVE  PositionInv' /\ OutsideOnlyWhenUnclosed' /\ ParsedInv'
<1>1. place' = where /\ pos' = next /\ text' = text /\ source' = source
  BY DEF Go
<1>2. Len(text) \in Nat
  BY Lengths DEF PositionInv
<1>3. PositionInv'
  <2>1. text' \in Text /\ place' \in Parsing /\ source' \in {"none", "whole", "cut", "given"}
    BY <1>1 DEF PositionInv
  <2>2. pos' \in 1 .. Len(text') + 2 /\ pos' \in 2 .. Len(text') + 1
    BY <1>1, <1>2, WithinText, Zenon
  <2> HIDE DEF Text
  <2> QED
    BY <1>1, <2>1, <2>2 DEF PositionInv
<1>4. ParsedInv'
  <2>1. place # "NULL" /\ place' # "NULL"
    BY <1>1 DEF Parsing
  <2>2. CASE parsed' = parsed
    BY <2>1, <2>2 DEF ParsedInv
  <2>3. CASE \E e : parsed' = Push(parsed, e)
    <3>1. PICK e : parsed' = Push(parsed, e)
      BY <2>3
    <3>2. /\ \E S : parsed \in [items : Seq(S), capacity : Nat]
          /\ Fits(parsed) /\ parsed.capacity # 0
      BY <2>1 DEF ParsedInv
    <3>3. /\ \E S : Push(parsed, e) \in [items : Seq(S), capacity : Nat]
          /\ Fits(Push(parsed, e)) /\ Push(parsed, e).capacity # 0
      BY <3>2, PushKeeps
    <3> QED
      BY <3>1, <3>3 DEF ParsedInv
  <2> QED
    BY <2>2, <2>3
<1>5. OutsideOnlyWhenUnclosed'
  BY <1>1 DEF OutsideOnlyWhenUnclosed, Parsing
<1> QED
  BY <1>3, <1>4, <1>5

\* The next token, for a position in the text or one behind it.
LEMMA HereFacts ==
    ASSUME PositionInv, place \in Parsing
    PROVE  /\ Len(text) \in Nat /\ pos \in Nat /\ 2 <= pos /\ pos <= Len(text) + 1
           /\ At(text, 0) = "NUL"
           /\ Here = 0 => \A k \in pos..Len(text) : text[k] \in White
           /\ Here # 0 =>
                 /\ Here \in Nat /\ pos <= Here /\ Here <= Len(text)
                 /\ At(text, Here) = text[Here] /\ text[Here] \notin White
                 /\ \A k \in pos..(Here - 1) : text[k] \in White
<1>1. Len(text) \in Nat /\ DOMAIN text = 1..Len(text) /\ text \in Text
  BY Lengths DEF PositionInv
<1>2. pos \in Nat /\ 2 <= pos /\ pos <= Len(text) + 1 /\ pos # 0
  <2>1. pos \in 2 .. Len(text) + 1
    BY Zenon DEF PositionInv
  <2> QED
    BY <1>1, <2>1, WithinText, Zenon
<1>3. /\ Here = 0 => \A k \in pos..Len(text) : text[k] \in White
      /\ Here # 0 => /\ Here \in pos..Len(text)
                     /\ text[Here] \notin White
                     /\ \A k \in pos..(Here - 1) : text[k] \in White
  BY <1>1, <1>2, SpaceFacts DEF Here, Text
<1> HIDE DEF White
<1>4. Here # 0 => /\ Here \in Nat /\ pos <= Here /\ Here <= Len(text)
                  /\ At(text, Here) = text[Here]
  BY <1>1, <1>2, <1>3 DEF At
<1>5. At(text, 0) = "NUL"
  BY <1>1 DEF At
<1> QED
  BY <1>1, <1>2, <1>3, <1>4, <1>5

\* The name of an element, a colon, a value, and what comes behind it.
LEMMA ParseKeeps ==
    ASSUME PositionInv, ParsedInv, ParseStep
    PROVE  PositionInv' /\ OutsideOnlyWhenUnclosed' /\ ParsedInv'
<1>1. place \in Parsing
  BY DEF ParseStep, ParseName, ParseColon, ParseValue, ParseAfter, Parsing
<1>2. /\ Len(text) \in Nat /\ pos \in Nat /\ 2 <= pos /\ pos <= Len(text) + 1
      /\ At(text, 0) = "NUL"
      /\ Here = 0 => \A k \in pos..Len(text) : text[k] \in White
      /\ Here # 0 =>
            /\ Here \in Nat /\ pos <= Here /\ Here <= Len(text)
            /\ At(text, Here) = text[Here] /\ text[Here] \notin White
            /\ \A k \in pos..(Here - 1) : text[k] \in White
  BY <1>1, HereFacts
<1>3. text \in Text
  BY DEF PositionInv
<1>4. ASSUME Here # 0, At(text, Here) = Quote,
             parse_string_token(text, Here) \notin {Failed, Outside}
      PROVE  LET next == parse_string_token(text, Here).next
             IN  next \in 2 .. Len(text) + 1 /\ next - 1 \in Nat /\ text[next - 1] = Quote
  <2>1. Here \in 1..Len(text)
    BY <1>2, <1>4
  <2> DEFINE next == parse_string_token(text, Here).next
  <2>2. next \in Here + 2 .. Len(text) + 1 /\ text[next - 1] = Quote
    BY <1>3, <1>4, <2>1, TokenFacts
  <2> HIDE DEF next
  <2>3. next \in 2 .. Len(text) + 1 /\ next - 1 \in Nat
    BY <1>2, <2>1, <2>2
  <2> QED
    BY <2>2, <2>3 DEF next
<1>5. At(text, Here) # "NUL" => Here # 0
  BY <1>2
<1>a. ASSUME At(text, Here) = Quote, parse_string_token(text, Here) = Outside,
             Return("outside")
      PROVE  PositionInv' /\ OutsideOnlyWhenUnclosed' /\ ParsedInv'
  <2>1. Here \in 1..Len(text)
    <3>1. Here # 0
      BY <1>5, <1>a DEF Quote
    <3> QED
      BY <1>2, <3>1
  <2>2. PICK i \in 1 .. Len(text) - 1 :
           text[i] = Backslash /\ text[i + 1] = "u" /\ Len(text) - (i + 1) < 3
    BY <1>3, <1>a, <2>1, EscapeAtEnd
  <2>3. text' = text
    BY <1>a DEF Return, Go
  <2>4. OutsideOnlyWhenUnclosed'
    BY <2>2, <2>3, Zenon DEF OutsideOnlyWhenUnclosed
  <2> QED
    BY <1>1, <1>a, <2>4, StopKeeps
<1>6. CASE ParseName
  <2>1. ASSUME At(text, Here) = Quote, parse_string_token(text, Here) \notin {Failed, Outside},
               Go("colon", parse_string_token(text, Here).next), UNCHANGED parsed
        PROVE  PositionInv' /\ OutsideOnlyWhenUnclosed' /\ ParsedInv'
    <3>1. parse_string_token(text, Here).next \in 2 .. Len(text) + 1
      BY <1>4, <1>5, <2>1 DEF Quote
    <3> QED
      BY <1>1, <2>1, <3>1, GoKeeps DEF Parsing
  <2>2. \/ Return("object")
        \/ Fail
        \/ /\ At(text, Here) = Quote
           /\ CASE parse_string_token(text, Here) = Failed  -> Fail
                [] parse_string_token(text, Here) = Outside -> Return("outside")
                [] OTHER -> /\ Go("colon", parse_string_token(text, Here).next)
                            /\ name' = parse_string_token(text, Here).string
                            /\ UNCHANGED parsed
    BY <1>6, Zenon DEF ParseName
  <2>3. CASE Return("object") \/ Fail
    BY <1>1, <2>3, StopKeeps
  <2>4. Failed # Outside
    BY DEF Failed, Outside
  <2> HIDE DEF Failed, Outside
  <2> QED
    BY <1>a, <2>1, <2>2, <2>3, <2>4, Zenon
<1>7. CASE ParseColon
  <2>1. ASSUME At(text, Here) = ":", Go("value", Here + 1), UNCHANGED parsed
        PROVE  PositionInv' /\ OutsideOnlyWhenUnclosed' /\ ParsedInv'
    <3>1. Here # 0
      BY <1>5, <2>1
    <3> DEFINE next == Here + 1
    <3>2. next \in 2 .. Len(text) + 1 /\ next - 1 = Here
      BY <1>2, <3>1
    <3>3. text[next - 1] = ":"
      BY <1>2, <2>1, <3>1, <3>2
    <3>4. "value" \in Parsing /\ parsed' = parsed /\ Go("value", next)
      BY <2>1 DEF Parsing
    <3> HIDE DEF next
    <3> QED
      BY <1>1, <3>2, <3>3, <3>4, GoKeeps
  <2> QED
    BY <1>1, <1>7, <2>1, StopKeeps DEF ParseColon
<1>8. CASE ParseValue
  <2>1. place = "value" /\ text[pos - 1] = ":"
    BY <1>8 DEF ParseValue, PositionInv
  <2>2. CASE Here = 0 /\ Return("outside")
    <3>1. pos <= Len(text) => text[Len(text)] \in White
      BY <1>2, <2>2
    <3>2. pos = Len(text) + 1 => text[Len(text)] = ":"
      BY <1>2, <2>1
    <3>3. Last(text) # "}"
      <4>1. pos <= Len(text) \/ pos = Len(text) + 1
        BY <1>2
      <4> QED
        BY <3>1, <3>2, <4>1 DEF Last, White
    <3>4. OutsideOnlyWhenUnclosed'
      BY <2>2, <3>3 DEF OutsideOnlyWhenUnclosed, Return, Go
    <3> QED
      BY <1>1, <2>2, <3>4, StopKeeps
  <2>3. CASE At(text, Here) = Quote /\ parse_string_token(text, Here) = Failed /\ Fail
    BY <1>1, <2>3, StopKeeps
  <2>a. CASE /\ At(text, Here) = Quote /\ parse_string_token(text, Here) = Outside
             /\ Return("outside")
    BY <1>a, <2>a
  <2>4. CASE /\ At(text, Here) = Quote
             /\ parse_string_token(text, Here) \notin {Failed, Outside}
             /\ PushElement(parse_string_token(text, Here).next, "string",
                            parse_string_token(text, Here).string)
    <3> DEFINE next == parse_string_token(text, Here).next
    <3>1. next \in 2 .. Len(text) + 1 /\ next - 1 \in Nat /\ text[next - 1] = Quote
      BY <1>4, <1>5, <2>4 DEF Quote
    <3>2. Go("after", next) /\ \E e : parsed' = Push(parsed, e)
      BY <2>4 DEF PushElement
    <3> HIDE DEF next
    <3>3. text[Len(text)] = "}" => next <= Len(text)
      <4>1. next = Len(text) + 1 => next - 1 = Len(text)
        BY <1>2
      <4>2. next = Len(text) + 1 \/ next <= Len(text)
        BY <1>2, <3>1
      <4> QED
        BY <3>1, <4>1, <4>2 DEF Quote
    <3> QED
      BY <1>1, <3>1, <3>2, <3>3, GoKeeps DEF Parsing
  <2>5. CASE /\ At(text, Here) \notin {"NUL", Quote}
             /\ IF ParseOther(text, pos - 1, Here) = Outside THEN Return("outside")
                ELSE PushElement(ParseOther(text, pos - 1, Here).next, "number",
                                 ParseOther(text, pos - 1, Here).string)
    <3> DEFINE other == ParseOther(text, pos - 1, Here)
    <3>1. Here # 0 /\ pos - 1 \in 1..Len(text) /\ pos - 1 < Here /\ pos - 1 + 1 = pos
      BY <1>2, <1>5, <2>5
    <3>2. /\ other = Outside =>
                text[pos] \in White /\ pos - 1 + 2 <= Len(text) /\ text[Here] \in {",", "}"}
          /\ other # Outside =>
                /\ other.next \in Here .. Len(text) + 1
                /\ other.next = Len(text) + 1 => text[Len(text)] # "}"
      BY <1>2, <1>3, <2>1, <3>1, OtherFacts
    <3> HIDE DEF other
    <3>3. CASE other = Outside
      <4>1. Return("outside")
        BY <2>5, <3>3 DEF other
      <4>2. /\ pos - 1 \in 1 .. Len(text) - 2
            /\ text[pos - 1] = ":" /\ text[pos - 1 + 1] \in White
            /\ At(text, find_non_space(text, pos - 1 + 1)) \in {",", "}"}
        <5>1. pos - 1 \in 1 .. Len(text) - 2
          <6>1. ASSUME NEW p \in Nat, NEW n \in Nat, 2 <= p, p - 1 + 2 <= n
                PROVE  p - 1 \in 1 .. n - 2
            BY <6>1
          <6>2. pos - 1 + 2 <= Len(text)
            BY <3>2, <3>3
          <6> QED
            BY <1>2, <6>1, <6>2
        <5>2. text[Here] \in {",", "}"} /\ text[pos] \in White
          BY <3>2, <3>3
        <5> HIDE DEF White
        <5>3. At(text, Here) = text[Here] /\ Here = find_non_space(text, pos)
          BY <1>2, <3>1 DEF Here
        <5> QED
          BY <2>1, <3>1, <5>1, <5>2, <5>3
      <4>3. OutsideOnlyWhenUnclosed'
        BY <4>1, <4>2 DEF OutsideOnlyWhenUnclosed, Return, Go
      <4> QED
        BY <1>1, <4>1, <4>3, StopKeeps
    <3>4. CASE other # Outside
      <4>1. Go("after", other.next) /\ \E e : parsed' = Push(parsed, e)
        BY <2>5, <3>4 DEF other, PushElement
      <4>2. other.next \in 2 .. Len(text) + 1
        <5>1. ASSUME NEW h \in Nat, 2 <= h, NEW x \in h .. Len(text) + 1
              PROVE  x \in 2 .. Len(text) + 1
          BY <1>2, <5>1
        <5>2. Here \in Nat /\ 2 <= Here
          BY <1>2, <3>1
        <5> QED
          BY <3>2, <3>4, <5>1, <5>2
      <4>3. text[Len(text)] = "}" => other.next <= Len(text)
        <5>1. other.next = Len(text) + 1 \/ other.next <= Len(text)
          BY <1>2, <4>2
        <5> QED
          BY <3>2, <3>4, <5>1
      <4> QED
        BY <1>1, <4>1, <4>2, <4>3, GoKeeps DEF Parsing
    <3> QED
      BY <3>3, <3>4
  <2>6. \/ Here = 0 /\ Return("outside")
        \/ /\ At(text, Here) = Quote
           /\ CASE parse_string_token(text, Here) = Failed  -> Fail
                [] parse_string_token(text, Here) = Outside -> Return("outside")
                [] OTHER -> PushElement(parse_string_token(text, Here).next, "string",
                                        parse_string_token(text, Here).string)
        \/ /\ At(text, Here) \notin {"NUL", Quote}
           /\ IF ParseOther(text, pos - 1, Here) = Outside THEN Return("outside")
              ELSE PushElement(ParseOther(text, pos - 1, Here).next, "number",
                               ParseOther(text, pos - 1, Here).string)
    BY <1>8, Zenon DEF ParseValue
  <2>7. Failed # Outside
    BY DEF Failed, Outside
  <2> HIDE DEF Failed, Outside
  <2> QED
    BY <2>2, <2>3, <2>a, <2>4, <2>5, <2>6, <2>7, Zenon
<1>9. CASE ParseAfter
  <2>1. CASE Here = 0 /\ Return("outside")
    <3>1. pos <= Len(text) => text[Len(text)] \in White
      BY <1>2, <2>1
    <3>2. text[Len(text)] = "}" => pos <= Len(text)
      BY <1>9 DEF ParseAfter, PositionInv
    <3>3. Last(text) # "}"
      BY <3>1, <3>2 DEF Last, White
    <3>4. OutsideOnlyWhenUnclosed'
      BY <2>1, <3>3 DEF OutsideOnlyWhenUnclosed, Return, Go
    <3> QED
      BY <1>1, <2>1, <3>4, StopKeeps
  <2>2. CASE At(text, Here) = "," /\ Go("element", Here + 1) /\ UNCHANGED parsed
    <3>1. Here # 0
      BY <1>5, <2>2
    <3>2. Here + 1 \in 2 .. Len(text) + 1
      BY <1>2, <3>1
    <3> QED
      BY <1>1, <2>2, <3>2, GoKeeps DEF Parsing
  <2>3. CASE Return("object") \/ Fail
    BY <1>1, <2>3, StopKeeps
  <2> QED
    BY <1>9, <2>1, <2>2, <2>3 DEF ParseAfter
<1> QED
  BY <1>6, <1>7, <1>8, <1>9 DEF ParseStep

-----------------------------------------------------------------------------
(* The invariant *)

\* The containers are used in the ways that Containers knows, so that all that
\* was proved of them holds while texts are made and parsed.
THEOREM JsonUsesContainers == JsonSpec => ContainerSpec
<1>1. JsonInit => ContainerInit
  BY DEF JsonInit
<1>2. [JsonNext]_jsonVars => [ContainerNext]_containerVars
  BY DEF JsonNext, jsonVars, Build, Stringify, ReceiveBody, ReceiveText, Receive, ParseStep,
         ParseName, ParseColon, ParseValue, ParseAfter, Return, Fail, PushElement, Go
<1> QED
  BY <1>1, <1>2, PTL DEF JsonSpec, ContainerSpec

\* Building an object moves no parser, and what is received is a text.
LEMMA OthersKeep ==
    ASSUME ContainerInv, PositionInv, ParsedInv, OutsideOnlyWhenUnclosed,
           \/ Build
           \/ Stringify
           \/ \E pad \in Paddings : ReceiveBody(pad)
           \/ ReceiveText
           \/ UNCHANGED jsonVars
    PROVE  PositionInv' /\ OutsideOnlyWhenUnclosed' /\ ParsedInv'
<1>1. CASE Build \/ UNCHANGED jsonVars
  BY <1>1 DEF Build, jsonVars, parserVars, PositionInv, ParsedInv, OutsideOnlyWhenUnclosed
<1>2. ContainerTypeOK
  BY DEF ContainerInv
<1>3. CASE Stringify
  <2>1. CASE Receive(json_object_stringify(list.items), "whole")
    <3>1. json_object_stringify(list.items) \in Text
      BY <1>2, <1>3, RenderedType, SignsAreText DEF json_object_stringify, Stringify
    <3> QED
      BY <1>3, <2>1, <3>1, ReceiveKeeps DEF Stringify
  <2>2. CASE place' = "assert" /\ UNCHANGED <<text, source, pos, parsed>>
    <3>1. place = "building"
      BY <1>3 DEF Stringify
    <3>2. PositionInv'
      BY <2>2 DEF PositionInv, Parsing, Results
    <3>3. ParsedInv'
      BY <2>2, <3>1 DEF ParsedInv
    <3>4. OutsideOnlyWhenUnclosed'
      BY <2>2 DEF OutsideOnlyWhenUnclosed
    <3> QED
      BY <3>2, <3>3, <3>4
  <2> QED
    BY <1>3, <2>1, <2>2 DEF Stringify
<1>4. ASSUME NEW pad \in Paddings, ReceiveBody(pad)
      PROVE  PositionInv' /\ OutsideOnlyWhenUnclosed' /\ ParsedInv'
  <2>1. pad \in Text
    BY JsonAssumption, StringsAreText
  <2> DEFINE s == Rendered(list.items, pad)
  <2>2. s \in Text /\ place = "building"
    BY <1>2, <1>4, <2>1, RenderedType DEF ReceiveBody
  <2>3. PICK length \in 0..Len(s) :
            Receive(SubSeq(s, 1, length), IF length = Len(s) THEN "whole" ELSE "cut")
    BY <1>4 DEF ReceiveBody
  <2> HIDE DEF s
  <2>4. SubSeq(s, 1, length) \in Text
    <3>1. Len(s) \in Nat /\ s \in Seq(Chars)
      BY <2>2, Lengths
    <3> HIDE DEF Chars
    <3> QED
      BY <3>1 DEF Text
  <2> QED
    BY <2>2, <2>3, <2>4, ReceiveKeeps
<1>5. CASE ReceiveText
  <2>1. PICK t \in Texts : Receive(t, "given")
    BY <1>5 DEF ReceiveText
  <2>2. t \in Text
    BY JsonAssumption, StringsAreText
  <2> QED
    BY <1>5, <2>1, <2>2, ReceiveKeeps DEF ReceiveText
<1> QED
  BY <1>1, <1>3, <1>4, <1>5

\* The parser is in its text, or has left it where the text permits.
THEOREM JsonInvariance == JsonSpec => []JsonInv
<1>1. JsonInit => PositionInv /\ OutsideOnlyWhenUnclosed /\ ParsedInv
  <2> SUFFICES ASSUME JsonInit PROVE PositionInv /\ OutsideOnlyWhenUnclosed /\ ParsedInv
    OBVIOUS
  <2>1. /\ text = <<>> /\ source = "none" /\ pos = 1 /\ place = "building"
        /\ parsed = EmptyList(InitialCapacity)
    BY DEF JsonInit
  <2>2. InitialCapacity \in Nat /\ InitialCapacity # 0
    BY ContainersAssumption
  <2>3. PositionInv
    <3>1. text \in Text /\ Len(text) = 0
      BY <2>1, SignsAreText
    <3>2. pos \in 1 .. Len(text) + 2
      BY <2>1, <3>1
    <3>3. place \in {"building"} \cup Parsing \cup Results /\ place \notin Parsing
      BY <2>1 DEF Parsing
    <3> QED
      BY <2>1, <3>1, <3>2, <3>3 DEF PositionInv
  <2>4. ParsedInv
    BY <2>1, <2>2, EmptyListed DEF ParsedInv
  <2> QED
    BY <2>1, <2>3, <2>4 DEF OutsideOnlyWhenUnclosed
<1>2. ContainerInv /\ PositionInv /\ OutsideOnlyWhenUnclosed /\ ParsedInv /\ [JsonNext]_jsonVars
          => PositionInv' /\ OutsideOnlyWhenUnclosed' /\ ParsedInv'
  BY ParseKeeps, OthersKeep DEF JsonNext
<1> QED
  BY <1>1, <1>2, JsonUsesContainers, ContainerInvariance, PTL DEF JsonSpec, JsonInv

\* Every variable has its type, for every text.
THEOREM JsonTypeCorrect == JsonSpec => []JsonTypeOK
<1>1. JsonInv => JsonTypeOK
  BY DEF JsonInv, ContainerInv, PositionInv, ParsedInv, JsonTypeOK
<1> QED
  BY <1>1, JsonInvariance, PTL

\* The parser leaves no text that is closed, has all of its values, and no \u in
\* its last characters.
THEOREM InsideOfClosedTexts == JsonSpec => []OutsideOnlyWhenUnclosed
<1>1. JsonInv => OutsideOnlyWhenUnclosed
  BY DEF JsonInv
<1> QED
  BY <1>1, JsonInvariance, PTL

\* json_object_stringify writes as much as it has counted, for every object that
\* has an element: its assertion fails for an empty one only.
THEOREM CountedIsWritten == JsonSpec => []AssertOnlyWhenEmpty
<1>1. JsonInit => AssertOnlyWhenEmpty
  BY DEF JsonInit, AssertOnlyWhenEmpty
<1>2. JsonInv /\ AssertOnlyWhenEmpty /\ [JsonNext]_jsonVars => AssertOnlyWhenEmpty'
  <2> SUFFICES ASSUME JsonInv, AssertOnlyWhenEmpty, [JsonNext]_jsonVars
               PROVE  AssertOnlyWhenEmpty'
    OBVIOUS
  <2>1. CASE Build \/ UNCHANGED jsonVars
    BY <2>1 DEF Build, jsonVars, containerVars, parserVars, AssertOnlyWhenEmpty
  <2>2. ASSUME NEW t, NEW how, Receive(t, how) PROVE AssertOnlyWhenEmpty'
    <3>1. place' # "assert"
      BY <2>2 DEF Receive
    <3> QED
      BY <3>1 DEF AssertOnlyWhenEmpty
  <2>3. CASE Stringify
    <3>1. CASE list.items = <<>>
      BY <2>2, <2>3, <3>1 DEF Stringify, containerVars, AssertOnlyWhenEmpty
    <3>2. CASE list.items # <<>>
      <4>1. StringifiedLength(list.items) = Len(json_object_stringify(list.items))
        BY <2>3, <3>2, PassesAgree DEF JsonInv, ContainerInv, Stringify
      <4> QED
        BY <2>2, <2>3, <4>1 DEF Stringify
    <3> QED
      BY <3>1, <3>2
  <2>4. CASE ReceiveText \/ \E pad \in Paddings : ReceiveBody(pad)
    BY <2>2, <2>4 DEF ReceiveText, ReceiveBody
  <2>5. CASE ParseStep
    <3>1. place' # "assert"
      BY <2>5 DEF ParseStep, ParseName, ParseColon, ParseValue, ParseAfter, Return, Fail,
                  PushElement, Go
    <3> QED
      BY <3>1 DEF AssertOnlyWhenEmpty
  <2> QED
    BY <2>1, <2>3, <2>4, <2>5 DEF JsonNext
<1> QED
  BY <1>1, <1>2, JsonInvariance, PTL DEF JsonSpec

-----------------------------------------------------------------------------
(* What is written in quotes is read as it was *)

\* Every character of a text is written as one, or as two of which the first is a
\* backslash: at[k] is where that of the first k ends.
LEMMA EncodedReads ==
    ASSUME NEW s \in Text
    PROVE  LET E == Encoded(s)
           IN  \E at :
                 /\ at[0] = 0 /\ at[Len(s)] = Len(E)
                 /\ \A k \in 1..Len(s) :
                       /\ at[k - 1] \in Nat /\ at[k] \in Nat /\ at[k] <= Len(E)
                       /\ s[k] \in DOMAIN Escape =>
                             /\ at[k] = at[k - 1] + 2
                             /\ E[at[k - 1] + 1] = Backslash
                             /\ E[at[k - 1] + 2] = Escape[s[k]]
                       /\ s[k] \notin DOMAIN Escape =>
                             at[k] = at[k - 1] + 1 /\ E[at[k - 1] + 1] = s[k]
<1> DEFINE piece(i) == IF s[i] \in DOMAIN Escape THEN <<Backslash, Escape[s[i]]>> ELSE <<s[i]>>
           pieces == [i \in DOMAIN s |-> piece(i)]
           E == Encoded(s)
<1>1. Backslash \in Chars /\ \A c \in DOMAIN Escape : Escape[c] \in Chars
  BY DEF Escape, Chars
<1>2. DOMAIN s = 1..Len(s) /\ Len(s) \in Nat /\ \A i \in 1..Len(s) : s[i] \in Chars
  BY DEF Text
<1>3. \A i \in 1..Len(s) : piece(i) \in Text
  <2> HIDE DEF Chars
  <2> QED
    BY <1>1, <1>2 DEF Text
<1>4. pieces \in Seq(Text) /\ Len(pieces) = Len(s) /\ \A i \in 1..Len(s) : pieces[i] = piece(i)
  <2> HIDE DEF piece
  <2>1. pieces \in [1..Len(s) -> Text]
    BY <1>2, <1>3
  <2>2. \A i \in 1..Len(s) : pieces[i] = piece(i)
    BY <1>2
  <2> HIDE DEF pieces
  <2> QED
    BY <1>2, <2>1, <2>2
<1>5. E = FlattenSeq(pieces)
  BY DEF Encoded
<1>6. pieces \in Seq(Seq(Chars))
  BY <1>4 DEF Text
<1>7. PICK at : /\ at[0] = 0 /\ at[Len(s)] = Len(E)
                /\ \A k \in 1..Len(s) :
                      /\ at[k - 1] \in Nat /\ at[k] = at[k - 1] + Len(piece(k))
                      /\ at[k] \in Nat /\ at[k] <= Len(E)
                      /\ Agrees(E, at[k - 1] + 1, piece(k))
  <2> HIDE DEF pieces, E, piece
  <2>1. \E at : /\ at[0] = 0 /\ at[Len(pieces)] = Len(FlattenSeq(pieces))
                /\ \A k \in 1..Len(pieces) :
                      /\ at[k - 1] \in Nat /\ at[k] = at[k - 1] + Len(pieces[k])
                      /\ at[k] \in Nat /\ at[k] <= Len(FlattenSeq(pieces))
                      /\ Agrees(FlattenSeq(pieces), at[k - 1] + 1, pieces[k])
    BY <1>6, FlattenReads
  <2> QED
    BY <1>4, <1>5, <2>1, Zenon
<1> HIDE DEF E, pieces
<1>8. \A k \in 1..Len(s) : at[k - 1] \in Nat /\ at[k] \in Nat /\ at[k] <= Len(E)
  BY <1>7
<1>9. ASSUME NEW k \in 1..Len(s)
      PROVE  /\ s[k] \in DOMAIN Escape =>
                   /\ at[k] = at[k - 1] + 2
                   /\ E[at[k - 1] + 1] = Backslash
                   /\ E[at[k - 1] + 2] = Escape[s[k]]
             /\ s[k] \notin DOMAIN Escape =>
                   at[k] = at[k - 1] + 1 /\ E[at[k - 1] + 1] = s[k]
  <2>1. PICK x \in Nat : x = at[k - 1]
    BY <1>8
  <2>2. at[k] = x + Len(piece(k)) /\ at[k] <= Len(E) /\ at[k] \in Nat
    BY <1>7, <1>8, <2>1
  <2>3. \A j \in 1..Len(piece(k)) : (x + 1) - 1 + j <= Len(E) => E[(x + 1) - 1 + j] = piece(k)[j]
    <3> HIDE DEF piece
    <3> QED
      BY <1>7, <2>1 DEF Agrees
  <2>4. \A j \in Nat : (x + 1) - 1 + j = x + j
    OBVIOUS
  <2>5. ASSUME NEW j \in 1..Len(piece(k)) PROVE E[x + j] = piece(k)[j]
    <3>1. Len(piece(k)) \in Nat
      OBVIOUS
    <3>2. Len(E) \in Nat
      BY <1>2, <1>7, <1>8
    <3> HIDE DEF piece
    <3>3. (x + 1) - 1 + j <= Len(E)
      BY <2>2, <3>1, <3>2
    <3>4. j \in Nat
      BY <3>1
    <3> QED
      BY <2>3, <2>4, <3>3, <3>4
  <2>6. CASE s[k] \in DOMAIN Escape
    <3>1. piece(k) = <<Backslash, Escape[s[k]]>>
      BY <2>6
    <3> HIDE DEF piece
    <3>2. Len(piece(k)) = 2 /\ piece(k)[1] = Backslash /\ piece(k)[2] = Escape[s[k]]
      BY <3>1
    <3>3. 1 \in 1..Len(piece(k)) /\ 2 \in 1..Len(piece(k))
      BY <3>2
    <3> QED
      BY <2>1, <2>2, <2>5, <2>6, <3>2, <3>3
  <2>7. CASE s[k] \notin DOMAIN Escape
    <3>1. piece(k) = <<s[k]>>
      BY <2>7
    <3> HIDE DEF piece
    <3>2. Len(piece(k)) = 1 /\ piece(k)[1] = s[k]
      BY <3>1
    <3>3. 1 \in 1..Len(piece(k))
      BY <3>2
    <3> QED
      BY <2>1, <2>2, <2>5, <2>7, <3>2, <3>3
  <2> QED
    BY <2>6, <2>7
<1> QED
  BY <1>7, <1>8, <1>9 DEF E

\* What is escaped begins with a backslash; only a backslash ends with one.
LEMMA EscapeFacts ==
    /\ Quote \in DOMAIN Escape /\ Backslash \in DOMAIN Escape /\ Quote # Backslash
    /\ \A c \in DOMAIN Escape : Escape[c] = Backslash => c = Backslash
  BY DEF Escape, Quote, Backslash

\* A text in quotes ends at the first quote without a backslash in front of it.
LEMMA QuotedEnds ==
    ASSUME NEW s \in Text, Clean(s)
    PROVE  LET Q == Quoted(s)
           IN  /\ Q \in Text /\ Encoded(s) \in Text
               /\ Len(Encoded(s)) \in Nat /\ Len(Q) = Len(Encoded(s)) + 2 /\ Q[1] = Quote
               /\ \A j \in 1..Len(Encoded(s)) : Q[1 + j] = Encoded(s)[j]
               /\ Q[Len(Q)] = Quote /\ Q[Len(Q) - 1] # Backslash
               /\ \A i \in 2 .. Len(Q) - 1 : Q[i] = Quote => Q[i - 1] = Backslash
<1> DEFINE E == Encoded(s)
           Q == Quoted(s)
<1>1. E \in Text /\ Len(E) \in Nat /\ Len(s) \in Nat
  BY EncodedLength, Lengths
<1>2. /\ Q \in Text /\ Len(Q) = Len(E) + 2 /\ Q[1] = Quote /\ Q[Len(Q)] = Quote
      /\ \A j \in 1..Len(E) : Q[1 + j] = E[j]
  <2> HIDE DEF E
  <2>1. Q = <<Quote>> \o E \o <<Quote>>
    BY DEF Quoted, E
  <2>2. E \in Seq(Chars) /\ Quote \in Chars
    BY <1>1 DEF Text, Chars
  <2> HIDE DEF Chars, Q
  <2>3. Q \in Seq(Chars) /\ Len(Q) = Len(E) + 2 /\ Q[1] = Quote /\ Q[Len(E) + 2] = Quote
    BY <1>1, <2>1, <2>2
  <2>4. \A j \in 1..Len(E) : Q[1 + j] = E[j]
    BY <1>1, <2>1, <2>2
  <2> QED
    BY <2>3, <2>4 DEF Text
<1>3. PICK at : /\ at[0] = 0 /\ at[Len(s)] = Len(E)
                /\ \A k \in 1..Len(s) :
                      /\ at[k - 1] \in Nat /\ at[k] \in Nat /\ at[k] <= Len(E)
                      /\ s[k] \in DOMAIN Escape =>
                            /\ at[k] = at[k - 1] + 2
                            /\ E[at[k - 1] + 1] = Backslash
                            /\ E[at[k - 1] + 2] = Escape[s[k]]
                      /\ s[k] \notin DOMAIN Escape =>
                            at[k] = at[k - 1] + 1 /\ E[at[k - 1] + 1] = s[k]
  BY EncodedReads
<1> HIDE DEF E, Q
<1>4. ASSUME NEW j \in 1..Len(E), E[j] = Quote
      PROVE  j # 1 /\ E[j - 1] = Backslash
  <2>1. PICK k \in 1..Len(s) : at[k - 1] < j /\ j <= at[k]
    <3>1. j \in Nat \ {0} /\ j <= at[Len(s)]
      BY <1>1, <1>3
    <3>2. \A k \in 1..Len(s) : at[k] \in Nat
      BY <1>3
    <3> QED
      BY <1>1, <1>3, <3>1, <3>2, Passed
  <2>2. PICK x \in Nat : x = at[k - 1]
    BY <1>3
  <2>3. s[k] \in DOMAIN Escape
    <3> SUFFICES ASSUME s[k] \notin DOMAIN Escape PROVE FALSE
      OBVIOUS
    <3>1. at[k] = x + 1 /\ E[x + 1] = s[k]
      BY <1>3, <2>2
    <3>2. j = x + 1
      BY <1>1, <2>1, <2>2, <3>1
    <3> QED
      BY <1>4, <3>1, <3>2, EscapeFacts
  <2>4. at[k] = x + 2 /\ E[x + 1] = Backslash /\ E[x + 2] = Escape[s[k]]
    BY <1>3, <2>2, <2>3
  <2>5. j = x + 1 \/ j = x + 2
    BY <1>1, <2>1, <2>2, <2>4
  <2>6. j # x + 1
    BY <1>4, <2>4, EscapeFacts
  <2>7. j # 1 /\ j - 1 = x + 1
    BY <2>5, <2>6
  <2> QED
    BY <2>4, <2>7
<1>5. Len(E) # 0 => E[Len(E)] # Backslash
  <2> SUFFICES ASSUME Len(E) # 0 PROVE E[Len(E)] # Backslash
    OBVIOUS
  <2>1. Len(s) # 0
    BY <1>3
  <2>2. PICK n \in Nat : n = Len(s) /\ n # 0
    BY <1>1, <2>1
  <2>3. s[n] # Backslash
    <3>1. s # <<>> /\ Last(s) = s[n]
      BY <2>2 DEF Last
    <3> QED
      BY <3>1 DEF Clean
  <2>4. n \in 1..Len(s)
    BY <2>2
  <2>5. CASE s[n] \in DOMAIN Escape
    <3>1. E[Len(E)] = Escape[s[n]]
      BY <1>3, <2>2, <2>4, <2>5
    <3> QED
      BY <2>3, <2>5, <3>1, EscapeFacts
  <2>6. CASE s[n] \notin DOMAIN Escape
    <3>1. E[Len(E)] = s[n]
      BY <1>3, <2>2, <2>4, <2>6
    <3> QED
      BY <2>3, <3>1
  <2> QED
    BY <2>5, <2>6
<1>6. Q[Len(Q) - 1] # Backslash
  <2>1. CASE Len(E) = 0
    <3>1. Len(Q) - 1 = 1
      BY <1>2, <2>1
    <3> QED
      BY <1>2, <3>1, EscapeFacts
  <2>2. CASE Len(E) # 0
    <3>1. Len(Q) - 1 = 1 + Len(E) /\ Len(E) \in 1..Len(E)
      BY <1>1, <1>2, <2>2
    <3> QED
      BY <1>2, <1>5, <2>2, <3>1
  <2> QED
    BY <2>1, <2>2
<1>7. ASSUME NEW i \in 2 .. Len(Q) - 1, Q[i] = Quote PROVE Q[i - 1] = Backslash
  <2>1. PICK n \in Nat : n = Len(E)
    BY <1>1
  <2>2. i \in 2 .. n + 1
    BY <1>2, <2>1
  <2>3. PICK j \in 1..n : i = 1 + j
    <3>1. i - 1 \in 1..n /\ i = 1 + (i - 1)
      BY <2>2
    <3> QED
      BY <3>1
  <2>4. E[j] = Quote
    BY <1>2, <1>7, <2>1, <2>3
  <2>5. j # 1 /\ E[j - 1] = Backslash
    BY <1>4, <2>1, <2>4
  <2>6. j - 1 \in 1..n /\ i - 1 = 1 + (j - 1)
    BY <2>3, <2>5
  <2> QED
    BY <1>2, <2>1, <2>5, <2>6
<1> QED
  BY <1>1, <1>2, <1>6, <1>7 DEF E, Q

\* ClosingQuote finds it, if the text goes that far.
LEMMA ClosingIs ==
    ASSUME NEW t \in Text, NEW s \in Text, Clean(s), NEW p \in 1..Len(t),
           Agrees(t, p, Quoted(s))
    PROVE  LET q == p - 1 + Len(Quoted(s))
           IN  ClosingQuote(t, p) = IF q <= Len(t) THEN q ELSE 0
<1> DEFINE Q == Quoted(s)
           q == p - 1 + Len(Q)
           ends == {j \in p + 1 .. Len(t) : t[j] = Quote /\ t[j - 1] # Backslash}
<1>1. /\ Len(Q) \in Nat /\ Len(Q) >= 2 /\ Q[Len(Q)] = Quote /\ Q[Len(Q) - 1] # Backslash
      /\ \A i \in 2 .. Len(Q) - 1 : Q[i] = Quote => Q[i - 1] = Backslash
  <2>1. Len(Encoded(s)) \in Nat /\ Len(Q) = Len(Encoded(s)) + 2
    BY QuotedEnds
  <2>2. Len(Q) \in Nat /\ Len(Q) >= 2
    BY <2>1
  <2> QED
    BY <2>2, QuotedEnds
<1>2. Len(t) \in Nat /\ p \in Nat \ {0} /\ p <= Len(t)
  <2>1. Len(t) \in Nat
    BY Lengths
  <2> QED
    BY <2>1
<1> HIDE DEF Q
<1>3. ClosingQuote(t, p) = IF ends = {} THEN 0 ELSE Min(ends)
  BY DEF ClosingQuote
<1>4. ends \in SUBSET Nat
  BY <1>2
<1>5. ASSUME NEW i \in 1..Len(Q), p - 1 + i <= Len(t) PROVE t[p - 1 + i] = Q[i]
  BY <1>5 DEF Agrees, Q
<1>6. ASSUME NEW j \in ends PROVE q <= j
  <2> SUFFICES ASSUME ~(q <= j) PROVE FALSE
    OBVIOUS
  <2>1. j \in p + 1 .. Len(t) /\ t[j] = Quote /\ t[j - 1] # Backslash
    OBVIOUS
  <2>2. PICK i \in Nat : j = p - 1 + i /\ i \in 2 .. Len(Q) - 1
    <3>1. j - p + 1 \in Nat /\ j = p - 1 + (j - p + 1) /\ j - p + 1 \in 2 .. Len(Q) - 1
      BY <1>1, <1>2, <2>1
    <3> QED
      BY <3>1
  <2>3. i \in 1..Len(Q) /\ i - 1 \in 1..Len(Q) /\ j - 1 = p - 1 + (i - 1)
        /\ p - 1 + i <= Len(t) /\ p - 1 + (i - 1) <= Len(t)
    BY <1>1, <1>2, <2>1, <2>2
  <2>4. Q[i] = Quote /\ Q[i - 1] # Backslash
    BY <1>5, <2>1, <2>2, <2>3
  <2> QED
    BY <1>1, <2>2, <2>4
<1>7. CASE q <= Len(t)
  <2>1. q \in Nat /\ q \in p + 1 .. Len(t) /\ q - 1 = p - 1 + (Len(Q) - 1)
        /\ Len(Q) \in 1..Len(Q) /\ Len(Q) - 1 \in 1..Len(Q) /\ p - 1 + (Len(Q) - 1) <= Len(t)
    BY <1>1, <1>2, <1>7
  <2>2. t[q] = Quote /\ t[q - 1] # Backslash
    <3>1. t[p - 1 + Len(Q)] = Q[Len(Q)] /\ t[p - 1 + (Len(Q) - 1)] = Q[Len(Q) - 1]
      BY <1>5, <1>7, <2>1
    <3> QED
      BY <1>1, <2>1, <3>1
  <2>3. q \in ends
    BY <2>1, <2>2
  <2>4. Min(ends) = q
    <3> HIDE DEF ends, q
    <3> QED
      BY <1>4, <1>6, <2>3, MinIs
  <2>5. ends # {}
    BY <2>3
  <2> HIDE DEF ends, q
  <2>6. ClosingQuote(t, p) = q
    BY <1>3, <2>4, <2>5
  <2> QED
    BY <1>7, <2>6 DEF q, Q
<1>8. CASE ~(q <= Len(t))
  <2>1. ends = {}
    <3> SUFFICES ASSUME NEW j \in ends PROVE FALSE
      OBVIOUS
    <3>1. j \in p + 1 .. Len(t) /\ q <= j
      BY <1>6
    <3>2. q \in Nat
      BY <1>1, <1>2
    <3> HIDE DEF q
    <3> QED
      BY <1>2, <1>8, <3>1, <3>2
  <2> HIDE DEF ends, q
  <2>2. ClosingQuote(t, p) = 0
    BY <1>3, <2>1
  <2> QED
    BY <1>8, <2>2 DEF q, Q
<1> QED
  BY <1>7, <1>8

\* What follows the backslash tells which character was escaped.
LEMMA UnescapeFacts ==
    ASSUME NEW c \in DOMAIN Escape
    PROVE  Escape[c] \in DOMAIN Unescape /\ Unescape[Escape[c]] = c /\ Escape[c] # "u"
<1>1. Escape[c] \in Range(Escape) /\ DOMAIN Unescape = Range(Escape)
  BY DEF Range, Unescape
<1>2. \A d \in DOMAIN Escape : Escape[d] = Escape[c] => d = c
  BY DEF Escape, Quote, Backslash
<1>3. Unescape[Escape[c]] = CHOOSE d \in DOMAIN Escape : Escape[d] = Escape[c]
  BY <1>1 DEF Unescape
<1>4. (CHOOSE d \in DOMAIN Escape : Escape[d] = Escape[c]) = c
  <2> HIDE DEF Escape
  <2> QED
    BY <1>2
<1>5. Escape[c] # "u"
  BY DEF Escape, Quote, Backslash
<1> QED
  BY <1>1, <1>3, <1>4, <1>5

\* A text in quotes is read as what it was before, or refused if it was cut off.
LEMMA TokenIs ==
    ASSUME NEW t \in Text, NEW s \in Text, Clean(s), NEW p \in 1..Len(t), Agrees(t, p, Quoted(s))
    PROVE  parse_string_token(t, p) =
              IF p - 1 + Len(Quoted(s)) <= Len(t)
              THEN [next |-> p + Len(Quoted(s)), string |-> s]
              ELSE Failed
<1> DEFINE E == Encoded(s)
           Q == Quoted(s)
           q == p - 1 + Len(Q)
<1>1. /\ E \in Text /\ Len(E) \in Nat /\ Len(Q) = Len(E) + 2 /\ Q[1] = Quote
      /\ \A j \in 1..Len(E) : Q[1 + j] = E[j]
  BY QuotedEnds
<1>2. Len(t) \in Nat /\ p \in Nat \ {0} /\ Len(s) \in Nat /\ p <= Len(t)
  <2>1. Len(t) \in Nat /\ Len(s) \in Nat
    BY Lengths
  <2> QED
    BY <2>1
<1>3. ClosingQuote(t, p) = IF q <= Len(t) THEN q ELSE 0
  BY ClosingIs
<1>4. CASE ~(q <= Len(t))
  <2>1. ClosingQuote(t, p) = 0
    BY <1>3, <1>4
  <2>2. parse_string_token(t, p) = Failed
    BY <2>1 DEF parse_string_token
  <2> QED
    BY <1>4, <2>2
<1>5. CASE q <= Len(t)
  <2>1. q = ClosingQuote(t, p) /\ q \in Nat /\ q = p + Len(E) + 1 /\ p <= q /\ q # 0
    BY <1>1, <1>2, <1>3, <1>5
  <2>2. ASSUME NEW j \in 1..Len(Q) PROVE t[p - 1 + j] = Q[j]
    <3>1. p - 1 + j <= Len(t)
      BY <1>1, <1>2, <1>5
    <3> QED
      BY <3>1 DEF Agrees
  <2>3. t[p] = Quote
    <3>1. 1 \in 1..Len(Q) /\ p - 1 + 1 = p
      BY <1>1, <1>2
    <3> QED
      BY <1>1, <2>2, <3>1
  <2>4. ASSUME NEW j \in 1..Len(E) PROVE t[p + j] = E[j]
    <3>1. 1 + j \in 1..Len(Q) /\ p - 1 + (1 + j) = p + j
      BY <1>1, <1>2
    <3> QED
      BY <1>1, <2>2, <3>1
  <2>5. PICK decoded :
           /\ \A i \in p .. q + 6 : decoded[i] = Turn(t, q, decoded, i)
           /\ parse_string_token(t, p) =
                 IF t[p] # Quote \/ Contains(decoded[p + 1], Invalid) THEN Failed
                 ELSE IF Contains(decoded[p + 1], Beyond) THEN Outside
                 ELSE [next |-> q + 1, string |-> decoded[p + 1]]
    <3> HIDE DEF q
    <3>1. p \in Nat /\ q \in Nat /\ q = ClosingQuote(t, p) /\ p <= q /\ q # 0
      BY <1>2, <2>1
    <3>2. \A x, y \in Nat : y = ClosingQuote(t, x) /\ x <= y /\ y # 0 =>
             \E decoded :
                /\ \A i \in x .. y + 6 : decoded[i] = Turn(t, y, decoded, i)
                /\ parse_string_token(t, x) =
                      IF t[x] # Quote \/ Contains(decoded[x + 1], Invalid) THEN Failed
                      ELSE IF Contains(decoded[x + 1], Beyond) THEN Outside
                      ELSE [next |-> y + 1, string |-> decoded[x + 1]]
      BY TokenDecodes
    <3> QED
      BY <3>1, <3>2, Zenon
  <2>6. PICK at : /\ at[0] = 0 /\ at[Len(s)] = Len(E)
                  /\ \A k \in 1..Len(s) :
                        /\ at[k - 1] \in Nat /\ at[k] \in Nat /\ at[k] <= Len(E)
                        /\ s[k] \in DOMAIN Escape =>
                              /\ at[k] = at[k - 1] + 2
                              /\ E[at[k - 1] + 1] = Backslash
                              /\ E[at[k - 1] + 2] = Escape[s[k]]
                        /\ s[k] \notin DOMAIN Escape =>
                              at[k] = at[k - 1] + 1 /\ E[at[k - 1] + 1] = s[k]
    BY EncodedReads
  <2> HIDE DEF E, Q, q
  <2> DEFINE Rest(k) == SubSeq(s, k + 1, Len(s))
             Bad == {m \in Nat : m <= Len(s) /\ decoded[p + 1 + at[Len(s) - m]] # Rest(Len(s) - m)}
  <2>7. decoded[p + 1 + Len(E)] = <<>>
    <3>1. p + 1 + Len(E) \in p .. q + 6 /\ p + 1 + Len(E) >= q
      BY <1>1, <1>2, <2>1
    <3>2. decoded[p + 1 + Len(E)] = Turn(t, q, decoded, p + 1 + Len(E))
      BY <2>5, <3>1
    <3> QED
      BY <3>1, <3>2, Zenon DEF Turn
  <2>8. ASSUME NEW k \in 1..Len(s), decoded[p + 1 + at[k]] = Rest(k)
        PROVE  decoded[p + 1 + at[k - 1]] = Rest(k - 1)
    <3>1. PICK x \in Nat : x = at[k - 1]
      BY <2>6
    <3>2. PICK l \in Nat : l = Len(E)
      BY <1>1
    <3> DEFINE i == p + 1 + x
    <3>3. Rest(k - 1) = <<s[k]>> \o Rest(k)
      <4>1. k - 1 + 1 = k /\ Len(s) \in k .. Len(s) /\ k \in 1..Len(s) /\ Len(s) \in Int /\ k \in Int
        BY <1>2
      <4>2. s \in Seq(Chars)
        BY Lengths
      <4>3. SubSeq(s, k, Len(s)) = <<s[k]>> \o SubSeq(s, k + 1, Len(s))
        <5> HIDE DEF Chars
        <5> QED
          BY <4>1, <4>2, SubSeqRecursiveFirst
      <4> QED
        BY <4>1, <4>3
    <3> HIDE DEF Rest
    <3>4. CASE s[k] \in DOMAIN Escape
      <4>1. at[k] = x + 2 /\ E[x + 1] = Backslash /\ E[x + 2] = Escape[s[k]] /\ x + 2 <= l
        BY <2>6, <3>1, <3>2, <3>4
      <4>2. i \in p .. q + 6 /\ ~(i >= q) /\ x + 1 \in 1..l /\ x + 2 \in 1..l
            /\ p + (x + 1) = i /\ p + (x + 2) = i + 1 /\ p + 1 + (x + 2) = i + 2
        BY <1>2, <2>1, <3>2, <4>1
      <4>3. t[i] = Backslash /\ t[i + 1] = Escape[s[k]]
        BY <2>4, <3>2, <4>1, <4>2
      <4>4. decoded[i] = Turn(t, q, decoded, i) /\ decoded[i + 2] = Rest(k)
        BY <2>5, <2>8, <4>1, <4>2
      <4>5. Escape[s[k]] \in DOMAIN Unescape /\ Unescape[Escape[s[k]]] = s[k] /\ Escape[s[k]] # "u"
        BY <3>4, UnescapeFacts
      <4> HIDE DEF i
      <4>6. Turn(t, q, decoded, i) = <<s[k]>> \o decoded[i + 2]
        BY <4>2, <4>3, <4>5, Zenon DEF Turn
      <4>7. decoded[i] = Rest(k - 1)
        BY <3>3, <4>4, <4>6, Zenon
      <4> QED
        BY <3>1, <4>7, Zenon DEF i
    <3>5. CASE s[k] \notin DOMAIN Escape
      <4>1. at[k] = x + 1 /\ E[x + 1] = s[k] /\ x + 1 <= l
        BY <2>6, <3>1, <3>2, <3>5
      <4>2. i \in p .. q + 6 /\ ~(i >= q) /\ x + 1 \in 1..l
            /\ p + (x + 1) = i /\ p + 1 + (x + 1) = i + 1
        <5>1. ASSUME NEW a \in Nat, NEW b \in Nat, NEW c \in Nat, x + 1 <= b, c = a + b + 1
              PROVE  /\ a + 1 + x \in a .. c + 6 /\ ~(a + 1 + x >= c) /\ x + 1 \in 1..b
                     /\ a + (x + 1) = a + 1 + x /\ a + 1 + (x + 1) = a + 1 + x + 1
          BY <5>1
        <5>2. p \in Nat /\ q \in Nat /\ q = p + l + 1
          BY <1>2, <2>1, <3>2
        <5> QED
          BY <4>1, <5>1, <5>2
      <4>3. t[i] = s[k] /\ s[k] # Backslash
        BY <2>4, <3>2, <3>5, <4>1, <4>2, EscapeFacts
      <4>4. decoded[i] = Turn(t, q, decoded, i) /\ decoded[i + 1] = Rest(k)
        BY <2>5, <2>8, <4>1, <4>2
      <4> HIDE DEF i
      <4>6. Turn(t, q, decoded, i) = <<s[k]>> \o decoded[i + 1]
        BY <4>2, <4>3, Zenon DEF Turn
      <4>7. decoded[i] = Rest(k - 1)
        BY <3>3, <4>4, <4>6, Zenon
      <4> QED
        BY <3>1, <4>7, Zenon DEF i
    <3> QED
      BY <3>4, <3>5
  <2>9. Bad = {}
    <3> SUFFICES ASSUME Bad # {} PROVE FALSE
      OBVIOUS
    <3>1. PICK m \in Bad : m - 1 \notin Bad
      <4>1. Bad \subseteq Nat
        <5> HIDE DEF Rest
        <5> QED
          OBVIOUS
      <4> HIDE DEF Bad
      <4> QED
        BY <4>1, FirstOf
    <3>2. m \in Nat /\ m <= Len(s) /\ decoded[p + 1 + at[Len(s) - m]] # Rest(Len(s) - m)
      <4> HIDE DEF Rest
      <4> QED
        BY <3>1
    <3>3. m # 0
      <4> SUFFICES ASSUME m = 0 PROVE FALSE
        OBVIOUS
      <4>1. Len(s) - m = Len(s)
        BY <1>2
      <4>2. Rest(Len(s)) = <<>>
        <5>1. s \in Seq(Chars) /\ Len(s) \in Int /\ Len(s) + 1 \in Int /\ Len(s) < Len(s) + 1
          BY <1>2, Lengths
        <5> HIDE DEF Chars
        <5> QED
          BY <5>1, SubSeqEmpty
      <4> HIDE DEF Rest
      <4> QED
        BY <2>6, <2>7, <3>2, <4>1, <4>2
    <3>4. m - 1 \in Nat /\ m - 1 <= Len(s) /\ Len(s) - (m - 1) \in 1..Len(s)
          /\ Len(s) - (m - 1) - 1 = Len(s) - m
      BY <1>2, <3>2, <3>3
    <3>5. decoded[p + 1 + at[Len(s) - (m - 1)]] = Rest(Len(s) - (m - 1))
      <4> HIDE DEF Rest
      <4> QED
        BY <3>1, <3>4
    <3>6. decoded[p + 1 + at[Len(s) - (m - 1) - 1]] = Rest(Len(s) - (m - 1) - 1)
      <4> HIDE DEF Rest
      <4> QED
        BY <2>8, <3>4, <3>5, Zenon
    <3> HIDE DEF Rest
    <3> QED
      BY <3>2, <3>4, <3>6
  <2>10. decoded[p + 1] = s
    <3>0. Len(s) \notin Bad
      <4> HIDE DEF Bad
      <4> QED
        BY <2>9
    <3>1. Len(s) - Len(s) = 0 /\ Len(s) <= Len(s)
      BY <1>2
    <3>2. decoded[p + 1 + at[Len(s) - Len(s)]] = Rest(Len(s) - Len(s))
      <4> HIDE DEF Rest
      <4> QED
        BY <1>2, <3>0, <3>1
    <3>3. p + 1 + 0 = p + 1 /\ 0 + 1 = 1
      BY <1>2
    <3>4. SubSeq(s, 1, Len(s)) = s
      BY Lengths, SubSeqFull
    <3>5. decoded[p + 1 + 0] = SubSeq(s, 0 + 1, Len(s))
      BY <2>6, <3>1, <3>2
    <3> QED
      BY <3>3, <3>4, <3>5
  <2>11. ~Contains(s, Invalid) /\ ~Contains(s, Beyond)
    <3>1. \A j \in 1..Len(s) : s[j] \in Chars
      BY Lengths
    <3> QED
      BY <3>1, NoSuchCharacter, Zenon DEF Contains
  <2>12. parse_string_token(t, p) = [next |-> q + 1, string |-> s]
    BY <2>3, <2>5, <2>10, <2>11, Zenon
  <2>13. q + 1 = p + Len(Q)
    <3>1. PICK n \in Nat : n = Len(Q)
      BY <1>1
    <3>2. p - 1 + n + 1 = p + n
      BY <1>2
    <3> QED
      BY <3>1, <3>2 DEF q
  <2> QED
    BY <1>5, <2>12, <2>13 DEF q, Q
<1> QED
  BY <1>4, <1>5

-----------------------------------------------------------------------------
(* Tokens of a text that was written, or of its beginning *)

\* From i on there is nothing but white space in front of j, as far as the text goes.
Blank(t, i, j) == i <= j /\ \A k \in i .. j - 1 : k <= Len(t) => t[k] \in White
\* There is a sign at i, unless the text was cut off in front of it.
Sign(t, i, c) == i <= Len(t) => t[i] = c
\* A value that is no string goes up to one of these.
Stop(c) == c \in {",", "}"}

\* Where the next token is.
LEMMA NextIs ==
    ASSUME NEW t \in Text, NEW i \in Nat \ {0}, NEW j \in Nat, Blank(t, i, j),
           j <= Len(t) => t[j] \notin White
    PROVE  find_non_space(t, i) = IF j <= Len(t) THEN j ELSE 0
<1>1. Len(t) \in Nat /\ t \in Seq(Chars)
  BY Lengths
<1>2. i <= j /\ \A k \in i .. j - 1 : k <= Len(t) => t[k] \in White
  BY DEF Blank
<1> HIDE DEF White, Chars
<1>3. CASE j <= Len(t)
  <2>1. j \in i..Len(t) /\ \A k \in i .. j - 1 : t[k] \in White
    <3>1. \A k \in i .. j - 1 : k <= Len(t)
      BY <1>1, <1>3
    <3> QED
      BY <1>1, <1>2, <1>3, <3>1
  <2>2. find_non_space(t, i) = j
    BY <1>1, <1>3, <2>1, SpaceIs
  <2> QED
    BY <1>3, <2>2
<1>4. CASE ~(j <= Len(t))
  <2>1. \A k \in i..Len(t) : t[k] \in White
    <3>1. \A k \in i..Len(t) : k \in i .. j - 1 /\ k <= Len(t)
      BY <1>1, <1>4
    <3> QED
      BY <1>2, <3>1
  <2>2. PICK f : f = find_non_space(t, i)
    OBVIOUS
  <2>3. f # 0 => f \in i..Len(t) /\ t[f] \notin White
    BY <1>1, <2>2, SpaceFacts
  <2>4. f = 0
    BY <2>1, <2>3
  <2> QED
    BY <1>4, <2>2, <2>4
<1> QED
  BY <1>3, <1>4

\* A number is read as it is, with the blanks behind it; if it was cut off nothing
\* is left of the text.
LEMMA OtherIs ==
    ASSUME NEW t \in Text, NEW s \in Text, Plain(s),
           NEW c \in Nat, NEW v \in 1..Len(t), c < v, Agrees(t, v, s),
           NEW u \in Nat, Blank(t, v + Len(s), u), u <= Len(t) => Stop(t[u])
    PROVE  /\ u <= Len(t) => ParseOther(t, c, v) = [next |-> u, string |-> s]
           /\ ~(u <= Len(t)) => ParseOther(t, c, v) = Outside
                                \/ ParseOther(t, c, v).next = Len(t) + 1
<1> DEFINE ends == {k \in v..Len(t) : Stop(t[k])}
           end == IF ends # {} THEN Min(ends) ELSE 0
           e == IF end = 0 THEN Len(t) + 1 ELSE end
           last == LastNonSpace(t, c, e - 1)
<1>a. t \in Seq(Chars) /\ s \in Seq(Chars)
  BY Lengths
<1>1. Len(t) \in Nat /\ Len(s) \in Nat /\ v \in Nat \ {0} /\ v <= Len(t)
  <2>1. Len(t) \in Nat /\ Len(s) \in Nat
    BY Lengths
  <2> QED
    BY <2>1
<1>2. Len(s) # 0
  <2>1. s # <<>>
    BY Zenon DEF Plain
  <2> HIDE DEF Chars
  <2> QED
    BY <1>a, <2>1
<1>3. v + Len(s) <= u /\ \A k \in v + Len(s) .. u - 1 : k <= Len(t) => t[k] \in White
  BY DEF Blank
<1>4. ASSUME NEW i \in 1..Len(s), v - 1 + i <= Len(t)
      PROVE  t[v - 1 + i] = s[i] /\ s[i] \notin White /\ ~Stop(s[i])
  <2>1. s[i] \notin White \cup {",", "}", Quote, "NUL"}
    BY DEF Plain
  <2>2. t[v - 1 + i] = s[i]
    BY <1>4 DEF Agrees
  <2>3. s[i] \notin White /\ ~Stop(s[i])
    BY <2>1, Zenon DEF Stop
  <2> QED
    BY <2>2, <2>3
<1>5. ASSUME NEW k \in v .. u - 1, k <= Len(t) PROVE ~Stop(t[k])
  <2>1. CASE k \in v + Len(s) .. u - 1
    <3>1. t[k] \in White
      BY <1>3, <1>5, <2>1
    <3>2. \A d \in White : ~Stop(d)
      BY DEF White, Stop
    <3> QED
      BY <3>1, <3>2
  <2>2. CASE ~(k \in v + Len(s) .. u - 1)
    <3>1. PICK i \in 1..Len(s) : k = v - 1 + i
      <4>1. k - v + 1 \in 1..Len(s) /\ k = v - 1 + (k - v + 1)
        BY <1>1, <2>2
      <4> QED
        BY <4>1
    <3> QED
      BY <1>4, <1>5, <3>1
  <2> QED
    BY <2>1, <2>2
<1>6. ParseOther(t, c, v) = IF last < v - 1 THEN Outside
                            ELSE [next |-> e, string |-> SubSeq(t, v, last)]
  BY DEF ParseOther, SelectInSubSeq, Stop
<1> HIDE DEF White, last
<1>7. ASSUME u <= Len(t) PROVE ParseOther(t, c, v) = [next |-> u, string |-> s]
  <2>1. e = u
    <3>1. u \in ends
      <4>1. u \in v..Len(t)
        BY <1>1, <1>3, <1>7
      <4>2. Stop(t[u])
        BY <1>7
      <4> QED
        BY <4>1, <4>2
    <3>2. ends \in SUBSET Nat
      BY <1>1
    <3>3. ASSUME NEW k \in ends PROVE u <= k
      <4>1. k \in v..Len(t) /\ Stop(t[k])
        OBVIOUS
      <4>2. k \notin v .. u - 1
        <5> QED
          BY <1>1, <1>5, <4>1
      <4> QED
        BY <1>1, <4>1, <4>2
    <3>4. Min(ends) = u
      <4> HIDE DEF ends
      <4> QED
        BY <3>1, <3>2, <3>3, MinIs
    <3>5. u # 0
      BY <1>1, <1>2, <1>3
    <3> HIDE DEF ends
    <3> QED
      BY <3>1, <3>4, <3>5
  <2>2. PICK l \in Nat : l = v - 1 + Len(s) /\ l \in c .. u - 1 /\ l <= Len(t) /\ v <= l
    <3>1. ASSUME NEW n \in Nat, NEW m \in Nat, n # 0, v + n <= u, u <= m
          PROVE  /\ v - 1 + n \in Nat /\ v - 1 + n \in c .. u - 1
                 /\ v - 1 + n <= m /\ v <= v - 1 + n
      BY <1>1, <3>1
    <3> QED
      BY <1>1, <1>2, <1>3, <1>7, <3>1
  <2>3. last = l
    <3>1. t[l] \notin White
      <4>1. Len(s) \in 1..Len(s)
        BY <1>1, <1>2
      <4> QED
        BY <1>4, <2>2, <4>1
    <3>2. ASSUME NEW k \in l + 1 .. u - 1 PROVE t[k] \in White
      <4>1. k \in v + Len(s) .. u - 1 /\ k <= Len(t)
        BY <1>1, <1>7, <2>2
      <4> QED
        BY <1>3, <4>1
    <3>3. u - 1 \in Nat
      BY <1>1, <1>2, <1>3
    <3>4. LastNonSpace(t, c, u - 1) = l
      BY <2>2, <3>1, <3>2, <3>3, LastIs
    <3> HIDE DEF e
    <3> QED
      BY <2>1, <3>4 DEF last
  <2>4. SubSeq(t, v, l) = s
    <3>1. l - v + 1 = Len(s) /\ v <= l + 1
      BY <1>1, <2>2
    <3>2. /\ SubSeq(t, v, l) \in Seq(Chars) /\ Len(SubSeq(t, v, l)) = Len(s)
          /\ \A i \in 1..Len(s) : SubSeq(t, v, l)[i] = t[v + i - 1]
      <4> HIDE DEF Chars
      <4>1. /\ SubSeq(t, v, l) \in Seq(Chars) /\ Len(SubSeq(t, v, l)) = l - v + 1
            /\ \A i \in 1 .. l - v + 1 : SubSeq(t, v, l)[i] = t[v + i - 1]
        BY <1>a, <1>1, <2>2, <3>1, PartFacts
      <4> QED
        BY <3>1, <4>1
    <3>3. ASSUME NEW i \in 1..Len(s) PROVE SubSeq(t, v, l)[i] = s[i]
      <4>1. v + i - 1 = v - 1 + i /\ v - 1 + i <= Len(t)
        BY <1>1, <2>2
      <4> QED
        BY <1>4, <3>2, <4>1
    <3> HIDE DEF Chars
    <3> QED
      BY <1>a, <1>1, <3>2, <3>3, SeqEqual
  <2>5. ~(last < v - 1)
    BY <1>1, <2>2, <2>3
  <2> HIDE DEF e
  <2> QED
    BY <1>6, <2>1, <2>3, <2>4, <2>5
<1>8. ASSUME ~(u <= Len(t))
      PROVE  ParseOther(t, c, v) = Outside \/ ParseOther(t, c, v).next = Len(t) + 1
  <2>1. ends = {}
    <3> SUFFICES ASSUME NEW k \in ends PROVE FALSE
      OBVIOUS
    <3>1. k \in v .. u - 1 /\ k <= Len(t) /\ Stop(t[k])
      <4>1. k \in v..Len(t) /\ Stop(t[k])
        OBVIOUS
      <4> HIDE DEF ends
      <4> QED
        BY <1>1, <1>8, <4>1
    <3> QED
      BY <1>5, <3>1
  <2>2. e = Len(t) + 1
    <3> HIDE DEF ends
    <3> QED
      BY <2>1
  <2> HIDE DEF e
  <2>3. CASE last < v - 1
    BY <1>6, <2>3
  <2>4. CASE ~(last < v - 1)
    <3>1. ParseOther(t, c, v) = [next |-> e, string |-> SubSeq(t, v, last)]
      BY <1>6, <2>4
    <3>2. [next |-> e, string |-> SubSeq(t, v, last)].next = e
      OBVIOUS
    <3> QED
      BY <2>2, <3>1, <3>2, Zenon
  <2> QED
    BY <2>3, <2>4
<1> QED
  BY <1>7, <1>8

-----------------------------------------------------------------------------
(* The places of an object in its text *)

AllWhite(pad) == \A i \in 1..Len(pad) : pad[i] \in White

\* The places of an element in a text: where its part of the text begins, its name,
\* its colon, its value, and the sign behind it.
Element(t, e, w) ==
    /\ Blank(t, w.from, w.name)
    /\ Agrees(t, w.name, Quoted(e.key))
    /\ Blank(t, w.name + Len(Quoted(e.key)), w.colon)
    /\ Sign(t, w.colon, ":")
    /\ Blank(t, w.colon + 1, w.value)
    /\ Agrees(t, w.value, ValueText(e.val))
    /\ Blank(t, w.value + Len(ValueText(e.val)), w.upto)

PlacesOf(e, pad, p) ==
    LET m == p + Len(pad)
        c == m + Len(Quoted(e.key)) + Len(pad)
        v == c + 1 + Len(pad)
    IN  [from |-> p, name |-> m, colon |-> c, value |-> v,
         upto |-> v + Len(ValueText(e.val)) + Len(pad)]

\* A text that reads like blanks is blank there.
LEMMA BlankIs ==
    ASSUME NEW t \in Text, NEW pad \in Text, AllWhite(pad), NEW p \in Nat \ {0}, Agrees(t, p, pad)
    PROVE  Blank(t, p, p + Len(pad))
<1>1. Len(pad) \in Nat /\ Len(t) \in Nat
  BY Lengths
<1>2. p <= p + Len(pad)
  BY <1>1
<1>3. ASSUME NEW k \in p .. p + Len(pad) - 1, k <= Len(t) PROVE t[k] \in White
  <2>1. PICK i \in 1..Len(pad) : k = p - 1 + i
    <3>1. k - p + 1 \in 1..Len(pad) /\ k = p - 1 + (k - p + 1)
      BY <1>1
    <3> QED
      BY <3>1
  <2>2. t[k] = pad[i]
    BY <1>3, <2>1 DEF Agrees
  <2>3. pad[i] \in White
    BY <2>1 DEF AllWhite
  <2> QED
    BY <2>2, <2>3
<1> QED
  BY <1>2, <1>3 DEF Blank

\* A text that reads like a sign has it there.
LEMMA SignIs ==
    ASSUME NEW t \in Text, NEW c, NEW p \in Nat \ {0}, Agrees(t, p, <<c>>)
    PROVE  Sign(t, p, c)
<1>1. Len(<<c>>) = 1 /\ <<c>>[1] = c /\ p - 1 + 1 = p
  OBVIOUS
<1> DEFINE s == <<c>>
<1>2. \A j \in 1..Len(s) : p - 1 + j <= Len(t) => t[p - 1 + j] = s[j]
  BY DEF Agrees
<1>3. 1 \in 1..Len(s)
  BY <1>1
<1> HIDE DEF s
<1>4. p - 1 + 1 <= Len(t) => t[p - 1 + 1] = s[1]
  BY <1>2, <1>3
<1> QED
  BY <1>1, <1>4 DEF Sign, s

\* Texts that are put together, one after the other.
LEMMA TextsJoined ==
    ASSUME NEW t \in Text, NEW a \in Text, NEW b \in Text, NEW p \in Nat \ {0},
           Agrees(t, p, a \o b)
    PROVE  /\ Agrees(t, p, a) /\ Agrees(t, p + Len(a), b)
           /\ p + Len(a) \in Nat \ {0} /\ Len(a \o b) = Len(a) + Len(b)
<1>1. t \in Seq(Chars) /\ a \in Seq(Chars) /\ b \in Seq(Chars) /\ Len(a) \in Nat
  BY Lengths
<1> HIDE DEF Chars
<1>2. Agrees(t, p, a) /\ Agrees(t, p + Len(a), b)
  BY <1>1, AgreesJoined
<1>3. p + Len(a) \in Nat \ {0} /\ Len(a \o b) = Len(a) + Len(b)
  BY <1>1
<1> QED
  BY <1>2, <1>3

\* The places of an element that is written down with blanks around its tokens.
LEMMA ElementIs ==
    ASSUME NEW t \in Text, NEW e, e.key \in Text, e.val.text \in Text,
           NEW pad \in Text, AllWhite(pad), NEW p \in Nat \ {0}, Agrees(t, p, ElementText(e, pad))
    PROVE  LET w == PlacesOf(e, pad, p)
           IN  /\ Element(t, e, w)
               /\ w.from = p /\ w.upto = p + Len(ElementText(e, pad))
               /\ w.from \in Nat \ {0} /\ w.name \in Nat \ {0} /\ w.colon \in Nat \ {0}
               /\ w.value \in Nat \ {0} /\ w.upto \in Nat \ {0}
<1> DEFINE K == Quoted(e.key)
           V == ValueText(e.val)
           colon == <<":">>
           s1 == pad \o K
           s2 == s1 \o pad
           s3 == s2 \o colon
           s4 == s3 \o pad
           s5 == s4 \o V
           s6 == s5 \o pad
           w == PlacesOf(e, pad, p)
<1>1. K \in Text /\ V \in Text /\ colon \in Text
  BY QuotedType, SignsAreText DEF ValueText
<1>2. Len(pad) \in Nat /\ Len(K) \in Nat /\ Len(V) \in Nat /\ Len(colon) = 1
  <2>1. Len(pad) \in Nat /\ Len(K) \in Nat /\ Len(V) \in Nat
    BY <1>1, Lengths
  <2> QED
    BY <2>1
<1>3. ElementText(e, pad) = s6
  BY DEF ElementText
<1>w. /\ w.from = p /\ w.name = p + Len(pad)
      /\ w.colon = w.name + Len(K) + Len(pad)
      /\ w.value = w.colon + 1 + Len(pad)
      /\ w.upto = w.value + Len(V) + Len(pad)
  BY DEF PlacesOf
<1> HIDE DEF K, V, colon, w
<1>4. s1 \in Text
  BY <1>1, JoinedText
<1>5. s2 \in Text
  <2> HIDE DEF s1
  <2> QED
    BY <1>4, JoinedText
<1>6. s3 \in Text
  <2> HIDE DEF s2
  <2> QED
    BY <1>1, <1>5, JoinedText
<1>7. s4 \in Text
  <2> HIDE DEF s3
  <2> QED
    BY <1>6, JoinedText
<1>8. s5 \in Text
  <2> HIDE DEF s4
  <2> QED
    BY <1>1, <1>7, JoinedText
<1>9. /\ Agrees(t, p, s5) /\ Agrees(t, p + Len(s5), pad)
      /\ p + Len(s5) \in Nat \ {0} /\ Len(s6) = Len(s5) + Len(pad)
  <2>1. Agrees(t, p, s5 \o pad)
    BY <1>3
  <2> HIDE DEF s5
  <2> QED
    BY <1>8, <2>1, TextsJoined
<1>10. /\ Agrees(t, p, s4) /\ Agrees(t, p + Len(s4), V)
       /\ p + Len(s4) \in Nat \ {0} /\ Len(s5) = Len(s4) + Len(V)
  <2>1. Agrees(t, p, s4 \o V)
    BY <1>9
  <2> HIDE DEF s4
  <2> QED
    BY <1>1, <1>7, <2>1, TextsJoined
<1>11. /\ Agrees(t, p, s3) /\ Agrees(t, p + Len(s3), pad)
       /\ p + Len(s3) \in Nat \ {0} /\ Len(s4) = Len(s3) + Len(pad)
  <2>1. Agrees(t, p, s3 \o pad)
    BY <1>10
  <2> HIDE DEF s3
  <2> QED
    BY <1>6, <2>1, TextsJoined
<1>12. /\ Agrees(t, p, s2) /\ Agrees(t, p + Len(s2), colon)
       /\ p + Len(s2) \in Nat \ {0} /\ Len(s3) = Len(s2) + Len(colon)
  <2>1. Agrees(t, p, s2 \o colon)
    BY <1>11
  <2> HIDE DEF s2
  <2> QED
    BY <1>1, <1>5, <2>1, TextsJoined
<1>13. /\ Agrees(t, p, s1) /\ Agrees(t, p + Len(s1), pad)
       /\ p + Len(s1) \in Nat \ {0} /\ Len(s2) = Len(s1) + Len(pad)
  <2>1. Agrees(t, p, s1 \o pad)
    BY <1>12
  <2> HIDE DEF s1
  <2> QED
    BY <1>4, <2>1, TextsJoined
<1>14. /\ Agrees(t, p, pad) /\ Agrees(t, p + Len(pad), K)
       /\ p + Len(pad) \in Nat \ {0} /\ Len(s1) = Len(pad) + Len(K)
  <2>1. Agrees(t, p, pad \o K)
    BY <1>13
  <2> QED
    BY <1>1, <2>1, TextsJoined
<1>15. /\ p + Len(pad) = w.name /\ p + Len(s1) = w.name + Len(K)
       /\ p + Len(s1) + Len(pad) = w.colon /\ p + Len(s2) = w.colon
       /\ p + Len(s3) = w.colon + 1 /\ p + Len(s3) + Len(pad) = w.value /\ p + Len(s4) = w.value
       /\ p + Len(s5) = w.value + Len(V) /\ p + Len(s5) + Len(pad) = w.upto
       /\ p + Len(s6) = w.upto
       /\ w.name \in Nat \ {0} /\ w.colon \in Nat \ {0}
       /\ w.value \in Nat \ {0} /\ w.upto \in Nat \ {0}
  <2> HIDE DEF s1, s2, s3, s4, s5, s6
  <2>1. PICK a \in Nat, k \in Nat, v \in Nat : a = Len(pad) /\ k = Len(K) /\ v = Len(V)
    BY <1>2
  <2>2. Len(s1) = a + k /\ Len(s2) = a + k + a /\ Len(s3) = a + k + a + 1
    BY <1>2, <1>12, <1>13, <1>14, <2>1
  <2>3. Len(s4) = a + k + a + 1 + a /\ Len(s5) = a + k + a + 1 + a + v
        /\ Len(s6) = a + k + a + 1 + a + v + a
    BY <1>9, <1>10, <1>11, <2>1, <2>2
  <2>4. /\ w.name = p + a /\ w.colon = p + a + k + a /\ w.value = p + a + k + a + 1 + a
        /\ w.upto = p + a + k + a + 1 + a + v + a
    BY <1>w, <2>1
  <2>9. /\ p + (a + k) = (p + a) + k /\ p + (a + k) + a = p + a + k + a
        /\ p + (a + k + a) = p + a + k + a /\ p + (a + k + a + 1) = (p + a + k + a) + 1
    BY <2>1
  <2>5. /\ p + Len(pad) = w.name /\ p + Len(s1) = w.name + Len(K)
        /\ p + Len(s1) + Len(pad) = w.colon /\ p + Len(s2) = w.colon
        /\ p + Len(s3) = w.colon + 1
    BY <2>1, <2>2, <2>4, <2>9, Zenon
  <2>6. /\ p + Len(s3) + Len(pad) = w.value /\ p + Len(s4) = w.value
        /\ p + Len(s5) = w.value + Len(V) /\ p + Len(s5) + Len(pad) = w.upto
        /\ p + Len(s6) = w.upto
    BY <2>1, <2>2, <2>3, <2>4
  <2>7. /\ p + a \in Nat \ {0} /\ p + a + k + a \in Nat \ {0}
        /\ p + a + k + a + 1 + a \in Nat \ {0} /\ p + a + k + a + 1 + a + v + a \in Nat \ {0}
    BY <2>1
  <2>8. /\ w.name \in Nat \ {0} /\ w.colon \in Nat \ {0}
        /\ w.value \in Nat \ {0} /\ w.upto \in Nat \ {0}
    BY <2>4, <2>7, Zenon
  <2> QED
    BY <2>5, <2>6, <2>8
<1> HIDE DEF s1, s2, s3, s4, s5, s6
<1>16. Blank(t, w.from, w.name)
  BY <1>w, <1>14, <1>15, BlankIs
<1>17. Blank(t, w.name + Len(K), w.colon)
  BY <1>13, <1>15, BlankIs
<1>18. Sign(t, w.colon, ":")
  <2>1. Agrees(t, w.colon, <<":">>)
    BY <1>12, <1>15 DEF colon
  <2> QED
    BY <1>15, <2>1, SignIs, Zenon
<1>19. Blank(t, w.colon + 1, w.value)
  BY <1>11, <1>15, BlankIs
<1>20. Blank(t, w.value + Len(V), w.upto)
  BY <1>9, <1>15, BlankIs
<1>21. Agrees(t, w.name, K) /\ Agrees(t, w.value, V)
  BY <1>10, <1>14, <1>15
<1> QED
  BY <1>3, <1>w, <1>15, <1>16, <1>17, <1>18, <1>19, <1>20, <1>21 DEF Element, K, V, w

\* Where the text of an object ends.
Ends(items, w) == IF items = <<>> THEN 2 ELSE w[Len(items)].upto

\* The sign behind an element.
Behind(items, i) == IF i = Len(items) THEN "}" ELSE ","

IsPlace(p) == p \in Nat \ {0}
Placed(w) ==
    /\ IsPlace(w.from) /\ IsPlace(w.name) /\ IsPlace(w.colon)
    /\ IsPlace(w.value) /\ IsPlace(w.upto)

\* t is the text of an object with these items, or its beginning.
Written(t, items, w) ==
    /\ \A i \in 1..Len(items) :
          /\ Placed(w[i])
          /\ w[i].from = IF i = 1 THEN 2 ELSE w[i - 1].upto + 1
          /\ Element(t, items[i], w[i])
          /\ Sign(t, w[i].upto, Behind(items, i))
          /\ w[i].upto <= Ends(items, w)
    /\ items = <<>> => Sign(t, 2, "}")
    /\ Len(t) <= Ends(items, w)

\* An element that is written down is text.
LEMMA ElementType ==
    ASSUME NEW e, e.key \in Text, e.val.text \in Text, NEW pad \in Text
    PROVE  ElementText(e, pad) \in Text
<1>1. Quoted(e.key) \in Text /\ ValueText(e.val) \in Text /\ <<":">> \in Text
  BY QuotedType, SignsAreText DEF ValueText
<1> DEFINE a == pad \o Quoted(e.key) \o pad
           b == a \o <<":">> \o pad
           c == b \o ValueText(e.val) \o pad
<1>2. a \in Text
  BY <1>1, JoinedText
<1>3. b \in Text
  <2> HIDE DEF a
  <2> QED
    BY <1>1, <1>2, JoinedText
<1>4. c \in Text
  <2> HIDE DEF b
  <2> QED
    BY <1>1, <1>3, JoinedText
<1>5. ElementText(e, pad) = c
  BY DEF ElementText
<1> HIDE DEF c
<1> QED
  BY <1>4, <1>5

\* A text between two signs.
LEMMA BracedText ==
    ASSUME NEW f \in Text, NEW a, NEW c, a \in Chars, c \in Chars
    PROVE  LET R == <<a>> \o f \o <<c>>
           IN  /\ Len(f) \in Nat /\ Len(R) = Len(f) + 2 /\ R[1] = a /\ R[Len(f) + 2] = c
               /\ \A j \in 1..Len(f) : R[1 + j] = f[j]
<1>1. f \in Seq(Chars)
  BY Lengths
<1> HIDE DEF Chars
<1> QED
  BY <1>1, Bracketed

\* An object that is written down has a place for each of its elements.
LEMMA RenderedPlaces ==
    ASSUME NEW S, NEW items \in Seq(S), NEW pad \in Text, AllWhite(pad),
           \A i \in 1..Len(items) : items[i].key \in Text /\ items[i].val.text \in Text,
           NEW n \in 0..Len(Rendered(items, pad))
    PROVE  LET R == Rendered(items, pad)
               t == SubSeq(R, 1, n)
           IN  \E w : /\ Written(t, items, w)
                      /\ Len(t) = n
                      /\ n = Len(R) => Len(t) = Ends(items, w) /\ 1 <= n /\ t[1] = "{"
<1> DEFINE N == Len(items)
           sep == <<",">>
           comma(i) == IF i < N THEN sep ELSE <<>>
           piece(i) == ElementText(items[i], pad)
           pieces == [i \in DOMAIN items |-> ElementText(items[i], pad) \o comma(i)]
           F == FlattenSeq(pieces)
           R == Rendered(items, pad)
           t == SubSeq(R, 1, n)
<1>1. N \in Nat /\ DOMAIN items = 1..N
  OBVIOUS
<1>2. \A i \in 1..N : piece(i) \in Text /\ comma(i) \in Text
  <2>1. \A i \in 1..N : comma(i) \in Text
    BY SignsAreText
  <2>2. \A i \in 1..N : piece(i) \in Text
    BY ElementType
  <2> QED
    BY <2>1, <2>2
<1>3. \A i \in 1..N : pieces[i] = piece(i) \o comma(i)
  BY <1>1
<1>4. pieces \in Seq(Text) /\ Len(pieces) = N
  <2>1. \A i \in 1..N : piece(i) \o comma(i) \in Text
    <3> HIDE DEF piece, comma
    <3> QED
      BY <1>2, JoinedText
  <2>2. pieces = [i \in 1..N |-> piece(i) \o comma(i)]
    BY <1>1
  <2>3. pieces \in [1..N -> Text]
    <3> HIDE DEF piece, comma, pieces, N
    <3> QED
      BY <2>1, <2>2
  <2> HIDE DEF pieces, N
  <2> QED
    BY <1>1, <2>3
<1>5. R = <<"{">> \o F \o <<"}">>
  BY DEF Rendered
<1>a. sep \in Text /\ Len(sep) = 1
  BY SignsAreText
<1> HIDE DEF sep
<1>6. PICK o \in Chars : o = "{"
  BY Zenon DEF Chars
<1>b. PICK e \in Chars : e = "}"
  BY Zenon DEF Chars
<1>7. F \in Text
  <2> HIDE DEF pieces
  <2> QED
    BY <1>4, FlattenType DEF Text
<1>8. /\ R \in Text /\ Len(F) \in Nat /\ Len(R) = Len(F) + 2
      /\ R[1] = o /\ R[Len(F) + 2] = e
      /\ \A j \in 1..Len(F) : R[1 + j] = F[j]
  <2> HIDE DEF F, R
  <2>1. R = <<o>> \o F \o <<e>>
    BY <1>5, <1>6, <1>b, Zenon
  <2>2. /\ Len(F) \in Nat /\ Len(R) = Len(F) + 2
        /\ R[1] = o /\ R[Len(F) + 2] = e
        /\ \A j \in 1..Len(F) : R[1 + j] = F[j]
    BY <1>7, <2>1, BracedText
  <2>3. <<o>> \in Text /\ <<e>> \in Text
    BY <1>6, <1>b, SignsAreText, Zenon
  <2> QED
    BY <1>7, <2>1, <2>2, <2>3, JoinedText
<1>9. PICK at : /\ at[0] = 0 /\ at[N] = Len(F)
                /\ \A k \in 1..N :
                      /\ at[k - 1] \in Nat /\ at[k] = at[k - 1] + Len(piece(k) \o comma(k))
                      /\ at[k] \in Nat /\ at[k] <= Len(F)
                      /\ Agrees(F, at[k - 1] + 1, piece(k) \o comma(k))
  <2>1. pieces \in Seq(Seq(Chars))
    BY <1>4 DEF Text
  <2> HIDE DEF pieces, F, piece, comma, N
  <2>2. \E at : /\ at[0] = 0 /\ at[Len(pieces)] = Len(FlattenSeq(pieces))
                /\ \A k \in 1..Len(pieces) :
                      /\ at[k - 1] \in Nat /\ at[k] = at[k - 1] + Len(pieces[k])
                      /\ at[k] \in Nat /\ at[k] <= Len(FlattenSeq(pieces))
                      /\ Agrees(FlattenSeq(pieces), at[k - 1] + 1, pieces[k])
    BY <2>1, FlattenReads
  <2> QED
    BY <1>3, <1>4, <2>2, Zenon DEF F
<1> HIDE DEF pieces, F, piece, comma, N, R
<1>10. ASSUME NEW k \in 1..N
       PROVE  Agrees(R, at[k - 1] + 2, piece(k) \o comma(k))
  <2>1. PICK x \in Nat : x = at[k - 1]
    BY <1>9
  <2>2. PICK s : s = piece(k) \o comma(k)
    OBVIOUS
  <2>3. Len(s) \in Nat /\ x + Len(s) <= Len(F) /\ Agrees(F, x + 1, s)
    <3>1. s \in Text
      BY <1>2, <2>2, JoinedText
    <3>2. Len(s) \in Nat
      BY <3>1, Lengths
    <3>3. at[k] = x + Len(s) /\ at[k] <= Len(F) /\ Agrees(F, x + 1, s)
      BY <1>9, <2>1, <2>2, Zenon
    <3> QED
      BY <3>2, <3>3
  <2>4. ASSUME NEW j \in 1..Len(s) PROVE R[(x + 2) - 1 + j] = s[j]
    <3>1. /\ x + j \in 1..Len(F) /\ (x + 1) - 1 + j = x + j /\ (x + 2) - 1 + j = 1 + (x + j)
          /\ x + j <= Len(F)
      <4>1. Len(F) \in Nat
        BY <1>8, Zenon
      <4> QED
        BY <2>3, <4>1
    <3>2. F[(x + 1) - 1 + j] = s[j]
      BY <2>3, <3>1 DEF Agrees
    <3> QED
      BY <1>8, <3>1, <3>2
  <2>5. Agrees(R, x + 2, s)
    BY <2>4 DEF Agrees
  <2> QED
    BY <2>1, <2>2, <2>5, Zenon
<1>11. t \in Text /\ Len(t) = n /\ n \in Nat /\ n <= Len(R)
       /\ \A i \in 1..n : t[i] = R[i]
  <2>1. R \in Seq(Chars) /\ Len(R) \in Nat
    BY <1>8, Lengths
  <2>2. n \in Nat /\ n <= Len(R) /\ 1 <= n + 1 /\ n - 1 + 1 = n /\ \A i \in 1..n : 1 + i - 1 = i
    BY <2>1 DEF R
  <2> HIDE DEF Chars
  <2>3. /\ t \in Seq(Chars) /\ Len(t) = n - 1 + 1
        /\ \A i \in 1 .. n - 1 + 1 : t[i] = R[1 + i - 1]
    BY <2>1, <2>2, PartFacts
  <2> QED
    BY <2>2, <2>3 DEF Text
<1> DEFINE w == [i \in 1..N |-> PlacesOf(items[i], pad, at[i - 1] + 2)]
<1>12. ASSUME NEW k \in 1..N
       PROVE  /\ Placed(w[k]) /\ Element(t, items[k], w[k])
              /\ w[k].from = at[k - 1] + 2
              /\ w[k].upto = at[k - 1] + 2 + Len(piece(k))
              /\ Agrees(t, w[k].upto, comma(k))
  <2>1. at[k - 1] + 2 \in Nat \ {0}
    BY <1>9
  <2>2. Agrees(t, at[k - 1] + 2, piece(k) \o comma(k))
    <3>1. piece(k) \o comma(k) \in Text
      BY <1>2, JoinedText
    <3>2. piece(k) \o comma(k) \in Seq(Chars) /\ R \in Seq(Chars) /\ n \in 0..Len(R)
      BY <1>8, <3>1, Lengths DEF R
    <3> HIDE DEF Chars
    <3> QED
      BY <1>10, <2>1, <3>2, AgreesCut
  <2> HIDE DEF t
  <2>3. Agrees(t, at[k - 1] + 2, piece(k)) /\ Agrees(t, at[k - 1] + 2 + Len(piece(k)), comma(k))
    <3>1. piece(k) \in Text /\ comma(k) \in Text /\ t \in Text
      BY <1>2, <1>11
    <3> QED
      BY <2>1, <2>2, <3>1, TextsJoined
  <2>4. items[k].key \in Text /\ items[k].val.text \in Text
    BY DEF N
  <2> DEFINE v == PlacesOf(items[k], pad, at[k - 1] + 2)
  <2>5. /\ Element(t, items[k], v)
        /\ v.from = at[k - 1] + 2 /\ v.upto = at[k - 1] + 2 + Len(piece(k))
        /\ v.from \in Nat \ {0} /\ v.name \in Nat \ {0} /\ v.colon \in Nat \ {0}
        /\ v.value \in Nat \ {0} /\ v.upto \in Nat \ {0}
    BY <1>11, <2>1, <2>3, <2>4, ElementIs DEF piece
  <2>6. w[k] = v
    OBVIOUS
  <2> HIDE DEF v, w
  <2> QED
    BY <2>3, <2>5, <2>6 DEF Placed, IsPlace
<1> HIDE DEF w
<1>13. ASSUME NEW k \in 1..N
       PROVE  Sign(t, w[k].upto, Behind(items, k)) /\ (k = N => w[k].upto = Len(R))
  <2>1. CASE k = N
    <3>1. comma(k) = <<>>
      BY <1>1, <2>1 DEF comma
    <3>2. piece(k) \o comma(k) = piece(k)
      <4>1. piece(k) \in Seq(Chars)
        BY <1>2, Lengths
      <4> HIDE DEF Chars
      <4> QED
        BY <3>1, <4>1, ConcatEmptySeq
    <3>3. at[k - 1] + Len(piece(k)) = Len(F)
      BY <1>9, <2>1, <3>2, Zenon
    <3>4. Len(piece(k)) \in Nat
      BY <1>2, Lengths
    <3>5. w[k].upto = Len(F) + 2
      <4>1. PICK x \in Nat, y \in Nat : x = at[k - 1] /\ y = Len(piece(k))
        BY <1>9, <3>4
      <4>2. x + 2 + y = x + y + 2
        OBVIOUS
      <4> QED
        BY <1>12, <3>3, <4>1, <4>2
    <3>6. Sign(t, w[k].upto, "}")
      <4>1. ASSUME w[k].upto <= n PROVE t[w[k].upto] = e
        <5>1. Len(F) + 2 \in 1..n
          BY <1>8, <1>11, <3>5, <4>1
        <5> HIDE DEF t
        <5> QED
          BY <1>8, <1>11, <3>5, <5>1
      <4> HIDE DEF t
      <4> QED
        BY <1>b, <1>11, <4>1, Zenon DEF Sign
    <3>7. Behind(items, k) = "}"
      BY <2>1, Zenon DEF Behind, N
    <3>8. w[k].upto = Len(R)
      BY <1>8, <3>5
    <3> QED
      BY <3>6, <3>7, <3>8, Zenon
  <2>2. CASE k # N
    <3>1. comma(k) = sep
      BY <1>1, <2>2 DEF comma
    <3>2. Agrees(t, w[k].upto, sep) /\ w[k].upto \in Nat \ {0}
      <4> HIDE DEF t
      <4> QED
        BY <1>12, <3>1 DEF Placed, IsPlace
    <3> HIDE DEF t
    <3>3. Sign(t, w[k].upto, ",")
      BY <1>11, <3>2, SignIs, Zenon DEF sep
    <3>4. Behind(items, k) = ","
      BY <2>2, Zenon DEF Behind, N
    <3> QED
      BY <2>2, <3>3, <3>4, Zenon
  <2> QED
    BY <2>1, <2>2
<1>20. ASSUME NEW k \in 1..N
       PROVE  w[k].from = IF k = 1 THEN 2 ELSE w[k - 1].upto + 1
  <2>1. CASE k = 1
    <3>1. at[k - 1] + 2 = 2
      BY <1>9, <2>1
    <3> QED
      BY <1>12, <2>1, <3>1
  <2>2. CASE k # 1
    <3>1. k - 1 \in 1..N /\ k - 1 < N
      BY <1>1, <2>2
    <3>2. PICK j \in 1..N : j = k - 1 /\ j < N
      BY <3>1
    <3>3. comma(j) = sep
      BY <3>2 DEF comma
    <3>4. PICK a \in Text : a = piece(j)
      BY <1>2
    <3>5. Len(piece(j) \o comma(j)) = Len(piece(j)) + 1 /\ Len(piece(j)) \in Nat
      <4>1. a \in Seq(Chars) /\ sep \in Seq(Chars)
        BY <1>a, Lengths
      <4> HIDE DEF Chars
      <4>2. Len(a \o sep) = Len(a) + Len(sep) /\ Len(a) \in Nat
        BY <4>1
      <4> QED
        BY <1>a, <3>3, <3>4, <4>2, Zenon
    <3>6. PICK x \in Nat, y \in Nat : x = at[j - 1] /\ y = Len(piece(j))
      BY <1>9, <3>5
    <3>7. at[k - 1] = x + (y + 1)
      BY <1>9, <3>2, <3>5, <3>6, Zenon
    <3>8. w[j].upto = x + 2 + y /\ w[k].from = at[k - 1] + 2
      BY <1>12, <3>6
    <3>9. w[k].from = w[j].upto + 1
      BY <3>7, <3>8
    <3> QED
      BY <2>2, <3>2, <3>9
  <2> QED
    BY <2>1, <2>2
<1>14. items = <<>> <=> N = 0
  BY DEF N
<1>15. items = <<>> => Len(R) = 2 /\ R[2] = e
  <2> SUFFICES ASSUME items = <<>> PROVE Len(R) = 2 /\ R[2] = e
    OBVIOUS
  <2>1. Len(F) = 0
    BY <1>9, <1>14
  <2> QED
    BY <1>8, <2>1
<1>16. Ends(items, w) = Len(R)
  <2>1. CASE items = <<>>
    BY <1>15, <2>1 DEF Ends
  <2>2. CASE items # <<>>
    <3>1. N \in 1..N
      BY <1>1, <1>14, <2>2
    <3>2. w[N].upto = Len(R)
      BY <1>13, <3>1
    <3> QED
      BY <2>2, <3>2 DEF Ends, N
  <2> QED
    BY <2>1, <2>2
<1>21. ASSUME NEW k \in 1..N
       PROVE  w[k].upto <= Len(R)
  <2>1. PICK a \in Text, b \in Text : a = piece(k) /\ b = comma(k)
    BY <1>2
  <2>2. Len(a \o b) = Len(a) + Len(b) /\ Len(a) \in Nat /\ Len(b) \in Nat
    <3>1. a \in Seq(Chars) /\ b \in Seq(Chars)
      BY Lengths
    <3> HIDE DEF Chars
    <3> QED
      BY <3>1
  <2>3. PICK x \in Nat : x = at[k - 1]
    BY <1>9
  <2>4. at[k] = x + (Len(a) + Len(b)) /\ at[k] <= Len(F)
    BY <1>9, <2>1, <2>2, <2>3, Zenon
  <2>5. w[k].upto = x + 2 + Len(a)
    BY <1>12, <2>1, <2>3
  <2>6. x + 2 + Len(a) <= Len(F) + 2
    BY <1>8, <2>2, <2>4
  <2> QED
    BY <1>8, <2>5, <2>6
<1>22. n = Len(R) => 1 <= n /\ t[1] = o
  <2> SUFFICES ASSUME n = Len(R) PROVE 1 <= n /\ t[1] = o
    OBVIOUS
  <2>1. 1 \in 1..n /\ 1 <= n
    BY <1>8
  <2> HIDE DEF t
  <2> QED
    BY <1>8, <1>11, <2>1
<1>17. items = <<>> => Sign(t, 2, "}")
  <2> SUFFICES ASSUME items = <<>> PROVE Sign(t, 2, "}")
    OBVIOUS
  <2>1. ASSUME 2 <= n PROVE t[2] = e
    <3>1. 2 \in 1..n
      BY <1>11, <2>1
    <3> HIDE DEF t
    <3> QED
      BY <1>11, <1>15, <3>1
  <2> HIDE DEF t
  <2> QED
    BY <1>b, <1>11, <2>1, Zenon DEF Sign
<1>18. Written(t, items, w)
  <2>1. Len(t) <= Ends(items, w)
    <3> HIDE DEF t
    <3> QED
      BY <1>11, <1>16
  <2>2. \A k \in 1..N : w[k].upto <= Ends(items, w)
    BY <1>16, <1>21, Zenon
  <2> HIDE DEF t
  <2> QED
    BY <1>12, <1>13, <1>17, <1>20, <2>1, <2>2, Zenon DEF Written, N
<1>19. n = Len(R) => Len(t) = Ends(items, w) /\ 1 <= n /\ t[1] = "{"
  <2> HIDE DEF t
  <2> QED
    BY <1>6, <1>11, <1>16, <1>22, Zenon
<1> QED
  <2>1. \E v : /\ Written(t, items, v) /\ Len(t) = n
               /\ n = Len(R) => Len(t) = Ends(items, v) /\ 1 <= n /\ t[1] = "{"
    <3> HIDE DEF t
    <3> QED
      BY <1>11, <1>18, <1>19, Zenon
  <2> QED
    BY <2>1 DEF R

\* What WellWritten says of an element.
Proper(e) ==
    /\ e.key \in Text /\ e.val.text \in Text
    /\ e.val = [type |-> e.val.type, text |-> e.val.text]
    /\ e.val.type \notin Strings => e.val.type = "number" /\ Plain(e.val.text)

CleanElement(e) == Clean(e.key) /\ (e.val.type \in Strings => Clean(e.val.text))

\* The elements of an object are what WellWritten says.
LEMMA ElementsAreProper ==
    ASSUME WellWritten, ContainerTypeOK, kind = "json"
    PROVE  Len(list.items) \in Nat /\ \A i \in 1..Len(list.items) : Proper(list.items[i])
<1>1. PICK s \in Seq(Record) : s = list.items
  BY DEF ContainerTypeOK, Record
<1>2. Len(s) \in Nat /\ \A i \in 1..Len(s) : s[i] \in Record
  OBVIOUS
<1>3. "json" \in Kinds
  BY DEF ContainerTypeOK
<1>4. ASSUME NEW i \in 1..Len(s) PROVE Proper(s[i])
  <2>1. s[i].key \in Keys["json"] /\ s[i].val \in Values["json"]
    BY <1>2 DEF Record
  <2>2. s[i].key \in Seq(Characters) /\ s[i].val.text \in Seq(Characters)
    BY <1>3, <2>1, ContainersAssumption, JsonAssumption
  <2>3. s[i].key \in Text /\ s[i].val.text \in Text
    BY <2>2, StringsAreText
  <2>4. /\ s[i].val = [type |-> s[i].val.type, text |-> s[i].val.text]
        /\ s[i].val.type \notin Strings => s[i].val.type = "number" /\ Plain(s[i].val.text)
    BY <1>3, <2>1, Zenon DEF WellWritten
  <2> QED
    BY <2>3, <2>4, Zenon DEF Proper
<1> QED
  BY <1>1, <1>2, <1>4, Zenon

\* The places of an element lie behind one another.
LEMMA PlacesOrdered ==
    ASSUME NEW t \in Text, NEW e, Proper(e), CleanElement(e), NEW w, Placed(w), Element(t, e, w)
    PROVE  /\ Len(t) \in Nat
           /\ w.from \in Nat \ {0} /\ w.name \in Nat \ {0} /\ w.colon \in Nat \ {0}
           /\ w.value \in Nat \ {0} /\ w.upto \in Nat \ {0}
           /\ Len(Quoted(e.key)) \in Nat /\ 2 <= Len(Quoted(e.key))
           /\ Len(ValueText(e.val)) \in Nat
           /\ w.from <= w.name /\ w.name + Len(Quoted(e.key)) <= w.colon
           /\ w.colon + 1 <= w.value /\ w.value + Len(ValueText(e.val)) <= w.upto
<1>1. /\ w.from \in Nat \ {0} /\ w.name \in Nat \ {0} /\ w.colon \in Nat \ {0}
      /\ w.value \in Nat \ {0} /\ w.upto \in Nat \ {0}
  BY Zenon DEF Placed, IsPlace
<1>2. e.key \in Text /\ e.val.text \in Text
  BY Zenon DEF Proper
<1>3. Quoted(e.key) \in Text /\ ValueText(e.val) \in Text
  BY <1>2, QuotedType DEF ValueText
<1>4. /\ Len(t) \in Nat /\ Len(Quoted(e.key)) \in Nat /\ Len(ValueText(e.val)) \in Nat
  BY <1>3, Lengths
<1>5. 2 <= Len(Quoted(e.key))
  <2>1. PICK s \in Text : s = e.key /\ Clean(s)
    BY <1>2, Zenon DEF CleanElement
  <2>2. Len(Encoded(s)) \in Nat /\ Len(Quoted(s)) = Len(Encoded(s)) + 2
    BY <2>1, QuotedEnds
  <2>3. 2 <= Len(Quoted(s))
    BY <2>2
  <2> QED
    BY <2>1, <2>3, Zenon
<1>6. /\ w.from <= w.name /\ w.name + Len(Quoted(e.key)) <= w.colon
      /\ w.colon + 1 <= w.value /\ w.value + Len(ValueText(e.val)) <= w.upto
  BY Zenon DEF Element, Blank
<1> QED
  BY <1>1, <1>4, <1>5, <1>6

\* So all of them are in a text that is not cut off in front of the last.
LEMMA PlacesWithin ==
    ASSUME NEW t \in Text, NEW e, Proper(e), CleanElement(e), NEW w, Placed(w), Element(t, e, w),
           w.upto <= Len(t)
    PROVE  /\ w.name <= Len(t) /\ w.name - 1 + Len(Quoted(e.key)) <= Len(t)
           /\ w.colon <= Len(t) /\ w.value <= Len(t)
           /\ w.value - 1 + Len(ValueText(e.val)) <= Len(t)
<1>2. /\ Len(t) \in Nat
      /\ w.name \in Nat /\ w.colon \in Nat /\ w.value \in Nat /\ w.upto \in Nat
      /\ Len(Quoted(e.key)) \in Nat /\ Len(ValueText(e.val)) \in Nat
      /\ w.name + Len(Quoted(e.key)) <= w.colon
      /\ w.colon + 1 <= w.value /\ w.value + Len(ValueText(e.val)) <= w.upto
  BY PlacesOrdered, Zenon
<1> DEFINE n == w.name
           c == w.colon
           x == w.value
           u == w.upto
           q == Len(Quoted(e.key))
           l == Len(ValueText(e.val))
           m == Len(t)
<1>3. /\ n \in Nat /\ c \in Nat /\ x \in Nat /\ u \in Nat /\ q \in Nat /\ l \in Nat /\ m \in Nat
      /\ n + q <= c /\ c + 1 <= x /\ x + l <= u /\ u <= m
  BY <1>2
<1> HIDE DEF n, c, x, u, q, l, m
<1>4. n <= m /\ n - 1 + q <= m /\ c <= m /\ x <= m /\ x - 1 + l <= m
  BY <1>3
<1> QED
  BY <1>4 DEF n, c, x, u, q, l, m

\* Where a text in quotes begins there is a quote.
LEMMA QuoteIsThere ==
    ASSUME NEW t \in Text, NEW s \in Text, Clean(s), NEW p \in 1..Len(t), Agrees(t, p, Quoted(s))
    PROVE  t[p] = Quote
<1>1. Len(Quoted(s)) \in Nat /\ 2 <= Len(Quoted(s)) /\ Quoted(s)[1] = Quote
  <2>1. /\ Len(Encoded(s)) \in Nat /\ Len(Quoted(s)) = Len(Encoded(s)) + 2
        /\ Quoted(s)[1] = Quote
    BY QuotedEnds
  <2> QED
    BY <2>1
<1>2. Len(t) \in Nat
  BY Lengths
<1>3. 1 \in 1..Len(Quoted(s)) /\ p - 1 + 1 = p /\ p <= Len(t)
  BY <1>1, <1>2
<1> QED
  BY <1>1, <1>3 DEF Agrees

\* What the parser finds where an element begins.
LEMMA NameIs ==
    ASSUME NEW t \in Text, NEW e, Proper(e), CleanElement(e), NEW w, Placed(w), Element(t, e, w)
    PROVE  /\ find_non_space(t, w.from) = IF w.name <= Len(t) THEN w.name ELSE 0
           /\ w.name <= Len(t) =>
                /\ t[w.name] = Quote
                /\ parse_string_token(t, w.name) =
                      IF w.name - 1 + Len(Quoted(e.key)) <= Len(t)
                      THEN [next |-> w.name + Len(Quoted(e.key)), string |-> e.key]
                      ELSE Failed
<1>1. PICK s \in Text : s = e.key /\ Clean(s)
  BY Zenon DEF Proper, CleanElement
<1>2. PICK p \in Nat \ {0} : p = w.name
  BY Zenon DEF Placed, IsPlace
<1>3. PICK i \in Nat \ {0} : i = w.from
  BY Zenon DEF Placed, IsPlace
<1>4. Blank(t, i, p) /\ Agrees(t, p, Quoted(s))
  BY <1>1, <1>2, <1>3, Zenon DEF Element
<1>6. Len(t) \in Nat
  BY Lengths
<1>7. ASSUME p <= Len(t) PROVE p \in 1..Len(t) /\ t[p] = Quote /\ t[p] \notin White
  <2>1. p \in 1..Len(t)
    BY <1>6, <1>7
  <2>2. t[p] = Quote
    BY <1>1, <1>4, <2>1, QuoteIsThere
  <2> QED
    BY <2>1, <2>2 DEF Quote, White
<1>8. find_non_space(t, i) = IF p <= Len(t) THEN p ELSE 0
  BY <1>4, <1>7, NextIs
<1>9. ASSUME p <= Len(t)
      PROVE  parse_string_token(t, p) = IF p - 1 + Len(Quoted(s)) <= Len(t)
                                        THEN [next |-> p + Len(Quoted(s)), string |-> s]
                                        ELSE Failed
  <2>1. p \in 1..Len(t)
    BY <1>7, <1>9
  <2> HIDE DEF Failed
  <2> QED
    BY <1>1, <1>4, <2>1, TokenIs
<1> QED
  BY <1>1, <1>2, <1>3, <1>7, <1>8, <1>9, Zenon

\* Behind the name.
LEMMA ColonIs ==
    ASSUME NEW t \in Text, NEW e, Proper(e), CleanElement(e), NEW w, Placed(w), Element(t, e, w)
    PROVE  /\ find_non_space(t, w.name + Len(Quoted(e.key)))
                 = IF w.colon <= Len(t) THEN w.colon ELSE 0
           /\ w.colon <= Len(t) => t[w.colon] = ":"
<1>1. PICK c \in Nat \ {0} : c = w.colon
  BY Zenon DEF Placed, IsPlace
<1>2. PICK i \in Nat \ {0} : i = w.name + Len(Quoted(e.key))
  <2>1. PICK n \in Nat \ {0}, l \in Nat : n = w.name /\ l = Len(Quoted(e.key))
    BY PlacesOrdered
  <2>2. n + l \in Nat \ {0}
    OBVIOUS
  <2> QED
    BY <2>1, <2>2, Zenon
<1>3. Blank(t, i, c) /\ (c <= Len(t) => t[c] = ":")
  BY <1>1, <1>2, Zenon DEF Element, Sign
<1>4. ":" \notin White
  BY DEF White
<1>5. c <= Len(t) => t[c] \notin White
  <2> HIDE DEF White
  <2> QED
    BY <1>3, <1>4, Zenon
<1>6. find_non_space(t, i) = IF c <= Len(t) THEN c ELSE 0
  <2> HIDE DEF White
  <2> QED
    BY <1>3, <1>5, NextIs, Zenon
<1> QED
  BY <1>1, <1>2, <1>3, <1>6, Zenon

\* Behind the colon, if the value is a string.
LEMMA StringIs ==
    ASSUME NEW t \in Text, NEW e, Proper(e), CleanElement(e), NEW w, Placed(w), Element(t, e, w),
           e.val.type \in Strings
    PROVE  /\ find_non_space(t, w.colon + 1) = IF w.value <= Len(t) THEN w.value ELSE 0
           /\ w.value <= Len(t) =>
                /\ t[w.value] = Quote
                /\ parse_string_token(t, w.value) =
                      IF w.value - 1 + Len(ValueText(e.val)) <= Len(t)
                      THEN [next |-> w.value + Len(ValueText(e.val)), string |-> e.val.text]
                      ELSE Failed
<1>1. PICK s \in Text : s = e.val.text /\ Clean(s)
  BY Zenon DEF Proper, CleanElement
<1>2. PICK p \in Nat \ {0} : p = w.value
  BY Zenon DEF Placed, IsPlace
<1>3. PICK i \in Nat \ {0} : i = w.colon + 1
  <2>1. PICK c \in Nat \ {0} : c = w.colon
    BY Zenon DEF Placed, IsPlace
  <2> QED
    BY <2>1
<1>a. ValueText(e.val) = Quoted(s)
  BY <1>1, Zenon DEF ValueText
<1>4. Blank(t, i, p) /\ Agrees(t, p, Quoted(s))
  BY <1>a, <1>2, <1>3, Zenon DEF Element
<1>6. Len(t) \in Nat
  BY Lengths
<1>7. ASSUME p <= Len(t) PROVE p \in 1..Len(t) /\ t[p] = Quote /\ t[p] \notin White
  <2>1. p \in 1..Len(t)
    BY <1>6, <1>7
  <2>2. t[p] = Quote
    BY <1>1, <1>4, <2>1, QuoteIsThere
  <2> QED
    BY <2>1, <2>2 DEF Quote, White
<1>8. find_non_space(t, i) = IF p <= Len(t) THEN p ELSE 0
  BY <1>4, <1>7, NextIs
<1>9. ASSUME p <= Len(t)
      PROVE  parse_string_token(t, p) = IF p - 1 + Len(Quoted(s)) <= Len(t)
                                        THEN [next |-> p + Len(Quoted(s)), string |-> s]
                                        ELSE Failed
  <2>1. p \in 1..Len(t)
    BY <1>7, <1>9
  <2> HIDE DEF Failed
  <2> QED
    BY <1>1, <1>4, <2>1, TokenIs
<1> QED
  BY <1>a, <1>1, <1>2, <1>3, <1>7, <1>8, <1>9, Zenon

\* And if it is a number.
LEMMA NumberIs ==
    ASSUME NEW t \in Text, NEW e, Proper(e), CleanElement(e), NEW w, Placed(w), Element(t, e, w),
           e.val.type \notin Strings, w.upto <= Len(t) => Stop(t[w.upto])
    PROVE  /\ find_non_space(t, w.colon + 1) = IF w.value <= Len(t) THEN w.value ELSE 0
           /\ w.value <= Len(t) =>
                /\ t[w.value] \notin {Quote, "NUL"}
                /\ w.upto <= Len(t) =>
                      ParseOther(t, w.colon, w.value) = [next |-> w.upto, string |-> e.val.text]
                /\ ~(w.upto <= Len(t)) =>
                      ParseOther(t, w.colon, w.value) = Outside
                      \/ ParseOther(t, w.colon, w.value).next = Len(t) + 1
<1>1. PICK s \in Text : s = e.val.text /\ Plain(s)
  BY Zenon DEF Proper
<1>2. PICK v \in Nat \ {0} : v = w.value
  BY Zenon DEF Placed, IsPlace
<1>3. PICK c \in Nat \ {0} : c = w.colon
  BY Zenon DEF Placed, IsPlace
<1>b. PICK u \in Nat \ {0} : u = w.upto
  BY Zenon DEF Placed, IsPlace
<1>a. ValueText(e.val) = s
  BY <1>1, Zenon DEF ValueText
<1>4. /\ Blank(t, c + 1, v) /\ Agrees(t, v, s) /\ Blank(t, v + Len(s), u)
      /\ u <= Len(t) => Stop(t[u])
  BY <1>a, <1>b, <1>2, <1>3, Zenon DEF Element
<1>6. Len(t) \in Nat /\ c + 1 \in Nat \ {0} /\ c < v
  <2>1. c + 1 <= v
    BY <1>4 DEF Blank
  <2>2. Len(t) \in Nat
    BY Lengths
  <2> QED
    BY <2>1, <2>2
<1>7. ASSUME v <= Len(t)
      PROVE  v \in 1..Len(t) /\ t[v] \notin White /\ t[v] \notin {Quote, "NUL"}
  <2>1. v \in 1..Len(t)
    BY <1>6, <1>7
  <2>2. /\ Len(s) \in Nat /\ Len(s) # 0
        /\ \A i \in 1..Len(s) : s[i] \notin White \cup {",", "}", Quote, "NUL"}
    <3>1. s # <<>> /\ \A i \in 1..Len(s) : s[i] \notin White \cup {",", "}", Quote, "NUL"}
      BY <1>1, Zenon DEF Plain
    <3>2. s \in Seq(Chars) /\ s # <<>>
      BY <3>1, Lengths, Zenon
    <3> HIDE DEF Chars
    <3>3. Len(s) \in Nat /\ Len(s) # 0
      BY <3>2
    <3> QED
      BY <3>1, <3>3, Zenon
  <2>3. 1 \in 1..Len(s) /\ v - 1 + 1 = v
    <3>1. PICK l \in Nat : l = Len(s) /\ l # 0
      BY <2>2, Zenon
    <3> QED
      BY <3>1
  <2>4. t[v] = s[1]
    BY <1>4, <1>7, <2>3, Zenon DEF Agrees
  <2>5. s[1] \notin White \cup {",", "}", Quote, "NUL"}
    BY <2>2, <2>3, Zenon
  <2> QED
    BY <2>1, <2>4, <2>5, Zenon
<1>8. find_non_space(t, c + 1) = IF v <= Len(t) THEN v ELSE 0
  BY <1>4, <1>6, <1>7, NextIs
<1>9. ASSUME v <= Len(t)
      PROVE  /\ u <= Len(t) => ParseOther(t, c, v) = [next |-> u, string |-> s]
             /\ ~(u <= Len(t)) => ParseOther(t, c, v) = Outside
                                  \/ ParseOther(t, c, v).next = Len(t) + 1
  <2>1. v \in 1..Len(t)
    BY <1>7, <1>9
  <2> HIDE DEF Outside, Plain, Stop, ParseOther, Blank, Agrees
  <2>2. Plain(s) /\ c \in Nat /\ u \in Nat /\ c < v
    BY <1>1, <1>6, Zenon
  <2>3. Agrees(t, v, s) /\ Blank(t, v + Len(s), u) /\ (u <= Len(t) => Stop(t[u]))
    BY <1>4, Zenon
  <2>4. u <= Len(t) => ParseOther(t, c, v) = [next |-> u, string |-> s]
    BY <2>1, <2>2, <2>3, OtherIs
  <2>5. ~(u <= Len(t)) => ParseOther(t, c, v) = Outside
                          \/ ParseOther(t, c, v).next = Len(t) + 1
    BY <2>1, <2>2, <2>3, OtherIs
  <2> QED
    BY <2>4, <2>5
<1> QED
  BY <1>1, <1>2, <1>3, <1>b, <1>7, <1>8, <1>9, Zenon

-----------------------------------------------------------------------------
(* From the text to the object *)

\* How many elements were read; they are the first ones of the object.
Read == Len(parsed.items)
InOrder ==
    /\ Read <= Len(list.items)
    /\ \A i \in 1..Read :
           parsed.items[i] = [key |-> list.items[i].key, val |-> list.items[i].val]

\* Where the parser is, for a text that was written with these places.
AtElement(w) ==
    IF Read < Len(list.items) THEN pos = w[Read + 1].from ELSE list.items = <<>> /\ pos = 2
AtColon(w) ==
    /\ Read < Len(list.items) /\ name = list.items[Read + 1].key
    /\ pos = w[Read + 1].name + Len(Quoted(name))
AtValue(w) ==
    /\ Read < Len(list.items) /\ name = list.items[Read + 1].key
    /\ pos = w[Read + 1].colon + 1
AtAfter(w) == Read \in 1..Len(list.items) /\ Blank(text, pos, w[Read].upto)

\* A parser at the end of a text that was cut off will not come to a result.
Cursor(w) ==
    /\ place = "element" => InOrder /\ AtElement(w)
    /\ place = "colon" => InOrder /\ AtColon(w)
    /\ place = "value" => InOrder /\ AtValue(w)
    /\ place = "after" => (source = "cut" /\ pos > Len(text)) \/ (InOrder /\ AtAfter(w))
    /\ place = "object" => InOrder /\ (source = "whole" => Read = Len(list.items))
    /\ source = "whole" => place \in Parsing \cup {"object"}

\* Nothing was read before a text is received.  A text that an object was made into has
\* a place for each of its elements, and the parser is where they say.
WrittenInv ==
    /\ place = "building" => source = "none" /\ parsed.items = <<>>
    /\ source \in {"whole", "cut"} => kind = "json"
    /\ source \in {"whole", "cut"} /\ CleanItems =>
          \E w : /\ Written(text, list.items, w)
                 /\ source = "whole" => Len(text) = Ends(list.items, w)
                 /\ Cursor(w)

\* What is known while such a text is parsed.
Underway(w) ==
    /\ WellWritten /\ PositionInv /\ ParsedInv /\ ContainerTypeOK
    /\ kind = "json" /\ CleanItems /\ source \in {"whole", "cut"}
    /\ Written(text, list.items, w)
    /\ source = "whole" => Len(text) = Ends(list.items, w)
    /\ Cursor(w)

\* Ways for a step to keep the parser where it belongs.
LEMMA CursorAt ==
    ASSUME NEW w,
           \/ place' = "element" /\ InOrder' /\ AtElement(w)'
           \/ place' = "colon" /\ InOrder' /\ AtColon(w)'
           \/ place' = "value" /\ InOrder' /\ AtValue(w)'
           \/ place' = "after" /\ source' = "cut" /\ pos' > Len(text')
           \/ place' = "after" /\ InOrder' /\ AtAfter(w)'
           \/ place' = "object" /\ InOrder' /\ (source' = "whole" => Read' = Len(list.items)')
           \/ place' \in {"NULL", "outside"} /\ source' # "whole"
    PROVE  Cursor(w)'
  BY DEF Cursor, Parsing

\* What is known of an element and its places.
LEMMA ElementFacts ==
    ASSUME NEW w, Underway(w), NEW i \in 1..Len(list.items)
    PROVE  /\ text \in Text /\ Proper(list.items[i]) /\ CleanElement(list.items[i])
           /\ Placed(w[i]) /\ Element(text, list.items[i], w[i])
           /\ w[i].upto <= Len(text) => text[w[i].upto] = Behind(list.items, i)
           /\ source = "whole" => w[i].upto <= Len(text)
           /\ w[i].from = IF i = 1 THEN 2 ELSE w[i - 1].upto + 1
<1>1. text \in Text
  BY Zenon DEF Underway, PositionInv
<1>2. Proper(list.items[i])
  BY ElementsAreProper, Zenon DEF Underway
<1>3. CleanElement(list.items[i])
  BY Zenon DEF Underway, CleanItems, CleanElement, Items
<1>4. /\ Placed(w[i]) /\ Element(text, list.items[i], w[i])
      /\ w[i].upto <= Len(text) => text[w[i].upto] = Behind(list.items, i)
      /\ w[i].upto <= Ends(list.items, w)
      /\ w[i].from = IF i = 1 THEN 2 ELSE w[i - 1].upto + 1
  BY Zenon DEF Underway, Written, Sign
<1>5. source = "whole" => w[i].upto <= Len(text)
  BY <1>4, Zenon DEF Underway
<1> QED
  BY <1>1, <1>2, <1>3, <1>4, <1>5, Zenon

\* The numbers that occur.
LEMMA Numbers ==
    ASSUME NEW w, Underway(w)
    PROVE  /\ text \in Text /\ Len(text) \in Nat /\ Read \in Nat /\ Len(list.items) \in Nat
           /\ DOMAIN text = 1..Len(text) /\ At(text, 0) = "NUL"
<1>1. text \in Text
  BY Zenon DEF Underway, PositionInv
<1>2. Len(text) \in Nat /\ DOMAIN text = 1..Len(text)
  BY <1>1, Lengths
<1>3. At(text, 0) = "NUL"
  BY <1>2 DEF At
<1>4. Len(list.items) \in Nat
  BY ElementsAreProper, Zenon DEF Underway
<1>5. Read \in Nat
  <2>1. PICK S : parsed \in [items : Seq(S), capacity : Nat]
    BY Zenon DEF Underway, ParsedInv
  <2>2. parsed.items \in Seq(S)
    BY <2>1
  <2> QED
    BY <2>2 DEF Read
<1> QED
  BY <1>1, <1>2, <1>3, <1>4, <1>5

\* What a step without a new element leaves as it was.
LEMMA Unmoved ==
    ASSUME UNCHANGED <<containerVars, text, source, parsed>>
    PROVE  /\ InOrder' = InOrder /\ Read' = Read /\ list' = list /\ text' = text
           /\ source' = source
  BY DEF containerVars, InOrder, Read

\* parse_json in front of an element: the name is read as it was, the object ends
\* if it has no elements, and only a text that was cut off ends in front of a name.
LEMMA NameKeeps ==
    ASSUME NEW w, Underway(w), ParseName
    PROVE  Cursor(w)'
<1>1. /\ text \in Text /\ Len(text) \in Nat /\ Read \in Nat /\ Len(list.items) \in Nat
      /\ DOMAIN text = 1..Len(text) /\ At(text, 0) = "NUL"
  BY Numbers
<1>2. place = "element" /\ InOrder /\ AtElement(w)
  BY Zenon DEF Underway, Cursor, ParseName
<1>3. \/ (pos > Len(text) \/ At(text, Here) = "}") /\ Return("object")
      \/ pos <= Len(text) /\ At(text, Here) \notin {"}", Quote} /\ Fail
      \/ /\ At(text, Here) = Quote
         /\ LET t == parse_string_token(text, Here)
            IN  CASE t = Failed  -> Fail
                  [] t = Outside -> Return("outside")
                  [] OTHER -> Go("colon", t.next) /\ name' = t.string /\ UNCHANGED parsed
  BY Zenon DEF ParseName
<1>4. Quote # "}" /\ Quote # "NUL" /\ "NUL" # "}"
  BY DEF Quote
<1>5. ASSUME Return("object"), source = "whole" => Read = Len(list.items)
      PROVE  Cursor(w)'
  <2>1. UNCHANGED <<containerVars, text, source, parsed>> /\ place' = "object"
    BY <1>5 DEF Return, Go
  <2>2. InOrder' /\ (source' = "whole" => Read' = Len(list.items)')
    BY <1>2, <1>5, <2>1, Unmoved
  <2> QED
    BY <2>1, <2>2, CursorAt
<1>6. ASSUME Fail, source # "whole" PROVE Cursor(w)'
  <2>1. place' = "NULL" /\ source' # "whole"
    BY <1>6 DEF Fail, Go
  <2> QED
    BY <2>1, CursorAt
<1>7. CASE Read < Len(list.items)
  <2> DEFINE i == Read + 1
  <2>1. i \in 1..Len(list.items)
    BY <1>1, <1>7
  <2>2. PICK e : e = list.items[i]
    OBVIOUS
  <2>3. PICK v : v = w[i]
    OBVIOUS
  <2>4. /\ Proper(e) /\ CleanElement(e) /\ Placed(v) /\ Element(text, e, v)
        /\ source = "whole" => v.upto <= Len(text)
    BY <2>1, <2>2, <2>3, ElementFacts, Zenon
  <2>5. pos = v.from
    BY <1>2, <1>7, <2>3, Zenon DEF AtElement
  <2>6. /\ Here = IF v.name <= Len(text) THEN v.name ELSE 0
        /\ v.name <= Len(text) =>
             /\ text[v.name] = Quote
             /\ parse_string_token(text, v.name) =
                   IF v.name - 1 + Len(Quoted(e.key)) <= Len(text)
                   THEN [next |-> v.name + Len(Quoted(e.key)), string |-> e.key]
                   ELSE Failed
    BY <1>1, <2>4, <2>5, NameIs, Zenon DEF Here
  <2>7. /\ v.from \in Nat /\ v.name \in Nat \ {0} /\ v.from <= v.name
        /\ source = "whole" => v.name <= Len(text)
                               /\ v.name - 1 + Len(Quoted(e.key)) <= Len(text)
    BY <1>1, <2>4, PlacesOrdered, PlacesWithin, Zenon
  <2>8. CASE v.name <= Len(text)
    <3>1. Here = v.name /\ At(text, Here) = Quote /\ ~(pos > Len(text))
      <4>1. v.name \in 1..Len(text) /\ ~(v.from > Len(text))
        BY <1>1, <2>7, <2>8
      <4>2. At(text, v.name) = Quote
        BY <1>1, <2>6, <2>8, <4>1, Zenon DEF At
      <4> QED
        BY <2>5, <2>6, <2>8, <4>1, <4>2, Zenon
    <3>2. LET t == parse_string_token(text, v.name)
          IN  CASE t = Failed  -> Fail
                [] t = Outside -> Return("outside")
                [] OTHER -> Go("colon", t.next) /\ name' = t.string /\ UNCHANGED parsed
      BY <1>3, <1>4, <3>1, Zenon
    <3>3. CASE v.name - 1 + Len(Quoted(e.key)) <= Len(text)
      <4>1. parse_string_token(text, v.name)
               = [next |-> v.name + Len(Quoted(e.key)), string |-> e.key]
        BY <2>6, <2>8, <3>3, Zenon
      <4>2. /\ [next |-> v.name + Len(Quoted(e.key)), string |-> e.key] \notin {Failed, Outside}
            /\ [next |-> v.name + Len(Quoted(e.key)), string |-> e.key].next
                  = v.name + Len(Quoted(e.key))
            /\ [next |-> v.name + Len(Quoted(e.key)), string |-> e.key].string = e.key
        BY DEF Failed, Outside
      <4>3. Go("colon", v.name + Len(Quoted(e.key))) /\ name' = e.key /\ parsed' = parsed
        BY <3>2, <4>1, <4>2, Zenon
      <4>4. /\ UNCHANGED <<containerVars, text, source, parsed>> /\ place' = "colon"
            /\ pos' = v.name + Len(Quoted(e.key))
        BY <4>3 DEF Go
      <4>5. InOrder' /\ Read' = Read /\ list' = list
        BY <1>2, <4>4, Unmoved
      <4>6. AtColon(w)'
        BY <1>7, <2>2, <2>3, <4>3, <4>4, <4>5, Zenon DEF AtColon
      <4> QED
        BY <4>4, <4>5, <4>6, CursorAt
    <3>4. CASE ~(v.name - 1 + Len(Quoted(e.key)) <= Len(text))
      <4>1. Fail
        <5>1. parse_string_token(text, v.name) = Failed
          BY <2>6, <2>8, <3>4, Zenon
        <5>2. Failed # Outside
          BY DEF Failed, Outside
        <5> HIDE DEF Failed, Outside
        <5> QED
          BY <3>2, <5>1, <5>2, Zenon
      <4> QED
        BY <1>6, <2>7, <3>4, <4>1
    <3> QED
      BY <3>3, <3>4
  <2>9. CASE ~(v.name <= Len(text))
    <3>1. At(text, Here) = "NUL" /\ source # "whole"
      BY <1>1, <2>6, <2>7, <2>9, Zenon
    <3>2. Return("object") \/ Fail
      BY <1>3, <1>4, <3>1, Zenon
    <3> QED
      BY <1>5, <1>6, <3>1, <3>2
  <2> QED
    BY <2>8, <2>9
<1>8. CASE ~(Read < Len(list.items))
  <2>1. list.items = <<>> /\ pos = 2
    BY <1>2, <1>8, Zenon DEF AtElement
  <2>2. Read = Len(list.items)
    <3>1. Read <= Len(list.items)
      BY <1>2, Zenon DEF InOrder
    <3> QED
      BY <1>1, <1>8, <3>1
  <2>3. 2 <= Len(text) => text[2] = "}"
    BY <2>1, Zenon DEF Underway, Written, Sign
  <2>4. Here = IF 2 <= Len(text) THEN 2 ELSE 0
    <3>1. Blank(text, 2, 2)
      BY DEF Blank
    <3>2. "}" \notin White
      BY DEF White
    <3>3. 2 <= Len(text) => text[2] \notin White
      BY <2>3, <3>2, Zenon
    <3>4. 2 \in Nat \ {0}
      OBVIOUS
    <3>5. find_non_space(text, 2) = IF 2 <= Len(text) THEN 2 ELSE 0
      BY <1>1, <3>1, <3>3, <3>4, NextIs
    <3> QED
      BY <2>1, <3>5, Zenon DEF Here
  <2>5. CASE 2 <= Len(text)
    <3>1. 2 \in 1..Len(text)
      BY <1>1, <2>5
    <3>2. At(text, Here) = "}"
      BY <1>1, <2>3, <2>4, <2>5, <3>1, Zenon DEF At
    <3>3. Return("object")
      BY <1>3, <1>4, <3>2, Zenon
    <3> QED
      BY <1>5, <2>2, <3>3
  <2>6. CASE ~(2 <= Len(text))
    <3>1. At(text, Here) = "NUL"
      BY <1>1, <2>4, <2>6, Zenon
    <3>2. Return("object")
      BY <1>3, <1>4, <2>1, <2>6, <3>1, Zenon
    <3> QED
      BY <1>5, <2>2, <3>2
  <2> QED
    BY <2>5, <2>6
<1> QED
  BY <1>7, <1>8

\* parse_json_element behind a name.
LEMMA ColonKeeps ==
    ASSUME NEW w, Underway(w), ParseColon
    PROVE  Cursor(w)'
<1>1. /\ text \in Text /\ Len(text) \in Nat /\ Read \in Nat /\ Len(list.items) \in Nat
      /\ DOMAIN text = 1..Len(text) /\ At(text, 0) = "NUL"
  BY Numbers

<1>3. IF At(text, Here) = ":" THEN Go("value", Here + 1) /\ UNCHANGED <<name, parsed>> ELSE Fail
  BY Zenon DEF ParseColon
<1>4. InOrder /\ AtColon(w)
  BY Zenon DEF Underway, Cursor, ParseColon
<1> DEFINE i == Read + 1
<1>5. i \in 1..Len(list.items) /\ Read < Len(list.items)
  <2>1. Read < Len(list.items)
    BY <1>4, Zenon DEF AtColon
  <2> QED
    BY <1>1, <2>1
<1>6. PICK e : e = list.items[i]
  OBVIOUS
<1>7. PICK v : v = w[i]
  OBVIOUS
<1>8. /\ Proper(e) /\ CleanElement(e) /\ Placed(v) /\ Element(text, e, v)
      /\ source = "whole" => v.upto <= Len(text)
  BY <1>5, <1>6, <1>7, ElementFacts, Zenon
<1>9. name = e.key /\ pos = v.name + Len(Quoted(e.key))
  BY <1>4, <1>6, <1>7, Zenon DEF AtColon
<1>10. /\ Here = IF v.colon <= Len(text) THEN v.colon ELSE 0
       /\ v.colon <= Len(text) => text[v.colon] = ":"
  BY <1>1, <1>8, <1>9, ColonIs, Zenon DEF Here
<1>11. v.colon \in Nat \ {0} /\ (source = "whole" => v.colon <= Len(text))
  BY <1>1, <1>8, PlacesOrdered, PlacesWithin, Zenon
<1>12. CASE v.colon <= Len(text)
  <2>1. v.colon \in 1..Len(text)
    BY <1>1, <1>11, <1>12
  <2>2. At(text, Here) = ":" /\ Here = v.colon
    BY <1>1, <1>10, <1>12, <2>1, Zenon DEF At
  <2>3. Go("value", v.colon + 1) /\ UNCHANGED <<name, parsed>>
    BY <1>3, <2>2, Zenon
  <2>4. /\ UNCHANGED <<containerVars, text, source, parsed>> /\ place' = "value"
        /\ pos' = v.colon + 1 /\ name' = name
    BY <2>3 DEF Go
  <2>5. InOrder' /\ Read' = Read /\ list' = list
    BY <1>4, <2>4, Unmoved
  <2>6. AtValue(w)'
    BY <1>5, <1>6, <1>7, <1>9, <2>4, <2>5, Zenon DEF AtValue
  <2> QED
    BY <2>4, <2>5, <2>6, CursorAt
<1>13. CASE ~(v.colon <= Len(text))
  <2>1. At(text, Here) = "NUL" /\ source # "whole"
    BY <1>1, <1>10, <1>11, <1>13, Zenon
  <2>2. "NUL" # ":"
    OBVIOUS
  <2>3. Fail
    BY <1>3, <2>1, <2>2, Zenon
  <2>4. place' = "NULL" /\ source' # "whole"
    BY <2>1, <2>3 DEF Fail, Go
  <2> QED
    BY <2>4, CursorAt
<1> QED
  BY <1>12, <1>13

\* The element that comes next in the object is the next that is read.
LEMMA PushedInOrder ==
    ASSUME ParsedInv, InOrder, Read \in Nat, Len(list.items) \in Nat, Read < Len(list.items),
           list' = list,
           parsed' = Push(parsed, [key |-> list.items[Read + 1].key,
                                   val |-> list.items[Read + 1].val])
    PROVE  InOrder' /\ Read' = Read + 1
<1>1. PICK S : parsed \in [items : Seq(S), capacity : Nat]
  BY Zenon DEF ParsedInv
<1>2. PICK s \in Seq(S) : s = parsed.items
  BY <1>1
<1>3. PICK e : e = [key |-> list.items[Read + 1].key, val |-> list.items[Read + 1].val]
  OBVIOUS
<1>4. parsed'.items = Append(s, e)
  BY <1>2, <1>3 DEF Push
<1>5. Len(s) \in Nat /\ Read = Len(s)
  BY <1>2 DEF Read
<1>6. /\ Len(Append(s, e)) = Len(s) + 1 /\ Append(s, e)[Len(s) + 1] = e
      /\ \A i \in 1..Len(s) : Append(s, e)[i] = s[i]
  OBVIOUS
<1>7. Read' = Read + 1
  BY <1>4, <1>5, <1>6 DEF Read
<1>8. ASSUME NEW i \in 1 .. Read + 1
      PROVE  parsed'.items[i] = [key |-> list.items[i].key, val |-> list.items[i].val]
  <2>1. CASE i = Read + 1
    BY <1>3, <1>4, <1>5, <1>6, <2>1
  <2>2. CASE i # Read + 1
    <3>1. i \in 1..Read
      BY <2>2
    <3>2. parsed'.items[i] = s[i]
      BY <1>4, <1>5, <1>6, <3>1, Zenon
    <3> QED
      BY <1>2, <3>1, <3>2, Zenon DEF InOrder
  <2> QED
    BY <2>1, <2>2
<1>9. Read + 1 <= Len(list.items)
  OBVIOUS
<1> QED
  BY <1>7, <1>8, <1>9 DEF InOrder

\* parse_json_element behind a colon: the value is read as it was, or the text was
\* cut off in front of it or inside.
LEMMA ValueKeeps ==
    ASSUME NEW w, Underway(w), ParseValue
    PROVE  Cursor(w)'
<1>1. /\ text \in Text /\ Len(text) \in Nat /\ Read \in Nat /\ Len(list.items) \in Nat
      /\ DOMAIN text = 1..Len(text) /\ At(text, 0) = "NUL"
  BY Numbers
<1>2. InOrder /\ AtValue(w) /\ ParsedInv
  BY Zenon DEF Underway, Cursor, ParseValue
<1>3. \/ Here = 0 /\ Return("outside")
      \/ /\ At(text, Here) = Quote
         /\ LET t == parse_string_token(text, Here)
            IN  CASE t = Failed  -> Fail
                  [] t = Outside -> Return("outside")
                  [] OTHER -> PushElement(t.next, "string", t.string)
      \/ /\ At(text, Here) \notin {"NUL", Quote}
         /\ LET t == ParseOther(text, pos - 1, Here)
            IN  IF t = Outside THEN Return("outside") ELSE PushElement(t.next, "number", t.string)
  BY Zenon DEF ParseValue
<1>4. Quote # "NUL"
  BY DEF Quote
<1> DEFINE i == Read + 1
<1>5. i \in 1..Len(list.items) /\ Read < Len(list.items)
  <2>1. Read < Len(list.items)
    BY <1>2, Zenon DEF AtValue
  <2> QED
    BY <1>1, <2>1
<1>6. PICK e : e = list.items[i]
  OBVIOUS
<1>7. PICK v : v = w[i]
  OBVIOUS
<1>8. /\ Proper(e) /\ CleanElement(e) /\ Placed(v) /\ Element(text, e, v)
      /\ v.upto <= Len(text) => text[v.upto] = Behind(list.items, i)
      /\ source = "whole" => v.upto <= Len(text)
  BY <1>5, <1>6, <1>7, ElementFacts, Zenon
<1>9. name = e.key /\ pos = v.colon + 1
  BY <1>2, <1>6, <1>7, Zenon DEF AtValue
<1>10. /\ v.colon \in Nat \ {0} /\ v.value \in Nat \ {0} /\ v.upto \in Nat \ {0}
       /\ Len(ValueText(e.val)) \in Nat
       /\ v.value + Len(ValueText(e.val)) <= v.upto
       /\ source = "whole" => /\ v.value <= Len(text)
                              /\ v.value - 1 + Len(ValueText(e.val)) <= Len(text)
  BY <1>1, <1>8, PlacesOrdered, PlacesWithin, Zenon
<1>11. ASSUME Return("outside") \/ Fail, source # "whole" PROVE Cursor(w)'
  <2>1. place' \in {"outside", "NULL"} /\ source' # "whole"
    BY <1>11 DEF Return, Fail, Go
  <2> QED
    BY <2>1, CursorAt
<1>12. ASSUME NEW next, NEW string, PushElement(next, e.val.type, string), string = e.val.text,
              Blank(text, next, v.upto)
       PROVE  Cursor(w)'
  <2>1. [type |-> e.val.type, text |-> e.val.text] = e.val
    BY <1>8, Zenon DEF Proper
  <2>2. /\ place' = "after" /\ pos' = next /\ UNCHANGED <<containerVars, text, source>>
        /\ parsed' = Push(parsed, [key |-> e.key, val |-> e.val])
    BY <1>9, <1>12, <2>1 DEF PushElement, Go
  <2>3. list' = list /\ text' = text
    BY <2>2 DEF containerVars
  <2>4. InOrder' /\ Read' = i
    BY <1>1, <1>2, <1>5, <1>6, <2>2, <2>3, PushedInOrder
  <2>5. AtAfter(w)'
    BY <1>5, <1>7, <1>12, <2>2, <2>3, <2>4, Zenon DEF AtAfter
  <2> QED
    BY <2>2, <2>4, <2>5, CursorAt
<1>13. ASSUME Here = 0 PROVE At(text, Here) = "NUL" /\ Return("outside")
  BY <1>1, <1>3, <1>4, <1>13, Zenon
<1>14. CASE e.val.type \in Strings
  <2>1. /\ Here = IF v.value <= Len(text) THEN v.value ELSE 0
        /\ v.value <= Len(text) =>
             /\ text[v.value] = Quote
             /\ parse_string_token(text, v.value) =
                   IF v.value - 1 + Len(ValueText(e.val)) <= Len(text)
                   THEN [next |-> v.value + Len(ValueText(e.val)), string |-> e.val.text]
                   ELSE Failed
    BY <1>1, <1>8, <1>9, <1>14, StringIs, Zenon DEF Here
  <2>2. CASE v.value <= Len(text)
    <3>1. v.value \in 1..Len(text) /\ v.value # 0
      BY <1>1, <1>10, <2>2
    <3>2. At(text, Here) = Quote /\ Here = v.value
      BY <1>1, <2>1, <2>2, <3>1, Zenon DEF At
    <3>3. LET t == parse_string_token(text, v.value)
          IN  CASE t = Failed  -> Fail
                [] t = Outside -> Return("outside")
                [] OTHER -> PushElement(t.next, "string", t.string)
      BY <1>3, <3>1, <3>2, Zenon
    <3>4. CASE v.value - 1 + Len(ValueText(e.val)) <= Len(text)
      <4> DEFINE next == v.value + Len(ValueText(e.val))
      <4>1. parse_string_token(text, v.value) = [next |-> next, string |-> e.val.text]
        BY <2>1, <2>2, <3>4, Zenon
      <4>2. /\ [next |-> next, string |-> e.val.text] \notin {Failed, Outside}
            /\ [next |-> next, string |-> e.val.text].next = next
            /\ [next |-> next, string |-> e.val.text].string = e.val.text
        BY DEF Failed, Outside
      <4>3. PushElement(next, "string", e.val.text) /\ e.val.type = "string"
        BY <1>14, <3>3, <4>1, <4>2, Zenon DEF Strings
      <4>4. Blank(text, next, v.upto)
        BY <1>8, Zenon DEF Element
      <4> HIDE DEF next
      <4> QED
        BY <1>12, <4>3, <4>4, Zenon
    <3>5. CASE ~(v.value - 1 + Len(ValueText(e.val)) <= Len(text))
      <4>1. Fail
        <5>1. parse_string_token(text, v.value) = Failed
          BY <2>1, <2>2, <3>5, Zenon
        <5>2. Failed # Outside
          BY DEF Failed, Outside
        <5> HIDE DEF Failed, Outside
        <5> QED
          BY <3>3, <5>1, <5>2, Zenon
      <4> QED
        BY <1>10, <1>11, <3>5, <4>1
    <3> QED
      BY <3>4, <3>5
  <2>3. CASE ~(v.value <= Len(text))
    <3>1. Here = 0
      BY <2>1, <2>3, Zenon
    <3> QED
      BY <1>10, <1>11, <1>13, <2>3, <3>1
  <2> QED
    BY <2>2, <2>3
<1>15. CASE e.val.type \notin Strings
  <2>1. v.upto <= Len(text) => Stop(text[v.upto])
    BY <1>8, Zenon DEF Behind, Stop
  <2>2. /\ Here = IF v.value <= Len(text) THEN v.value ELSE 0
        /\ v.value <= Len(text) =>
             /\ text[v.value] \notin {Quote, "NUL"}
             /\ v.upto <= Len(text) =>
                   ParseOther(text, v.colon, v.value) = [next |-> v.upto, string |-> e.val.text]
             /\ ~(v.upto <= Len(text)) =>
                   ParseOther(text, v.colon, v.value) = Outside
                   \/ ParseOther(text, v.colon, v.value).next = Len(text) + 1
    BY <1>1, <1>8, <1>9, <1>15, <2>1, NumberIs, Zenon DEF Here
  <2>3. CASE v.value <= Len(text)
    <3>1. v.value \in 1..Len(text) /\ v.value # 0
      BY <1>1, <1>10, <2>3
    <3>2. At(text, Here) \notin {"NUL", Quote} /\ Here = v.value
      BY <1>1, <2>2, <2>3, <3>1, Zenon DEF At
    <3>a. pos - 1 = v.colon
      BY <1>9, <1>10
    <3>3. LET t == ParseOther(text, v.colon, v.value)
          IN  IF t = Outside THEN Return("outside") ELSE PushElement(t.next, "number", t.string)
      BY <1>3, <3>1, <3>2, <3>a, Zenon
    <3>4. CASE v.upto <= Len(text)
      <4>1. ParseOther(text, v.colon, v.value) = [next |-> v.upto, string |-> e.val.text]
        BY <2>2, <2>3, <3>4, Zenon
      <4>2. /\ [next |-> v.upto, string |-> e.val.text] # Outside
            /\ [next |-> v.upto, string |-> e.val.text].next = v.upto
            /\ [next |-> v.upto, string |-> e.val.text].string = e.val.text
        BY DEF Outside
      <4>3. PushElement(v.upto, "number", e.val.text) /\ e.val.type = "number"
        BY <1>8, <1>15, <3>3, <4>1, <4>2, Zenon DEF Proper
      <4>4. Blank(text, v.upto, v.upto)
        BY <1>10 DEF Blank
      <4> QED
        BY <1>12, <4>3, <4>4, Zenon
    <3>5. CASE ~(v.upto <= Len(text))
      <4>1. source # "whole" /\ source = "cut"
        BY <1>8, <3>5, Zenon DEF Underway
      <4>2. CASE Return("outside")
        BY <1>11, <4>1, <4>2
      <4>3. CASE /\ PushElement(ParseOther(text, v.colon, v.value).next, "number",
                                ParseOther(text, v.colon, v.value).string)
                 /\ ParseOther(text, v.colon, v.value) # Outside
        <5>1. ParseOther(text, v.colon, v.value).next = Len(text) + 1
          BY <2>2, <2>3, <3>5, <4>3, Zenon
        <5>2. Go("after", Len(text) + 1)
          BY <4>3, <5>1, Zenon DEF PushElement
        <5>3. place' = "after" /\ source' = "cut" /\ pos' = Len(text) + 1 /\ text' = text
          BY <4>1, <5>2 DEF Go
        <5>4. pos' > Len(text')
          BY <1>1, <5>3
        <5> QED
          BY <5>3, <5>4, CursorAt
      <4> QED
        BY <3>3, <4>2, <4>3, Zenon
    <3> QED
      BY <3>4, <3>5
  <2>4. CASE ~(v.value <= Len(text))
    <3>1. Here = 0
      BY <2>2, <2>4, Zenon
    <3> QED
      BY <1>10, <1>11, <1>13, <2>4, <3>1
  <2> QED
    BY <2>3, <2>4
<1> QED
  BY <1>14, <1>15

\* parse_json behind an element: another one follows, or it was the last.
LEMMA AfterKeeps ==
    ASSUME NEW w, Underway(w), ParseAfter
    PROVE  Cursor(w)'
<1>1. /\ text \in Text /\ Len(text) \in Nat /\ Read \in Nat /\ Len(list.items) \in Nat
      /\ DOMAIN text = 1..Len(text) /\ At(text, 0) = "NUL"
  BY Numbers
<1>2. (source = "cut" /\ pos > Len(text)) \/ (InOrder /\ AtAfter(w))
  BY Zenon DEF Underway, Cursor, ParseAfter
<1>3. \/ Here = 0 /\ Return("outside")
      \/ At(text, Here) = "}" /\ Return("object")
      \/ At(text, Here) = "," /\ Go("element", Here + 1) /\ UNCHANGED <<name, parsed>>
      \/ Here # 0 /\ At(text, Here) \notin {"}", ","} /\ Fail
  BY Zenon DEF ParseAfter
<1>4. "NUL" # "}" /\ "NUL" # "," /\ "," # "}"
  OBVIOUS
<1>5. ASSUME Here = 0, source # "whole" PROVE Cursor(w)'
  <2>1. Return("outside")
    BY <1>1, <1>3, <1>4, <1>5, Zenon
  <2>2. place' = "outside" /\ source' # "whole"
    BY <1>5, <2>1 DEF Return, Go
  <2> QED
    BY <2>2, CursorAt
<1>6. pos \in Nat \ {0}
  <2>1. pos \in 1 .. Len(text) + 2
    BY Zenon DEF Underway, PositionInv
  <2> QED
    BY <1>1, <2>1
<1>7. CASE source = "cut" /\ pos > Len(text)
  <2>1. Blank(text, pos, pos)
    BY <1>6 DEF Blank
  <2>2. ~(pos <= Len(text))
    BY <1>1, <1>6, <1>7
  <2>3. Here = 0
    <3>1. find_non_space(text, pos) = IF pos <= Len(text) THEN pos ELSE 0
      BY <1>1, <1>6, <2>1, <2>2, NextIs
    <3> QED
      BY <2>2, <3>1, Zenon DEF Here
  <2> QED
    BY <1>5, <1>7, <2>3
<1>8. CASE InOrder /\ AtAfter(w)
  <2>1. Read \in 1..Len(list.items) /\ Blank(text, pos, w[Read].upto)
    BY <1>8, Zenon DEF AtAfter
  <2>2. PICK v : v = w[Read]
    OBVIOUS
  <2>3. /\ Placed(v) /\ (v.upto <= Len(text) => text[v.upto] = Behind(list.items, Read))
        /\ source = "whole" => v.upto <= Len(text)
    BY <2>1, <2>2, ElementFacts, Zenon
  <2>4. PICK u \in Nat \ {0} : u = v.upto
    BY <2>3, Zenon DEF Placed, IsPlace
  <2>5. Here = IF u <= Len(text) THEN u ELSE 0
    <3>1. Behind(list.items, Read) \notin White
      <4>1. Behind(list.items, Read) = "}" \/ Behind(list.items, Read) = ","
        BY Zenon DEF Behind
      <4>2. "}" \notin White /\ "," \notin White
        BY DEF White
      <4> QED
        BY <4>1, <4>2, Zenon
    <3>2. u <= Len(text) => text[u] \notin White
      BY <2>3, <2>4, <3>1, Zenon
    <3>3. Blank(text, pos, u) /\ u \in Nat
      BY <2>1, <2>2, <2>4
    <3> HIDE DEF White
    <3>4. find_non_space(text, pos) = IF u <= Len(text) THEN u ELSE 0
      BY <1>1, <1>6, <3>2, <3>3, NextIs
    <3> QED
      BY <3>4, Zenon DEF Here
  <2>6. CASE u <= Len(text)
    <3>1. u \in 1..Len(text) /\ Here = u /\ Here # 0
      BY <1>1, <2>5, <2>6
    <3>2. At(text, Here) = Behind(list.items, Read)
      BY <1>1, <2>3, <2>4, <2>6, <3>1, Zenon DEF At
    <3>3. CASE Read = Len(list.items)
      <4>1. At(text, Here) = "}"
        BY <3>2, <3>3, Zenon DEF Behind
      <4>2. Return("object")
        BY <1>3, <1>4, <3>1, <4>1, Zenon
      <4>3. UNCHANGED <<containerVars, text, source, parsed>> /\ place' = "object"
        BY <4>2 DEF Return, Go
      <4>4. InOrder' /\ Read' = Len(list.items)'
        BY <1>8, <3>3, <4>3, Unmoved
      <4> QED
        BY <4>3, <4>4, CursorAt
    <3>4. CASE Read # Len(list.items)
      <4>1. At(text, Here) = ","
        BY <3>2, <3>4, Zenon DEF Behind
      <4>2. Go("element", u + 1) /\ UNCHANGED <<name, parsed>>
        BY <1>3, <1>4, <3>1, <4>1, Zenon
      <4>3. /\ UNCHANGED <<containerVars, text, source, parsed>> /\ place' = "element"
            /\ pos' = u + 1
        BY <4>2 DEF Go
      <4>4. InOrder' /\ Read' = Read /\ list' = list
        BY <1>8, <4>3, Unmoved
      <4>5. Read < Len(list.items) /\ Read + 1 \in 1..Len(list.items) /\ Read + 1 # 1
            /\ Read + 1 - 1 = Read
        BY <1>1, <2>1, <3>4
      <4>6. w[Read + 1].from = u + 1
        <5>1. PICK k \in 1..Len(list.items) : k = Read + 1 /\ k # 1 /\ k - 1 = Read
          <6> DEFINE k == Read + 1
          <6>1. k \in 1..Len(list.items) /\ k # 1 /\ k - 1 = Read
            BY <1>1, <4>5
          <6> HIDE DEF k
          <6>2. \E l \in 1..Len(list.items) : l = k /\ l # 1 /\ l - 1 = Read
            BY <6>1
          <6> QED
            BY <6>2 DEF k
        <5>2. w[k].from = IF k = 1 THEN 2 ELSE w[k - 1].upto + 1
          BY ElementFacts, Zenon
        <5> QED
          BY <2>2, <2>4, <5>1, <5>2, Zenon
      <4>7. AtElement(w)'
        BY <4>3, <4>4, <4>5, <4>6, Zenon DEF AtElement
      <4> QED
        BY <4>3, <4>4, <4>7, CursorAt
    <3> QED
      BY <3>3, <3>4
  <2>7. CASE ~(u <= Len(text))
    <3>1. Here = 0 /\ source # "whole"
      BY <2>3, <2>4, <2>5, <2>7, Zenon
    <3> QED
      BY <1>5, <3>1
  <2> QED
    BY <2>6, <2>7
<1> QED
  BY <1>2, <1>7, <1>8

\* What an object was made into is being parsed from its second character on.
LEMMA ReceivedIsWritten ==
    ASSUME WellWritten, ContainerTypeOK, kind = "json", parsed.items = <<>>,
           NEW pad \in Text, AllWhite(pad), NEW n \in 0..Len(Rendered(list.items, pad)),
           NEW how \in {"whole", "cut"}, how = "whole" => n = Len(Rendered(list.items, pad)),
           Receive(SubSeq(Rendered(list.items, pad), 1, n), how)
    PROVE  WrittenInv'
<1> DEFINE R == Rendered(list.items, pad)
           t == SubSeq(R, 1, n)
<1>1. /\ text' = t /\ source' = how /\ pos' = 2 /\ parsed' = parsed /\ UNCHANGED containerVars
      /\ place' = IF At(t, 1) = "{" THEN "element" ELSE "NULL"
  BY Zenon DEF Receive
<1>2. kind' = kind /\ list' = list
  BY <1>1 DEF containerVars
<1>3. list.items \in Seq(Record)
  BY DEF ContainerTypeOK, Record
<1>4. \A i \in 1..Len(list.items) : list.items[i].key \in Text /\ list.items[i].val.text \in Text
  BY ElementsAreProper, Zenon DEF Proper
<1>5. PICK w : /\ Written(t, list.items, w) /\ Len(t) = n
               /\ n = Len(R) => Len(t) = Ends(list.items, w) /\ 1 <= n /\ t[1] = "{"
  <2>1. ASSUME NEW items \in Seq(Record), NEW k \in 0..Len(Rendered(items, pad)),
               \A i \in 1..Len(items) : items[i].key \in Text /\ items[i].val.text \in Text
        PROVE  \E w : /\ Written(SubSeq(Rendered(items, pad), 1, k), items, w)
                      /\ Len(SubSeq(Rendered(items, pad), 1, k)) = k
                      /\ k = Len(Rendered(items, pad)) =>
                            /\ Len(SubSeq(Rendered(items, pad), 1, k)) = Ends(items, w)
                            /\ 1 <= k /\ SubSeq(Rendered(items, pad), 1, k)[1] = "{"
    BY <2>1, RenderedPlaces, Zenon
  <2> QED
    BY <1>3, <1>4, <2>1, Zenon
<1>6. R \in Text
  BY RenderedType, SignsAreText
<1>7. t \in Text
  <2>1. R \in Seq(Chars) /\ Len(R) \in Nat
    BY <1>6, Lengths
  <2>2. n \in 0..Len(R)
    OBVIOUS
  <2> HIDE DEF Chars, R
  <2> QED
    BY <2>1, <2>2 DEF Text
<1> HIDE DEF R, t
<1>8. Len(t) \in Nat /\ DOMAIN t = 1..Len(t)
  BY <1>7, Lengths
<1>9. how = "whole" => Len(t) = Ends(list.items, w) /\ At(t, 1) = "{"
  <2> SUFFICES ASSUME how = "whole" PROVE Len(t) = Ends(list.items, w) /\ At(t, 1) = "{"
    OBVIOUS
  <2>1. n = Len(R)
    BY DEF R
  <2>2. Len(t) = Ends(list.items, w) /\ 1 <= Len(t) /\ t[1] = "{"
    BY <1>5, <2>1, Zenon
  <2>3. 1 \in DOMAIN t
    <3>1. 1 <= Len(t)
      BY <2>2, Zenon
    <3> QED
      BY <1>8, <3>1
  <2> QED
    BY <2>2, <2>3, Zenon DEF At
<1>10. Cursor(w)'
  <2>1. CASE At(t, 1) = "{"
    <3>1. place' = "element"
      BY <1>1, <2>1, Zenon
    <3>2. Read' = 0 /\ Len(list.items) \in Nat
      BY <1>1, ElementsAreProper DEF Read
    <3>3. InOrder'
      BY <1>2, <3>2 DEF InOrder
    <3>4. AtElement(w)'
      <4>1. CASE list.items = <<>>
        <5>1. Len(list.items) = 0 /\ ~(0 < Len(list.items))
          BY <4>1
        <5> QED
          BY <1>1, <1>2, <3>2, <4>1, <5>1, Zenon DEF AtElement
      <4>2. CASE list.items # <<>>
        <5>1. 0 < Len(list.items) /\ 1 \in 1..Len(list.items)
          BY <1>3, <4>2
        <5>2. w[1].from = 2
          BY <1>5, <5>1, Zenon DEF Written
        <5>3. w[0 + 1].from = 2
          BY <5>2
        <5> QED
          BY <1>1, <1>2, <3>2, <5>1, <5>3, Zenon DEF AtElement
      <4> QED
        BY <4>1, <4>2
    <3> QED
      BY <3>1, <3>3, <3>4, CursorAt
  <2>2. CASE At(t, 1) # "{"
    <3>1. place' = "NULL" /\ source' # "whole"
      BY <1>1, <1>9, <2>2, Zenon
    <3> QED
      BY <3>1, CursorAt
  <2> QED
    BY <2>1, <2>2
<1>11. place' # "building" /\ kind' = "json"
  BY <1>1, <1>2
<1>12. \E v : /\ Written(text', list'.items, v)
              /\ source' = "whole" => Len(text') = Ends(list'.items, v)
              /\ Cursor(v)'
  BY <1>1, <1>2, <1>5, <1>9, <1>10, Zenon
<1> QED
  BY <1>11, <1>12, Zenon DEF WrittenInv

\* Every step leaves the parser where it belongs.
LEMMA WrittenKept ==
    ASSUME WellWritten, JsonInv, WrittenInv, [JsonNext]_jsonVars
    PROVE  WrittenInv'
<1>1. PositionInv /\ ParsedInv /\ ContainerTypeOK
  BY DEF JsonInv, ContainerInv
<1>2. CASE UNCHANGED jsonVars
  BY <1>2 DEF jsonVars, containerVars, parserVars, WrittenInv, Cursor, InOrder, Read, AtElement,
              AtColon, AtValue, AtAfter, CleanItems, Items
<1>3. place = "building" => source = "none" /\ parsed.items = <<>>
  BY Zenon DEF WrittenInv
<1>4. CASE Build
  <2>1. source' = "none" /\ parsed'.items = <<>>
    BY <1>3, <1>4 DEF Build, parserVars
  <2> QED
    BY <2>1 DEF WrittenInv
<1>5. CASE Stringify
  <2>1. CASE Receive(json_object_stringify(list.items), "whole")
    <3> DEFINE R == Rendered(list.items, <<>>)
    <3>1. R \in Text /\ <<>> \in Text /\ AllWhite(<<>>)
      <4>1. <<>> \in Text
        BY SignsAreText, Zenon
      <4>2. R \in Text
        BY <1>1, <1>5, <4>1, RenderedType DEF Stringify
      <4>3. \A i \in 1..Len(<<>>) : FALSE
        OBVIOUS
      <4> QED
        BY <4>1, <4>2, <4>3, Zenon DEF AllWhite
    <3>2. SubSeq(R, 1, Len(R)) = R /\ Len(R) \in 0..Len(R)
      <4>1. R \in Seq(Chars) /\ Len(R) \in Nat
        BY <3>1, Lengths
      <4> HIDE DEF Chars, R
      <4> QED
        BY <4>1, WholePart
    <3>3. Receive(SubSeq(R, 1, Len(R)), "whole")
      BY <2>1, <3>2, Zenon DEF json_object_stringify
    <3>4. kind = "json" /\ parsed.items = <<>>
      BY <1>3, <1>5 DEF Stringify
    <3> QED
      BY <1>1, <3>1, <3>2, <3>3, <3>4, ReceivedIsWritten
  <2>2. CASE place' = "assert" /\ UNCHANGED source
    <3>1. source' = "none"
      BY <1>3, <1>5, <2>2 DEF Stringify
    <3> QED
      BY <2>2, <3>1 DEF WrittenInv
  <2> QED
    BY <1>5, <2>1, <2>2 DEF Stringify
<1>6. ASSUME NEW pad \in Paddings, ReceiveBody(pad)
      PROVE  WrittenInv'
  <2> DEFINE R == Rendered(list.items, pad)
  <2>1. pad \in Seq(Characters) /\ pad \in Text
    BY JsonAssumption, StringsAreText
  <2>2. AllWhite(pad)
    <3>1. \A i \in 1..Len(pad) : pad[i] \in Range(pad)
      BY <2>1 DEF Range
    <3>2. Range(pad) \subseteq White
      BY Zenon DEF WellWritten
    <3> HIDE DEF White
    <3> QED
      BY <3>1, <3>2, Zenon DEF AllWhite
  <2>3. kind = "json" /\ parsed.items = <<>>
    BY <1>3, <1>6 DEF ReceiveBody
  <2>4. PICK length \in 0..Len(R) :
            Receive(SubSeq(R, 1, length), IF length = Len(R) THEN "whole" ELSE "cut")
    BY <1>6, Zenon DEF ReceiveBody
  <2>5. PICK how \in {"whole", "cut"} :
            /\ how = IF length = Len(R) THEN "whole" ELSE "cut"
            /\ how = "whole" => length = Len(R)
    OBVIOUS
  <2> HIDE DEF R
  <2>6. Receive(SubSeq(R, 1, length), how)
    BY <2>4, <2>5, Zenon
  <2> QED
    BY <1>1, <2>1, <2>2, <2>3, <2>5, <2>6, ReceivedIsWritten DEF R
<1>7. CASE ReceiveText
  <2>1. place' # "building" /\ source' = "given"
    BY <1>7 DEF ReceiveText, Receive
  <2> QED
    BY <2>1 DEF WrittenInv
<1>8. CASE ParseStep
  <2>1. /\ place \in Parsing /\ place' # "building"
        /\ UNCHANGED <<containerVars, text, source>>
    BY <1>8 DEF ParseStep, ParseName, ParseColon, ParseValue, ParseAfter, Parsing,
                Return, Fail, PushElement, Go
  <2>2. list' = list /\ kind' = kind /\ text' = text /\ source' = source /\ CleanItems' = CleanItems
    BY <2>1 DEF containerVars, CleanItems, Items
  <2>3. ASSUME source \in {"whole", "cut"}, CleanItems
        PROVE  \E w : /\ Written(text', list'.items, w)
                      /\ source' = "whole" => Len(text') = Ends(list'.items, w)
                      /\ Cursor(w)'
    <3>1. PICK w : /\ Written(text, list.items, w)
                   /\ source = "whole" => Len(text) = Ends(list.items, w)
                   /\ Cursor(w)
      BY <2>3, Zenon DEF WrittenInv
    <3>2. kind = "json"
      BY <2>3, Zenon DEF WrittenInv
    <3>3. Underway(w)
      BY <1>1, <2>3, <3>1, <3>2, Zenon DEF Underway
    <3>4. Cursor(w)'
      BY <1>8, <3>3, NameKeeps, ColonKeeps, ValueKeeps, AfterKeeps, Zenon DEF ParseStep
    <3> QED
      BY <2>2, <3>1, <3>4, Zenon
  <2>4. source \in {"whole", "cut"} => kind = "json"
    BY Zenon DEF WrittenInv
  <2> QED
    BY <2>1, <2>2, <2>3, <2>4, Zenon DEF WrittenInv
<1> QED
  BY <1>2, <1>4, <1>5, <1>6, <1>7, <1>8 DEF JsonNext

\* While a text that an object was made into is parsed, whole or cut off, with any
\* white space between its tokens, the parser stands at a token of the element whose
\* turn it is, and has read the ones before it.
THEOREM WrittenInvariance ==
    ASSUME WellWritten
    PROVE  JsonSpec => []WrittenInv
<1>1. JsonInit => WrittenInv
  BY DEF JsonInit, WrittenInv, EmptyList
<1>2. JsonInv /\ WrittenInv /\ [JsonNext]_jsonVars => WrittenInv'
  BY WrittenKept
<1> QED
  BY <1>1, <1>2, JsonInvariance, PTL DEF JsonSpec

\* What was read, as a sequence.
LEMMA ReadIs ==
    ASSUME ParsedInv, InOrder, Len(list.items) \in Nat
    PROVE  /\ Read = Len(list.items) => parsed.items = Original
           /\ IsPrefix(parsed.items, Original)
<1>1. PICK S : parsed \in [items : Seq(S), capacity : Nat]
  BY Zenon DEF ParsedInv
<1>2. PICK s \in Seq(S) : s = parsed.items /\ Len(s) = Read
  BY <1>1 DEF Read
<1> DEFINE N == Len(list.items)
           copy(i) == [key |-> list.items[i].key, val |-> list.items[i].val]
           T == {copy(i) : i \in 1..N}
<1>3. Original = [i \in 1..N |-> copy(i)]
  BY DEF Original, Items
<1>4. PICK o \in Seq(T) : o = Original /\ Len(o) = N /\ \A i \in 1..N : o[i] = copy(i)
  <2>1. \A i \in 1..N : copy(i) \in T
    OBVIOUS
  <2> HIDE DEF copy, T, N
  <2>2. N \in Nat
    BY DEF N
  <2>3. [i \in 1..N |-> copy(i)] \in Seq(T) /\ Len([i \in 1..N |-> copy(i)]) = N
        /\ \A i \in 1..N : [j \in 1..N |-> copy(j)][i] = copy(i)
    BY <2>1, <2>2
  <2> QED
    BY <1>3, <2>3
<1>5. Len(s) \in Nat /\ Len(s) <= N /\ \A i \in 1..Len(s) : s[i] = copy(i)
  <2>1. Len(s) \in Nat
    OBVIOUS
  <2>2. Len(s) <= N /\ \A i \in 1..Len(s) : s[i] = copy(i)
    BY <1>2, Zenon DEF InOrder
  <2> QED
    BY <2>1, <2>2
<1> HIDE DEF copy, T, N
<1>6. \A i \in 1..Len(s) : s[i] = o[i]
  <2>1. Len(s) \in Nat /\ N \in Nat
    BY <1>5 DEF N
  <2>2. \A i \in 1..Len(s) : i \in 1..N
    BY <1>5, <2>1
  <2> QED
    BY <1>4, <1>5, <2>2, Zenon
<1>7. Len(s) = N => s = o
  BY <1>4, <1>6, SameItems
<1>8. IsPrefix(s, o)
  <2>1. SubSeq(s, 1, Len(s)) = s
    BY WholePart
  <2>2. /\ SubSeq(o, 1, Len(s)) \in Seq(T) /\ Len(SubSeq(o, 1, Len(s))) = Len(s)
        /\ \A i \in 1..Len(s) : SubSeq(o, 1, Len(s))[i] = o[i]
    BY <1>4, <1>5
  <2>3. s = SubSeq(o, 1, Len(s))
    BY <1>6, <2>2, SameItems
  <2> QED
    BY <1>4, <1>5, <2>1, <2>3 DEF IsPrefix
<1> QED
  BY <1>2, <1>4, <1>7, <1>8 DEF N

\* What was turned into text is read back as it was, for every object whose strings
\* do not end in a backslash, of any size.
THEOREM WholeComesBack ==
    ASSUME WellWritten
    PROVE  JsonSpec => []RoundTrip
<1>1. JsonInv /\ WrittenInv => RoundTrip
  <2> SUFFICES ASSUME JsonInv, WrittenInv, source = "whole", CleanItems
               PROVE  /\ place \in Parsing \cup {"object"}
                      /\ place = "object" => parsed.items = Original
    BY DEF RoundTrip
  <2>1. PICK w : Cursor(w)
    BY Zenon DEF WrittenInv
  <2>2. place \in Parsing \cup {"object"}
    BY <2>1, Zenon DEF Cursor
  <2>3. kind = "json" /\ ContainerTypeOK /\ ParsedInv
    BY Zenon DEF WrittenInv, JsonInv, ContainerInv
  <2>4. Len(list.items) \in Nat
    BY <2>3, ElementsAreProper, Zenon
  <2>5. place = "object" => InOrder /\ Read = Len(list.items)
    BY <2>1, Zenon DEF Cursor
  <2> QED
    BY <2>2, <2>3, <2>4, <2>5, ReadIs, Zenon
<1> QED
  BY <1>1, JsonInvariance, WrittenInvariance, PTL

\* If only the beginning of the text has arrived, what is read is the beginning of
\* the object.
THEOREM CutComesShort ==
    ASSUME WellWritten
    PROVE  JsonSpec => []CutGivesPrefix
<1>1. JsonInv /\ WrittenInv => CutGivesPrefix
  <2> SUFFICES ASSUME JsonInv, WrittenInv, source \in {"whole", "cut"}, CleanItems,
                      place \in {"element", "object"}
               PROVE  IsPrefix(parsed.items, Original)
    BY DEF CutGivesPrefix
  <2>1. PICK w : Cursor(w)
    BY Zenon DEF WrittenInv
  <2>2. kind = "json" /\ ContainerTypeOK /\ ParsedInv
    BY Zenon DEF WrittenInv, JsonInv, ContainerInv
  <2>3. Len(list.items) \in Nat
    BY <2>2, ElementsAreProper, Zenon
  <2>4. InOrder
    BY <2>1, Zenon DEF Cursor
  <2> QED
    BY <2>2, <2>3, <2>4, ReadIs, Zenon
<1> QED
  BY <1>1, JsonInvariance, WrittenInvariance, PTL
=============================================================================
