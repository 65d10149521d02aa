--------------------------- MODULE UtilityProofs ----------------------------
(***************************************************************************)
(* Facts about Utility and about the operators that the models are built   *)
(* from: positions, sequences put together, sums, lists that grow, and     *)
(* texts that are taken apart, put together or read piece by piece.        *)
(* Induction over data is by a smallest counterexample: MinFacts gives it, *)
(* from the library's theorem that < is well-founded on the naturals.      *)
(***************************************************************************)
EXTENDS Utility, FiniteSetTheorems, SequenceTheorems, WellFoundedInduction, TLAPS

(* Positions *)

\* A set of positions that is not empty has a first one.
LEMMA MinFacts ==
    ASSUME NEW I \in SUBSET Nat, I # {}
    PROVE  Min(I) \in I /\ \A y \in I : Min(I) <= y
<1>1. PICK x \in I : \A y \in I : <<y, x>> \notin OpToRel(<, Nat)
  BY NatLessThanWellFounded, WFMin
<1>2. ASSUME NEW y \in I PROVE x <= y
  <2>1. x \in Nat /\ y \in Nat /\ <<y, x>> \in Nat \X Nat
    OBVIOUS
  <2>2. <<y, x>>[1] = y /\ <<y, x>>[2] = x
    OBVIOUS
  <2>3. ~(<<y, x>>[1] < <<y, x>>[2])
    BY <1>1, <2>1, Zenon DEF OpToRel
  <2> QED
    BY <2>1, <2>2, <2>3
<1> QED
  BY <1>2 DEF Min

\* The first of one position.
LEMMA MinOfOne ==
    ASSUME NEW i \in Nat
    PROVE  Min({i}) = i
  BY DEF Min

\* A set of numbers that is not empty has one without its predecessor.
LEMMA FirstOf ==
    ASSUME NEW I \in SUBSET Nat, I # {}
    PROVE  \E n \in I : n - 1 \notin I
<1>1. Min(I) \in I /\ \A m \in I : Min(I) <= m
  BY MinFacts
<1>2. Min(I) \in Nat
  BY <1>1
<1>3. Min(I) - 1 \notin I
  BY <1>1, <1>2
<1> QED
  BY <1>1, <1>3

\* A bounded set of positions that is not empty has a last one.
LEMMA MaxGreatest ==
    ASSUME NEW b \in Nat, NEW I \in SUBSET (0..b), I # {}
    PROVE  Max(I) \in I /\ \A y \in I : y <= Max(I)
<1> DEFINE J == {b - i : i \in I}
<1>1. J \in SUBSET Nat /\ J # {}
  <2>1. \A i \in I : b - i \in Nat
    OBVIOUS
  <2> QED
    BY <2>1
<1>2. Min(J) \in J /\ \A y \in J : Min(J) <= y
  <2> HIDE DEF J
  <2> QED
    BY <1>1, MinFacts
<1>3. PICK x \in I : Min(J) = b - x
  BY <1>2
<1>4. ASSUME NEW y \in I PROVE x >= y
  <2>1. b - y \in J /\ b - x <= b - y
    BY <1>2, <1>3
  <2> HIDE DEF J
  <2> QED
    BY <2>1
<1> QED
  BY <1>4 DEF Max

\* find_non_space stops at the first character that is not white.
LEMMA SpaceFacts ==
    ASSUME NEW S, NEW s \in Seq(S), NEW i \in Nat, i # 0
    PROVE  /\ find_non_space(s, i) = 0 => \A k \in i..Len(s) : s[k] \in White
           /\ find_non_space(s, i) # 0 =>
                 /\ find_non_space(s, i) \in i..Len(s)
                 /\ s[find_non_space(s, i)] \notin White
                 /\ \A k \in i..(find_non_space(s, i) - 1) : s[k] \in White
<1> DEFINE I == {k \in i..Len(s) : s[k] \notin White}
<1>1. Len(s) \in Nat
  OBVIOUS
<1>2. find_non_space(s, i) = IF I # {} THEN Min(I) ELSE 0
  BY DEF find_non_space, SelectInSubSeq
<1>3. I \in SUBSET Nat /\ 0 \notin I
  BY <1>1
<1>4. ASSUME I # {}
      PROVE  /\ Min(I) \in i..Len(s) /\ s[Min(I)] \notin White
             /\ \A k \in i..(Min(I) - 1) : s[k] \in White
  <2>1. Min(I) \in I /\ \A y \in I : Min(I) <= y
    <3> HIDE DEF I
    <3> QED
      BY <1>3, <1>4, MinFacts
  <2> DEFINE m == Min(I)
  <2>2. m \in Nat /\ m <= Len(s)
    BY <1>1, <2>1
  <2>3. ASSUME NEW k \in i..(m - 1) PROVE s[k] \in White
    <3>1. k \in i..Len(s) /\ ~(m <= k)
      BY <1>1, <2>2
    <3> QED
      BY <2>1, <3>1
  <2> QED
    BY <2>1, <2>3
<1>5. I = {} => \A k \in i..Len(s) : s[k] \in White
  OBVIOUS
<1> HIDE DEF I
<1> QED
  BY <1>2, <1>3, <1>4, <1>5

\* A token is found in the text or not at all.
LEMMA FindRange ==
    ASSUME NEW S, NEW s \in Seq(S), NEW i \in Nat, NEW c
    PROVE  Find(s, i, c) \in 0..Len(s) /\ (Find(s, i, c) # 0 => i <= Find(s, i, c))
<1> DEFINE I == {k \in i..Len(s) : s[k] = c}
<1>1. Find(s, i, c) = IF I # {} THEN Min(I) ELSE 0
  BY DEF Find, SelectInSubSeq
<1>2. Len(s) \in Nat
  OBVIOUS
<1>3. I \in SUBSET Nat
  BY <1>2
<1>4. I # {} => Min(I) \in i..Len(s)
  <2>1. I # {} => Min(I) \in I
    <3> HIDE DEF I
    <3> QED
      BY <1>3, MinFacts
  <2> QED
    BY <2>1
<1> HIDE DEF I
<1> QED
  BY <1>1, <1>2, <1>4

-----------------------------------------------------------------------------
(* Sequences *)

\* What appending an item does to a sequence.
LEMMA AppendFacts ==
    ASSUME NEW S, NEW s \in Seq(S), NEW e \in S
    PROVE  /\ Append(s, e) \in Seq(S)
           /\ Len(Append(s, e)) = Len(s) + 1
           /\ Len(s) \in Nat
           /\ \A i \in 1..Len(Append(s, e)) :
                 Append(s, e)[i] = IF i = Len(s) + 1 THEN e ELSE s[i]
  OBVIOUS

\* What removing the last item does to a sequence.
LEMMA FrontFacts ==
    ASSUME NEW S, NEW s \in Seq(S), s # <<>>
    PROVE  /\ SubSeq(s, 1, Len(s) - 1) \in Seq(S)
           /\ Len(s) \in Nat \ {0}
           /\ Len(SubSeq(s, 1, Len(s) - 1)) = Len(s) - 1
           /\ \A i \in 1..(Len(s) - 1) : SubSeq(s, 1, Len(s) - 1)[i] = s[i]
<1>1. Len(s) \in Nat /\ Len(s) # 0
  OBVIOUS
<1>2. \A i \in 1..(Len(s) - 1) : s[i] \in S
  OBVIOUS
<1> DEFINE m == Len(s) - 1
<1>3. m \in Int /\ 1 \in Int /\ m >= 0
  BY <1>1
<1>4. /\ SubSeq(s, 1, m) \in Seq(S)
      /\ Len(SubSeq(s, 1, m)) = IF 1 <= m THEN m - 1 + 1 ELSE 0
      /\ \A i \in 1..(m - 1 + 1) : SubSeq(s, 1, m)[i] = s[1 + i - 1]
  <2> HIDE DEF m
  <2> QED
    BY <1>2, <1>3, SubSeqProperties DEF m
<1>5. \A i \in 1..m : SubSeq(s, 1, m)[i] = s[i]
  <2> SUFFICES ASSUME NEW i \in 1..m PROVE SubSeq(s, 1, m)[i] = s[i]
    OBVIOUS
  <2>1. i \in 1..(m - 1 + 1) /\ 1 + i - 1 = i
    BY <1>3
  <2> QED
    BY <1>4, <2>1
<1>6. Len(SubSeq(s, 1, m)) = m
  <2> HIDE DEF m
  <2>1. (IF 1 <= m THEN m - 1 + 1 ELSE 0) = m
    BY <1>3
  <2> QED
    BY <1>4, <2>1
<1>7. /\ SubSeq(s, 1, m) \in Seq(S) /\ Len(s) \in Nat \ {0}
      /\ Len(SubSeq(s, 1, m)) = m /\ \A i \in 1..m : SubSeq(s, 1, m)[i] = s[i]
  BY <1>1, <1>4, <1>5, <1>6
<1> QED
  BY <1>7

\* Two words are a text.
LEMMA PairType ==
    ASSUME NEW S, NEW a \in S, NEW b \in S
    PROVE  <<a, b>> \in Seq(S)
  OBVIOUS

\* A function on the first positions is a sequence.
LEMMA FunctionType ==
    ASSUME NEW V, NEW n \in Nat, NEW f \in [1..n -> V]
    PROVE  f \in Seq(V) /\ Len(f) = n
  OBVIOUS

\* What putting a text behind another does.
LEMMA JoinType ==
    ASSUME NEW S, NEW s \in Seq(S), NEW t \in Seq(S)
    PROVE  s \o t \in Seq(S) /\ Len(s \o t) = Len(s) + Len(t)
  OBVIOUS

\* The first text is found in front.
LEMMA JoinFirst ==
    ASSUME NEW S, NEW s \in Seq(S), NEW t \in Seq(S)
    PROVE  \A i \in 1..Len(s) : (s \o t)[i] = s[i]
  OBVIOUS

\* The second text is found behind the first.
LEMMA JoinSecond ==
    ASSUME NEW S, NEW s \in Seq(S), NEW t \in Seq(S)
    PROVE  \A i \in 1..Len(t), j \in Nat : j = Len(s) + i => (s \o t)[j] = t[i]
  OBVIOUS

\* All of that.
LEMMA JoinFacts ==
    ASSUME NEW S, NEW a \in Seq(S), NEW b \in Seq(S)
    PROVE  /\ a \o b \in Seq(S) /\ Len(a) \in Nat /\ Len(b) \in Nat
           /\ Len(a \o b) = Len(a) + Len(b)
           /\ \A j \in 1..Len(a) : (a \o b)[j] = a[j]
           /\ \A j \in 1..Len(b) : (a \o b)[Len(a) + j] = b[j]
<1>1. a \o b \in Seq(S) /\ Len(a) \in Nat /\ Len(b) \in Nat /\ Len(a \o b) = Len(a) + Len(b)
  OBVIOUS
<1>2. \A j \in 1..Len(a) : (a \o b)[j] = a[j]
  OBVIOUS
<1>3. \A j \in 1..Len(b) : (a \o b)[Len(a) + j] = b[j]
  OBVIOUS
<1> QED
  BY <1>1, <1>2, <1>3

\* A sequence between two that have one item.
LEMMA Enclosed ==
    ASSUME NEW S, NEW a \in Seq(S), NEW f \in Seq(S), NEW c \in Seq(S), Len(a) = 1, Len(c) = 1
    PROVE  LET R == a \o f \o c
           IN  /\ Len(f) \in Nat /\ Len(R) = Len(f) + 2 /\ R[1] = a[1] /\ R[Len(f) + 2] = c[1]
               /\ \A j \in 1..Len(f) : R[1 + j] = f[j]
<1>5. a \o f \in Seq(S) /\ Len(f) \in Nat /\ Len(a \o f) = Len(a) + Len(f)
  BY JoinFacts, Zenon
<1>6. \A j \in 1..Len(f) : (a \o f)[Len(a) + j] = f[j]
  BY JoinFacts
<1>1. /\ Len(f) \in Nat /\ a \o f \in Seq(S) /\ Len(a \o f) = 1 + Len(f)
      /\ \A j \in 1..Len(f) : (a \o f)[1 + j] = f[j]
  BY <1>5, <1>6
<1>10. (a \o f)[1] = a[1]
  <2>1. \A j \in 1..Len(a) : (a \o f)[j] = a[j]
    BY JoinFacts
  <2>2. 1 \in 1..Len(a)
    OBVIOUS
  <2> QED
    BY <2>1, <2>2, Zenon
<1>2. PICK g \in Seq(S) : g = a \o f
  BY <1>1
<1>7. Len(g \o c) = Len(g) + Len(c)
  BY JoinFacts, Zenon
<1>8. \A j \in 1..Len(g) : (g \o c)[j] = g[j]
  BY JoinFacts, Zenon
<1>9. \A j \in 1..Len(c) : (g \o c)[Len(g) + j] = c[j]
  <2>1. ASSUME NEW y \in Seq(S) PROVE \A j \in 1..Len(y) : (g \o y)[Len(g) + j] = y[j]
    BY JoinFacts
  <2> QED
    BY <2>1, Zenon
<1>3. /\ Len(g \o c) = Len(g) + 1 /\ (g \o c)[Len(g) + 1] = c[1]
      /\ \A j \in 1..Len(g) : (g \o c)[j] = g[j]
  BY <1>7, <1>8, <1>9
<1>4. /\ Len(g) = 1 + Len(f) /\ Len(g) + 1 = Len(f) + 2
      /\ 1 \in 1..Len(g) /\ \A j \in 1..Len(f) : 1 + j \in 1..Len(g)
  BY <1>1, <1>2
<1> QED
  BY <1>1, <1>2, <1>3, <1>4, <1>10

\* A sequence between two more items.
LEMMA Bracketed ==
    ASSUME NEW S, NEW f \in Seq(S), NEW a, NEW c, a \in S, c \in S
    PROVE  LET R == <<a>> \o f \o <<c>>
           IN  /\ Len(f) \in Nat /\ Len(R) = Len(f) + 2 /\ R[1] = a /\ R[Len(f) + 2] = c
               /\ \A j \in 1..Len(f) : R[1 + j] = f[j]
<1>5. \A z \in S : <<z>> \in Seq(S) /\ Len(<<z>>) = 1 /\ <<z>>[1] = z
  OBVIOUS
<1>1. PICK x \in Seq(S) : x = <<a>> /\ Len(x) = 1 /\ x[1] = a
  BY <1>5, Zenon
<1>2. PICK y \in Seq(S) : y = <<c>> /\ Len(y) = 1 /\ y[1] = c
  BY <1>5, Zenon
<1> DEFINE R == x \o f \o y
<1>3. /\ Len(f) \in Nat /\ Len(R) = Len(f) + 2 /\ R[1] = x[1] /\ R[Len(f) + 2] = y[1]
      /\ \A j \in 1..Len(f) : R[1 + j] = f[j]
  BY <1>1, <1>2, Enclosed
<1> HIDE DEF R
<1>4. R = <<a>> \o f \o <<c>>
  BY <1>1, <1>2 DEF R
<1> QED
  BY <1>1, <1>2, <1>3, <1>4, Zenon

\* Sequences with the same items are the same.
LEMMA SameItems ==
    ASSUME NEW S, NEW s \in Seq(S), NEW T, NEW t \in Seq(T), Len(s) = Len(t),
           \A i \in 1..Len(s) : s[i] = t[i]
    PROVE  s = t
<1>1. s = [i \in 1..Len(s) |-> s[i]] /\ t = [i \in 1..Len(t) |-> t[i]]
  OBVIOUS
<1>2. [i \in 1..Len(s) |-> s[i]] = [i \in 1..Len(t) |-> t[i]]
  OBVIOUS
<1> QED
  BY <1>1, <1>2, Zenon

\* The whole of a sequence.
LEMMA WholePart ==
    ASSUME NEW S, NEW s \in Seq(S)
    PROVE  SubSeq(s, 1, Len(s)) = s
  OBVIOUS

\* What is put behind a text that is not empty is not empty.
LEMMA JoinNotEmpty ==
    ASSUME NEW S, NEW x \in Seq(S), NEW y \in Seq(S), x # <<>>
    PROVE  x \o y \in Seq(S) /\ x \o y # <<>>
<1>1. x \o y \in Seq(S) /\ Len(x \o y) = Len(x) + Len(y)
  BY ConcatProperties
<1>2. Len(x) \in Nat \ {0} /\ Len(y) \in Nat
  OBVIOUS
<1>3. Len(x) + Len(y) # 0
  BY <1>2
<1>4. Len(<<>>) = 0
  OBVIOUS
<1> QED
  BY <1>1, <1>3, <1>4

\* The last part of a text that is another text.
LEMMA TailFacts ==
    ASSUME NEW S, NEW w \in Seq(S), NEW t \in Seq(S), NEW p \in Nat \ {0}, NEW q \in Nat,
           Len(w) = q, q + 1 = p + Len(t), \A i \in 1..Len(t) : w[p + i - 1] = t[i]
    PROVE  SubSeq(w, p, q) = t
<1> DEFINE z == SubSeq(w, p, q)
<1>0. PICK n \in Nat : n = Len(t)
  OBVIOUS
<1>1. p \in Int /\ q \in Int /\ q - p + 1 = n /\ (p <= q <=> n # 0)
  BY <1>0
<1>2. \A i \in p..q : w[i] \in S
  <2>1. \A i \in p..q : i \in 1..Len(w)
    OBVIOUS
  <2>2. \A i \in 1..Len(w) : w[i] \in S
    OBVIOUS
  <2> QED
    BY <2>1, <2>2
<1>3. /\ z \in Seq(S)
      /\ Len(z) = IF p <= q THEN q - p + 1 ELSE 0
      /\ \A i \in 1 .. q - p + 1 : z[i] = w[p + i - 1]
  BY <1>1, <1>2, SubSeqProperties
<1> HIDE DEF z
<1>4. Len(z) = n
  BY <1>1, <1>3
<1>5. \A i \in 1..n : z[i] = t[i]
  BY <1>0, <1>1, <1>3
<1>6. z = t
  <2>1. z \in Seq(S) /\ t \in Seq(S) /\ Len(t) = n
    BY <1>0, <1>3
  <2> QED
    BY <1>4, <1>5, <2>1, SeqEqual
<1> QED
  BY <1>6 DEF z

\* A part of a text is a text.
LEMMA PartType ==
    ASSUME NEW S, NEW s \in Seq(S), NEW m \in Nat \ {0}, NEW n \in 0..Len(s)
    PROVE  SubSeq(s, m, n) \in Seq(S)
<1>1. \A i \in m..n : s[i] \in S
  OBVIOUS
<1>2. m \in Int /\ n \in Int
  OBVIOUS
<1> QED
  BY <1>1, <1>2, SubSeqProperties

\* FlattenSeq puts the pieces together one by one.
LEMMA FlattenSteps ==
    ASSUME NEW S, NEW s \in Seq(Seq(S)), s # <<>>
    PROVE  \E f : /\ FlattenSeq(s) = f[Len(s)]
                  /\ \A i \in 1..Len(s) : f[i] = IF i = 1 THEN s[i] ELSE f[i-1] \o s[i]
<1> DEFINE Upto(f, n) == [i \in 1..n |-> IF i = 1 THEN s[i] ELSE f[i-1] \o s[i]]
           Flat == CHOOSE f : f = Upto(f, Len(s))
           Bad == {n \in 0..Len(s) : ~ \E f : f = Upto(f, n)}
<1>1. Len(s) \in Nat /\ \A i \in 1..Len(s) : s[i] \in Seq(S)
  OBVIOUS
<1>2. Bad = {}
  <2> SUFFICES ASSUME Bad # {} PROVE FALSE
    OBVIOUS
  <2>1. PICK n \in Bad : n - 1 \notin Bad
    <3>1. 0..Len(s) \subseteq Nat
      BY <1>1
    <3>2. Bad \subseteq Nat
      BY <3>1
    <3> HIDE DEF Bad
    <3> QED
      BY <3>2, FirstOf
  <2>2. n \in Nat /\ n <= Len(s)
    BY <1>1
  <2>3. n # 0
    <3>1. <<>> = Upto(<<>>, 0)
      OBVIOUS
    <3> QED
      BY <3>1
  <2>4. PICK f : f = Upto(f, n - 1)
    <3>1. n - 1 \in 0..Len(s)
      BY <1>1, <2>2, <2>3
    <3> QED
      BY <2>1, <3>1
  <2> DEFINE piece == IF n = 1 THEN s[1] ELSE f[n - 1] \o s[n]
             g == [i \in 1..n |-> IF i = n THEN piece ELSE f[i]]
  <2>5. \A i \in 1..(n - 1) : f[i] = IF i = 1 THEN s[i] ELSE f[i-1] \o s[i]
    <3>1. \A i \in 1..(n - 1) : Upto(f, n - 1)[i] = IF i = 1 THEN s[i] ELSE f[i-1] \o s[i]
      OBVIOUS
    <3> HIDE DEF Upto
    <3> QED
      BY <2>4, <3>1
  <2>6. ASSUME NEW i \in 1..n PROVE g[i] = IF i = 1 THEN s[i] ELSE g[i-1] \o s[i]
    <3> HIDE DEF piece
    <3>1. CASE i = n
      BY <2>2, <2>3, <3>1 DEF piece
    <3>2. CASE i # n
      <4>1. i \in 1..(n - 1) /\ g[i] = f[i] /\ (i # 1 => g[i-1] = f[i-1])
        BY <2>2, <2>3, <3>2
      <4> HIDE DEF g
      <4> QED
        BY <2>5, <4>1
    <3> QED
      BY <3>1, <3>2
  <2>7. g = Upto(g, n)
    <3> HIDE DEF piece
    <3> QED
      BY <2>6
  <2> QED
    BY <2>7
<1>3. Flat = Upto(Flat, Len(s))
  <2>1. \E f : f = Upto(f, Len(s))
    <3>1. Len(s) \in 0..Len(s)
      BY <1>1
    <3> QED
      BY <1>2, <3>1
  <2> HIDE DEF Upto
  <2> QED
    BY <2>1
<1>4. FlattenSeq(s) = Flat[Len(s)]
  BY DEF FlattenSeq
<1>5. \A i \in 1..Len(s) : Flat[i] = IF i = 1 THEN s[i] ELSE Flat[i-1] \o s[i]
  <2>1. \A i \in 1..Len(s) :
           Upto(Flat, Len(s))[i] = IF i = 1 THEN s[i] ELSE Flat[i-1] \o s[i]
    <3> HIDE DEF Flat
    <3> QED
      OBVIOUS
  <2> HIDE DEF Flat, Upto
  <2> QED
    BY <1>3, <2>1
<1> HIDE DEF Flat
<1> QED
  BY <1>4, <1>5

\* What it puts together is a sequence.
LEMMA FlattenType ==
    ASSUME NEW S, NEW s \in Seq(Seq(S))
    PROVE  FlattenSeq(s) \in Seq(S)
<1>1. CASE s = <<>>
  BY <1>1 DEF FlattenSeq
<1>2. CASE s # <<>>
  <2>1. PICK f : /\ FlattenSeq(s) = f[Len(s)]
                 /\ \A i \in 1..Len(s) : f[i] = IF i = 1 THEN s[i] ELSE f[i-1] \o s[i]
    BY <1>2, FlattenSteps
  <2> DEFINE Bad == {i \in 1..Len(s) : f[i] \notin Seq(S)}
  <2>2. Len(s) \in Nat \ {0} /\ \A i \in 1..Len(s) : s[i] \in Seq(S)
    BY <1>2
  <2>3. Bad = {}
    <3> SUFFICES ASSUME Bad # {} PROVE FALSE
      OBVIOUS
    <3>1. PICK n \in Bad : n - 1 \notin Bad
      <4>1. 1..Len(s) \subseteq Nat
        BY <2>2
      <4>2. Bad \subseteq Nat
        BY <4>1
      <4> HIDE DEF Bad
      <4> QED
        BY <4>2, FirstOf
    <3>2. n \in 1..Len(s) /\ (n # 1 => n - 1 \in 1..Len(s) /\ f[n - 1] \in Seq(S))
      BY <2>2, <3>1
    <3>3. f[n] = IF n = 1 THEN s[n] ELSE f[n-1] \o s[n]
      BY <2>1, <3>2
    <3>4. s[n] \in Seq(S)
      BY <2>2, <3>2
    <3>5. f[n] \in Seq(S)
      <4> HIDE DEF Bad
      <4>1. CASE n = 1
        BY <3>3, <3>4, <4>1
      <4>2. CASE n # 1
        <5>1. f[n - 1] \o s[n] \in Seq(S)
          BY <3>2, <3>4, <4>2
        <5> QED
          BY <3>3, <4>2, <5>1
      <4> QED
        BY <4>1, <4>2
    <3> QED
      BY <3>5
  <2>4. Len(s) \in 1..Len(s)
    BY <2>2
  <2> QED
    BY <2>1, <2>3, <2>4
<1> QED
  BY <1>1, <1>2

\* The length of the whole is the sum of the lengths of what is put together.
LEMMA FlattenLength ==
    ASSUME NEW S, NEW s \in Seq(Seq(S)), NEW len, len[0] = 0,
           \A k \in 1..Len(s) : len[k - 1] \in Nat /\ len[k] = len[k - 1] + Len(s[k])
    PROVE  Len(FlattenSeq(s)) = len[Len(s)]
<1>1. CASE s = <<>>
  BY <1>1 DEF FlattenSeq
<1>2. CASE s # <<>>
  <2>1. PICK f : /\ FlattenSeq(s) = f[Len(s)]
                 /\ \A i \in 1..Len(s) : f[i] = IF i = 1 THEN s[i] ELSE f[i-1] \o s[i]
    BY <1>2, FlattenSteps
  <2> DEFINE Bad == {i \in 1..Len(s) : f[i] \notin Seq(S) \/ Len(f[i]) # len[i]}
  <2>2. Len(s) \in Nat \ {0} /\ \A i \in 1..Len(s) : s[i] \in Seq(S)
    BY <1>2
  <2>3. Bad = {}
    <3> SUFFICES ASSUME Bad # {} PROVE FALSE
      OBVIOUS
    <3>1. PICK n \in Bad : n - 1 \notin Bad
      <4>1. 1..Len(s) \subseteq Nat
        BY <2>2
      <4>2. Bad \subseteq Nat
        BY <4>1
      <4> HIDE DEF Bad
      <4> QED
        BY <4>2, FirstOf
    <3>2. n \in 1..Len(s)
      BY <2>2, <3>1
    <3>3. n # 1 => n - 1 \in 1..Len(s) /\ f[n - 1] \in Seq(S) /\ Len(f[n - 1]) = len[n - 1]
      BY <2>2, <3>1
    <3>4. f[n] = IF n = 1 THEN s[n] ELSE f[n-1] \o s[n]
      BY <2>1, <3>2
    <3>5. s[n] \in Seq(S) /\ len[n] = len[n - 1] + Len(s[n]) /\ Len(s[n]) \in Nat
      BY <2>2, <3>2
    <3>6. f[n] \in Seq(S) /\ Len(f[n]) = len[n]
      <4> HIDE DEF Bad
      <4>1. CASE n = 1
        BY <3>4, <3>5, <4>1
      <4>2. CASE n # 1
        <5>0. \A a, b \in Seq(S) : a \o b \in Seq(S) /\ Len(a \o b) = Len(a) + Len(b)
          OBVIOUS
        <5>1. f[n-1] \o s[n] \in Seq(S) /\ Len(f[n-1] \o s[n]) = len[n - 1] + Len(s[n])
          BY <3>3, <3>5, <4>2, <5>0, Zenon
        <5> QED
          BY <3>4, <3>5, <4>2, <5>1
      <4> QED
        BY <4>1, <4>2
    <3> QED
      BY <3>6
  <2>4. Len(s) \in 1..Len(s)
    BY <2>2
  <2> QED
    BY <2>1, <2>3, <2>4
<1> QED
  BY <1>1, <1>2

-----------------------------------------------------------------------------
(* Sums.  FoldFunction adds the numbers up in an order of its own.         *)

\* The fold takes any element of a set that is not empty and goes on without it.
LEMMA FoldExists ==
    ASSUME NEW n \in Nat, NEW F \in [1..n -> Nat]
    PROVE  \E sum : /\ FoldFunction(+, 0, F) = sum[1..n]
                    /\ sum[{}] = 0
                    /\ \A T \in SUBSET (1..n) : T # {} =>
                          \E x \in T : sum[T] = F[x] + sum[T \ {x}]
<1> DEFINE S == 1..n
           one(T) == CHOOSE x \in T : TRUE
           add(f, T) == IF T = {} THEN 0 ELSE F[one(T)] + f[T \ {one(T)}]
           Level(m) == {T \in SUBSET S : Cardinality(T) <= m}
           Solves(f, m) == f = [T \in Level(m) |-> add(f, T)]
           Bad == {m \in Nat : ~ \E f : Solves(f, m)}
           sum == CHOOSE f : f = [T \in SUBSET S |-> add(f, T)]
<1>1. FoldFunction(+, 0, F) = sum[1..n]
  <2>1. DOMAIN F = 1..n
    OBVIOUS
  <2>2. FoldFunction(+, 0, F) =
          (CHOOSE f : f = [T \in SUBSET (DOMAIN F) |->
              IF T = {} THEN 0
              ELSE F[CHOOSE x \in T : TRUE] + f[T \ {CHOOSE x \in T : TRUE}]])[DOMAIN F]
    BY DEF FoldFunction, FoldFunctionOnSet, MapThenFoldSet
  <2> QED
    BY <2>1, <2>2
<1>2. IsFiniteSet(S) /\ Cardinality(S) = n
  BY FS_Interval
<1>3. ASSUME NEW T \in SUBSET S
      PROVE  /\ IsFiniteSet(T) /\ Cardinality(T) \in Nat /\ Cardinality(T) <= n
             /\ T # {} => /\ one(T) \in T /\ T \ {one(T)} \in SUBSET S
                          /\ Cardinality(T \ {one(T)}) = Cardinality(T) - 1
  <2>1. IsFiniteSet(T) /\ Cardinality(T) <= n /\ Cardinality(T) \in Nat
    <3> HIDE DEF S
    <3> QED
      BY <1>2, FS_Subset, FS_CardinalityType
  <2>2. T # {} => one(T) \in T
    OBVIOUS
  <2> HIDE DEF one
  <2>3. T # {} => Cardinality(T \ {one(T)}) = Cardinality(T) - 1
    BY <2>1, <2>2, FS_RemoveElement
  <2> QED
    BY <2>1, <2>2, <2>3
<1> HIDE DEF S, one
<1>4. Bad = {}
  <2> SUFFICES ASSUME Bad # {} PROVE FALSE
    OBVIOUS
  <2>1. PICK m \in Bad : m - 1 \notin Bad
    <3>1. Bad \subseteq Nat
      OBVIOUS
    <3> HIDE DEF Bad
    <3> QED
      BY <3>1, FirstOf
  <2>a. m \in Nat
    <3> HIDE DEF Solves
    <3> QED
      OBVIOUS
  <2>2. PICK f : m # 0 => Solves(f, m - 1)
    <3> HIDE DEF Solves
    <3>1. m # 0 => m - 1 \in Nat
      OBVIOUS
    <3> QED
      BY <2>1, <3>1
  <2> DEFINE g == [T \in Level(m) |-> add(f, T)]
  <2>3. ASSUME NEW T \in Level(m), T # {}
        PROVE  m # 0 /\ T \ {one(T)} \in Level(m - 1) /\ T \ {one(T)} \in Level(m)
    <3>1. Cardinality(T) # 0
      BY <1>3, <2>3, FS_EmptySet
    <3> HIDE DEF Bad, Solves, g
    <3> QED
      BY <1>3, <2>a, <2>3, <3>1
  <2>4. ASSUME NEW T \in Level(m) PROVE add(f, T) = add(g, T)
    <3>1. CASE T = {}
      BY <3>1
    <3>2. CASE T # {}
      <4> DEFINE R == T \ {one(T)}
      <4>1. m # 0 /\ R \in Level(m - 1) /\ R \in Level(m)
        BY <2>3, <3>2
      <4>2. g[R] = add(f, R)
        <5> HIDE DEF add, R, Level
        <5> QED
          BY <4>1
      <4>3. f[R] = add(f, R)
        <5>1. [U \in Level(m - 1) |-> add(f, U)][R] = add(f, R)
          <6> HIDE DEF add, R, Level
          <6> QED
            BY <4>1
        <5> HIDE DEF add, R, Level
        <5> QED
          BY <2>2, <4>1, <5>1
      <4> HIDE DEF g
      <4> QED
        BY <3>2, <4>2, <4>3
    <3> QED
      BY <3>1, <3>2
  <2>5. Solves(g, m)
    <3> HIDE DEF add, Level
    <3> QED
      BY <2>4
  <2> QED
    <3> HIDE DEF Solves, g
    <3> QED
      BY <2>5
<1>5. sum = [T \in SUBSET S |-> add(sum, T)]
  <2>1. Level(n) = SUBSET S
    BY <1>3
  <2>2. \E f : Solves(f, n)
    <3> HIDE DEF Solves
    <3> QED
      BY <1>4
  <2>3. \E f : f = [T \in SUBSET S |-> add(f, T)]
    <3> HIDE DEF Level, add
    <3> QED
      BY <2>1, <2>2
  <2> HIDE DEF add
  <2> QED
    BY <2>3
<1> HIDE DEF sum
<1>6. \A T \in SUBSET S : sum[T] = add(sum, T)
  <2>1. \A T \in SUBSET S : [U \in SUBSET S |-> add(sum, U)][T] = add(sum, T)
    <3> HIDE DEF add
    <3> QED
      OBVIOUS
  <2> HIDE DEF add
  <2> QED
    BY <1>5, <2>1
<1>7. sum[{}] = 0
  BY <1>6
<1>8. \A T \in SUBSET S : T # {} => \E x \in T : sum[T] = F[x] + sum[T \ {x}]
  <2> SUFFICES ASSUME NEW T \in SUBSET S, T # {}
               PROVE  \E x \in T : sum[T] = F[x] + sum[T \ {x}]
    OBVIOUS
  <2>1. one(T) \in T /\ sum[T] = F[one(T)] + sum[T \ {one(T)}]
    BY <1>3, <1>6
  <2> QED
    BY <2>1
<1> QED
  BY <1>1, <1>7, <1>8 DEF S

\* The fold of the numbers F[1] to F[n] is their sum in the order of the loop.
LEMMA FoldSteps ==
    ASSUME NEW n \in Nat, NEW F \in [1..n -> Nat]
    PROVE  \E upto : /\ FoldFunction(+, 0, F) = upto[n]
                     /\ upto[0] = 0
                     /\ \A k \in 1..n : upto[k - 1] \in Nat /\ upto[k] = upto[k - 1] + F[k]
<1>1. PICK sum : /\ FoldFunction(+, 0, F) = sum[1..n]
                 /\ sum[{}] = 0
                 /\ \A T \in SUBSET (1..n) : T # {} =>
                       \E x \in T : sum[T] = F[x] + sum[T \ {x}]
  BY FoldExists
<1> DEFINE S == 1..n
           Right(T) == sum[T] \in Nat /\ \A i \in T : sum[T] = F[i] + sum[T \ {i}]
           Bad == {m \in Nat : \E T \in SUBSET S : Cardinality(T) <= m /\ ~Right(T)}
           upto == [k \in 0..n |-> sum[1..k]]
<1>2. ASSUME NEW T \in SUBSET S, NEW x \in T
      PROVE  /\ \A R \in SUBSET (T \ {x}) :
                    Cardinality(R) \in Nat /\ Cardinality(R) <= Cardinality(T \ {x})
             /\ T \ {x} \in SUBSET S /\ Cardinality(T \ {x}) \in Nat
             /\ Cardinality(T) \in Nat /\ Cardinality(T \ {x}) = Cardinality(T) - 1
  <2>1. IsFiniteSet(S)
    BY FS_Interval
  <2> HIDE DEF S
  <2> QED
    BY <2>1, FS_Subset, FS_CardinalityType, FS_RemoveElement
<1>b. Right({})
  <2>1. sum[{}] = 0
    BY <1>1
  <2>2. \A i \in {} : sum[{}] = F[i] + sum[{} \ {i}]
    OBVIOUS
  <2> QED
    BY <2>1, <2>2
<1>3. Bad = {}
  <2> SUFFICES ASSUME Bad # {} PROVE FALSE
    OBVIOUS
  <2>1. PICK m \in Bad : m - 1 \notin Bad
    <3>1. Bad \subseteq Nat
      OBVIOUS
    <3> HIDE DEF Bad
    <3> QED
      BY <3>1, FirstOf
  <2>2. PICK T \in SUBSET S : Cardinality(T) <= m /\ ~Right(T)
    OBVIOUS
  <2>3. m \in Nat
    OBVIOUS
  <2>4. T # {}
    <3> HIDE DEF Right
    <3> QED
      BY <1>b, <2>2
  <2>5. ASSUME NEW R \in SUBSET T, R # T PROVE Right(R)
    <3>1. PICK x \in T : R \in SUBSET (T \ {x})
      BY <2>5
    <3>2. Cardinality(R) <= m - 1 /\ m - 1 \in Nat /\ R \in SUBSET S
      <4>1. Cardinality(R) <= Cardinality(T \ {x}) /\ Cardinality(R) \in Nat /\ R \in SUBSET S
        BY <1>2, <3>1
      <4>2. Cardinality(T \ {x}) \in Nat /\ Cardinality(T \ {x}) = Cardinality(T) - 1
        BY <1>2
      <4> QED
        <5>1. Cardinality(T) <= m /\ Cardinality(T) \in Nat
          BY <1>2, <2>2
        <5> QED
          BY <2>3, <4>1, <4>2, <5>1
    <3> HIDE DEF Right
    <3> QED
      BY <2>1, <3>2
  <2>6. PICK x \in T : sum[T] = F[x] + sum[T \ {x}]
    BY <1>1, <2>4
  <2>7. \A y \in T : F[y] \in Nat
    OBVIOUS
  <2>8. ASSUME NEW i \in T PROVE sum[T] = F[i] + sum[T \ {i}]
    <3>1. CASE i = x
      BY <2>6, <3>1
    <3>2. CASE i # x
      <4>1. i \in T \ {x} /\ x \in T \ {i} /\ (T \ {x}) \ {i} = (T \ {i}) \ {x}
        BY <3>2
      <4>2. sum[T \ {x}] = F[i] + sum[(T \ {x}) \ {i}]
        BY <2>5, <4>1
      <4>3. sum[T \ {i}] = F[x] + sum[(T \ {x}) \ {i}]
        <5>1. sum[T \ {i}] = F[x] + sum[(T \ {i}) \ {x}]
          BY <2>5, <4>1
        <5> QED
          BY <4>1, <5>1
      <4>4. sum[T \ {i}] \in Nat /\ sum[T \ {x}] \in Nat
        BY <2>5
      <4>5. F[i] \in Nat /\ F[x] \in Nat
        BY <2>7
      <4>6. sum[(T \ {x}) \ {i}] \in Nat
        BY <2>5, <4>1
      <4> QED
        BY <2>6, <4>2, <4>3, <4>5, <4>6
    <3> QED
      BY <3>1, <3>2
  <2>9. sum[T] \in Nat
    <3>1. sum[T \ {x}] \in Nat
      BY <2>5
    <3>2. F[x] \in Nat
      BY <2>7
    <3> HIDE DEF Right
    <3> QED
      BY <2>6, <3>1, <3>2
  <2> QED
    BY <2>2, <2>8, <2>9
<1>4. \A T \in SUBSET S : Right(T)
  <2>1. \A T \in SUBSET S : T # {} => Cardinality(T) \in Nat
    BY <1>2
  <2> HIDE DEF Right, S
  <2> QED
    BY <1>3, <1>b, <2>1
<1>5. upto[0] = 0 /\ FoldFunction(+, 0, F) = upto[n]
  <2>1. 1..0 = {} /\ 0 \in 0..n /\ n \in 0..n
    OBVIOUS
  <2> QED
    BY <1>1, <2>1
<1>6. ASSUME NEW k \in 1..n PROVE upto[k - 1] \in Nat /\ upto[k] = upto[k - 1] + F[k]
  <2>1. /\ (1..k) \ {k} = 1..(k - 1) /\ k \in 1..k /\ k - 1 \in 0..n /\ k \in 0..n
        /\ 1..k \in SUBSET S /\ 1..(k - 1) \in SUBSET S
    OBVIOUS
  <2>2. sum[1..k] = F[k] + sum[1..(k - 1)] /\ sum[1..(k - 1)] \in Nat
    <3> HIDE DEF S
    <3> QED
      BY <1>4, <2>1
  <2>3. F[k] \in Nat
    OBVIOUS
  <2>4. upto[k] = sum[1..k] /\ upto[k - 1] = sum[1..(k - 1)]
    BY <2>1
  <2> HIDE DEF upto
  <2> QED
    BY <2>2, <2>3, <2>4
<1> QED
  <2> HIDE DEF upto
  <2> QED
    BY <1>5, <1>6

-----------------------------------------------------------------------------
(* Lists that grow *)

\* A list without items has the type of any.
LEMMA EmptyTyped ==
    ASSUME NEW S, NEW c \in Nat
    PROVE  [items |-> <<>>, capacity |-> c] \in [items : Seq(S), capacity : Nat]
<1>1. <<>> \in Seq(S)
  OBVIOUS
<1> QED
  BY <1>1

\* An empty list, with or without room.
LEMMA EmptyListed ==
    ASSUME NEW c \in Nat
    PROVE  /\ \E S : EmptyList(c) \in [items : Seq(S), capacity : Nat]
           /\ Fits(EmptyList(c)) /\ EmptyList(c).capacity = c
<1>1. EmptyList(c) \in [items : Seq({}), capacity : Nat]
  BY EmptyTyped DEF EmptyList
<1> QED
  BY <1>1 DEF EmptyList, Fits

\* A list that is pushed to has room again.
LEMMA PushKeeps ==
    ASSUME NEW l, NEW e, \E S : l \in [items : Seq(S), capacity : Nat], Fits(l),
           l.capacity # 0
    PROVE  /\ \E S : Push(l, e) \in [items : Seq(S), capacity : Nat]
           /\ Fits(Push(l, e)) /\ Push(l, e).capacity # 0
<1>1. PICK S : l \in [items : Seq(S), capacity : Nat]
  OBVIOUS
<1> DEFINE T == S \cup {e}
           c == IF l.capacity = Len(l.items) THEN l.capacity * 2 ELSE l.capacity
<1>2. l.items \in Seq(S) /\ l.capacity \in Nat
  BY <1>1
<1>3. l.items \in Seq(T) /\ e \in T /\ Len(l.items) \in Nat
  BY <1>2
<1> HIDE DEF T
<1>4. Append(l.items, e) \in Seq(T) /\ Len(Append(l.items, e)) = Len(l.items) + 1
  BY <1>3, AppendFacts
<1>5. Push(l, e) = [items |-> Append(l.items, e), capacity |-> c]
  BY DEF Push
<1>6. c \in Nat /\ c # 0 /\ Len(l.items) + 1 <= c
  BY <1>2, <1>3 DEF Fits
<1> HIDE DEF c
<1>7. /\ Push(l, e) \in [items : Seq(T), capacity : Nat]
      /\ Push(l, e).items = Append(l.items, e) /\ Push(l, e).capacity = c
  BY <1>4, <1>5, <1>6
<1> QED
  BY <1>4, <1>6, <1>7 DEF Fits

-----------------------------------------------------------------------------
(* Places in a text *)

\* A number in a set that none of the others is below is its least one.
LEMMA MinIs ==
    ASSUME NEW I \in SUBSET Nat, NEW m \in I, \A y \in I : m <= y
    PROVE  Min(I) = m
<1>1. Min(I) \in I /\ Min(I) <= m
  BY MinFacts
<1>2. m <= Min(I) /\ m \in Nat /\ Min(I) \in Nat
  BY <1>1
<1> QED
  BY <1>1, <1>2

\* find_non_space returns the position of a character if it is the first that
\* is not white.
LEMMA SpaceIs ==
    ASSUME NEW S, NEW s \in Seq(S), NEW i \in Nat \ {0}, NEW j \in i..Len(s),
           s[j] \notin White, \A k \in i..(j - 1) : s[k] \in White
    PROVE  find_non_space(s, i) = j
<1>1. CASE find_non_space(s, i) = 0
  BY <1>1, SpaceFacts
<1>2. CASE find_non_space(s, i) # 0
  <2>1. PICK f : f = find_non_space(s, i)
    OBVIOUS
  <2>2. f \in i..Len(s) /\ s[f] \notin White /\ \A k \in i..(f - 1) : s[k] \in White
    BY <1>2, <2>1, SpaceFacts
  <2>3. f \notin i..(j - 1) /\ j \notin i..(f - 1)
    BY <2>2
  <2> QED
    BY <2>1, <2>2, <2>3
<1> QED
  BY <1>1, <1>2

\* Find stops at the first occurrence.
LEMMA FindFacts ==
    ASSUME NEW S, NEW s \in Seq(S), NEW i \in Nat \ {0}, NEW c
    PROVE  /\ Find(s, i, c) = 0 => \A k \in i..Len(s) : s[k] # c
           /\ Find(s, i, c) # 0 =>
                 /\ Find(s, i, c) \in i..Len(s) /\ s[Find(s, i, c)] = c
                 /\ \A k \in i..(Find(s, i, c) - 1) : s[k] # c
<1> DEFINE I == {k \in i..Len(s) : s[k] = c}
<1>1. Find(s, i, c) = IF I # {} THEN Min(I) ELSE 0
  BY DEF Find, SelectInSubSeq
<1>2. Len(s) \in Nat
  OBVIOUS
<1>3. I \in SUBSET Nat /\ 0 \notin I
  BY <1>2
<1>4. I # {} => Min(I) \in I /\ \A y \in I : Min(I) <= y
  <2> HIDE DEF I
  <2> QED
    BY <1>3, MinFacts
<1>5. CASE I = {}
  BY <1>1, <1>5
<1>6. CASE I # {}
  <2>1. PICK m : m = Find(s, i, c)
    OBVIOUS
  <2>2. m \in I /\ \A y \in I : m <= y
    <3> HIDE DEF I
    <3> QED
      BY <1>1, <1>4, <1>6, <2>1
  <2>3. m \in i..Len(s) /\ s[m] = c
    BY <2>2
  <2>4. ASSUME NEW k \in i..(m - 1) PROVE s[k] # c
    <3>1. k \in i..Len(s) /\ ~(m <= k)
      BY <1>2, <2>3
    <3> QED
      BY <2>2, <3>1
  <2>5. m # 0
    BY <2>3
  <2> QED
    BY <2>1, <2>3, <2>4, <2>5
<1> QED
  BY <1>5, <1>6

\* The first place from i on, if one is known.
LEMMA FindIs ==
    ASSUME NEW S, NEW s \in Seq(S), NEW i \in Nat \ {0}, NEW c, NEW j \in i..Len(s),
           s[j] = c, \A k \in i..(j - 1) : s[k] # c
    PROVE  Find(s, i, c) = j
<1>1. PICK f : f = Find(s, i, c)
  OBVIOUS
<1>2. /\ f = 0 => \A k \in i..Len(s) : s[k] # c
      /\ f # 0 => /\ f \in i..Len(s) /\ s[f] = c
                  /\ \A k \in i..(f - 1) : s[k] # c
  BY <1>1, FindFacts
<1>3. f # 0 /\ f \in i..Len(s)
  BY <1>2
<1>4. f \notin i..(j - 1) /\ j \notin i..(f - 1)
  BY <1>2, <1>3
<1> QED
  BY <1>1, <1>3, <1>4

\* The last character that is not white, if the ones behind it are.
LEMMA LastIs ==
    ASSUME NEW s, NEW first \in Nat, NEW last \in Nat, NEW j \in first..last,
           s[j] \notin White, \A k \in j + 1 .. last : s[k] \in White
    PROVE  LastNonSpace(s, first, last) = j
<1> DEFINE I == {k \in first..last : s[k] \notin White}
<1>1. LastNonSpace(s, first, last) = IF I # {} THEN Max(I) ELSE 0
  BY DEF LastNonSpace, SelectLastInSubSeq
<1>2. j \in I /\ I \in SUBSET (0..last)
  OBVIOUS
<1>3. Max(I) \in I /\ \A y \in I : y <= Max(I)
  <2>1. I # {}
    BY <1>2
  <2> HIDE DEF I
  <2> QED
    BY <1>2, <2>1, MaxGreatest
<1>4. PICK m : m = Max(I)
  OBVIOUS
<1>5. m \in first..last /\ s[m] \notin White /\ j <= m
  BY <1>2, <1>3, <1>4
<1>6. m \notin j + 1 .. last
  BY <1>5
<1>7. m = j
  BY <1>5, <1>6
<1>8. I # {}
  BY <1>2
<1> HIDE DEF I
<1> QED
  BY <1>1, <1>4, <1>7, <1>8

\* If there is one that is not white, there is a last one.
LEMMA LastFacts ==
    ASSUME NEW s, NEW first \in Nat, NEW last \in Nat, NEW j \in first..last,
           s[j] \notin White
    PROVE  /\ LastNonSpace(s, first, last) \in j..last
           /\ s[LastNonSpace(s, first, last)] \notin White
           /\ \A k \in LastNonSpace(s, first, last) + 1 .. last : s[k] \in White
<1> DEFINE I == {k \in first..last : s[k] \notin White}
<1>1. LastNonSpace(s, first, last) = IF I # {} THEN Max(I) ELSE 0
  BY DEF LastNonSpace, SelectLastInSubSeq
<1>2. j \in I /\ I \in SUBSET (0..last) /\ I # {}
  OBVIOUS
<1>3. Max(I) \in I /\ \A y \in I : y <= Max(I)
  <2> HIDE DEF I
  <2> QED
    BY <1>2, MaxGreatest
<1>4. PICK m : m = Max(I)
  OBVIOUS
<1>5. m \in first..last /\ s[m] \notin White /\ j <= m
  BY <1>2, <1>3, <1>4
<1>6. ASSUME NEW k \in m + 1 .. last PROVE s[k] \in White
  <2>1. k \in first..last /\ ~(k <= m)
    BY <1>5
  <2> QED
    BY <1>3, <1>4, <2>1
<1>7. m \in j..last
  BY <1>5
<1>8. LastNonSpace(s, first, last) = m
  <2> HIDE DEF I
  <2> QED
    BY <1>1, <1>2, <1>4
<1> QED
  BY <1>5, <1>6, <1>7, <1>8

\* What is at a place of a part of a text.
LEMMA PartFacts ==
    ASSUME NEW S, NEW s \in Seq(S), NEW m \in Nat \ {0}, NEW n \in Nat, m <= n + 1, n <= Len(s)
    PROVE  /\ SubSeq(s, m, n) \in Seq(S)
           /\ Len(SubSeq(s, m, n)) = n - m + 1
           /\ \A i \in 1 .. n - m + 1 : SubSeq(s, m, n)[i] = s[m + i - 1]
<1>1. \A i \in m..n : s[i] \in S
  OBVIOUS
<1>2. m \in Int /\ n \in Int
  OBVIOUS
<1>3. (IF m <= n THEN n - m + 1 ELSE 0) = n - m + 1
  BY <1>2
<1> QED
  BY <1>1, <1>2, <1>3, SubSeqProperties

-----------------------------------------------------------------------------
(* Texts that are read piece by piece *)

\* From position p on the text t reads like s, as far as it goes.
Agrees(t, p, s) == \A j \in 1..Len(s) : p - 1 + j <= Len(t) => t[p - 1 + j] = s[j]

\* A text that reads like two texts put together reads like each of them.
LEMMA AgreesJoined ==
    ASSUME NEW S, NEW t \in Seq(S), NEW a \in Seq(S), NEW b \in Seq(S), NEW p \in Nat \ {0},
           Agrees(t, p, a \o b)
    PROVE  Agrees(t, p, a) /\ Agrees(t, p + Len(a), b)
<1>1. Len(t) \in Nat /\ Len(a) \in Nat /\ Len(b) \in Nat /\ Len(a \o b) = Len(a) + Len(b)
  OBVIOUS
<1>2. \A j \in 1..Len(a) : (a \o b)[j] = a[j]
  OBVIOUS
<1>3. \A j \in 1..Len(b) : (a \o b)[Len(a) + j] = b[j]
  OBVIOUS
<1>4. ASSUME NEW j \in 1..Len(a), p - 1 + j <= Len(t) PROVE t[p - 1 + j] = a[j]
  <2>1. j \in 1..Len(a \o b)
    BY <1>1
  <2> QED
    BY <1>2, <1>4, <2>1 DEF Agrees
<1>5. ASSUME NEW j \in 1..Len(b), p + Len(a) - 1 + j <= Len(t)
      PROVE  t[p + Len(a) - 1 + j] = b[j]
  <2> DEFINE i == Len(a) + j
  <2>1. i \in 1..Len(a \o b) /\ p - 1 + i = p + Len(a) - 1 + j
    BY <1>1
  <2>2. (a \o b)[i] = b[j]
    BY <1>3
  <2> HIDE DEF i
  <2> QED
    BY <1>5, <2>1, <2>2 DEF Agrees
<1> QED
  BY <1>4, <1>5 DEF Agrees

\* It does so if it is cut off.
LEMMA AgreesCut ==
    ASSUME NEW S, NEW t \in Seq(S), NEW s \in Seq(S), NEW p \in Nat \ {0}, NEW n \in 0..Len(t),
           Agrees(t, p, s)
    PROVE  Agrees(SubSeq(t, 1, n), p, s)
<1>1. Len(t) \in Nat /\ n \in Nat /\ n <= Len(t) /\ Len(s) \in Nat
  OBVIOUS
<1>2. Len(SubSeq(t, 1, n)) = n /\ \A i \in 1..n : SubSeq(t, 1, n)[i] = t[i]
  <2>1. 1 <= n + 1 /\ n - 1 + 1 = n
    BY <1>1
  <2>2. /\ Len(SubSeq(t, 1, n)) = n - 1 + 1
        /\ \A i \in 1 .. n - 1 + 1 : SubSeq(t, 1, n)[i] = t[1 + i - 1]
    BY <1>1, <2>1, PartFacts
  <2>3. \A i \in 1..n : 1 + i - 1 = i
    BY <1>1
  <2> QED
    BY <2>1, <2>2, <2>3
<1>3. ASSUME NEW j \in 1..Len(s), p - 1 + j <= n
      PROVE  SubSeq(t, 1, n)[p - 1 + j] = s[j]
  <2>1. p - 1 + j \in 1..n /\ p - 1 + j <= Len(t)
    BY <1>1, <1>3
  <2> QED
    BY <1>2, <2>1 DEF Agrees
<1> QED
  BY <1>2, <1>3 DEF Agrees

\* The position before one that is not the first.
LEMMA OneBefore ==
    ASSUME NEW m \in Nat, NEW n \in 1..m, n # 1
    PROVE  n - 1 \in 1..m
  OBVIOUS

\* Where FlattenSeq puts each piece: behind the ones before it.
LEMMA FlattenReads ==
    ASSUME NEW S, NEW s \in Seq(Seq(S))
    PROVE  \E at : /\ at[0] = 0 /\ at[Len(s)] = Len(FlattenSeq(s))
                   /\ \A k \in 1..Len(s) :
                         /\ at[k - 1] \in Nat /\ at[k] = at[k - 1] + Len(s[k])
                         /\ at[k] \in Nat /\ at[k] <= Len(FlattenSeq(s))
                         /\ Agrees(FlattenSeq(s), at[k - 1] + 1, s[k])
<1>1. CASE s = <<>>
  <2> DEFINE at == [k \in {0} |-> 0]
  <2>1. at[0] = 0 /\ at[Len(s)] = Len(FlattenSeq(s)) /\ 1..Len(s) = {}
    BY <1>1 DEF FlattenSeq
  <2> QED
    BY <2>1
<1>2. CASE s # <<>>
  <2>1. PICK f : /\ FlattenSeq(s) = f[Len(s)]
                 /\ \A i \in 1..Len(s) : f[i] = IF i = 1 THEN s[i] ELSE f[i-1] \o s[i]
    BY <1>2, FlattenSteps
  <2>2. Len(s) \in Nat \ {0} /\ \A i \in 1..Len(s) : s[i] \in Seq(S) /\ Len(s[i]) \in Nat
    BY <1>2
  <2> DEFINE at == [k \in 0..Len(s) |-> IF k = 0 THEN 0 ELSE Len(f[k])]
             Good(n) == /\ f[n] \in Seq(S) /\ at[n] = Len(f[n])
                        /\ \A k \in 1..n : /\ at[k - 1] \in Nat /\ at[k] = at[k - 1] + Len(s[k])
                                           /\ at[k] <= Len(f[n])
                                           /\ \A j \in 1..Len(s[k]) : f[n][at[k - 1] + j] = s[k][j]
             Bad == {n \in 1..Len(s) : ~Good(n)}
  <2>3. at[0] = 0 /\ \A k \in 1..Len(s) : at[k] = Len(f[k])
    BY <2>2
  <2> HIDE DEF at
  <2>4. Bad = {}
    <3> SUFFICES ASSUME Bad # {} PROVE FALSE
      OBVIOUS
    <3>1. PICK n \in Bad : n - 1 \notin Bad
      <4>1. Bad \subseteq Nat
        BY <2>2
      <4> HIDE DEF Bad
      <4> QED
        BY <4>1, FirstOf
    <3>2. n \in 1..Len(s) /\ n \in Nat /\ ~Good(n) /\ s[n] \in Seq(S) /\ Len(s[n]) \in Nat
          /\ f[n] = IF n = 1 THEN s[n] ELSE f[n-1] \o s[n]
      <4> HIDE DEF Good
      <4>1. n \in 1..Len(s) /\ ~Good(n)
        OBVIOUS
      <4> QED
        BY <2>1, <2>2, <4>1
    <3>3. CASE n = 1
      <4>1. f[1] = s[1] /\ at[1] = Len(s[1]) /\ at[0] = 0
        BY <2>3, <3>2, <3>3
      <4>2. Good(1)
        <5>1. \A k \in 1..1 : k = 1 /\ k - 1 = 0
          OBVIOUS
        <5>2. f[1] \in Seq(S) /\ at[1] = Len(f[1])
          BY <3>2, <3>3, <4>1
        <5>3. ASSUME NEW k \in 1..1
              PROVE  /\ at[k - 1] \in Nat /\ at[k] = at[k - 1] + Len(s[k])
                     /\ at[k] <= Len(f[1])
                     /\ \A j \in 1..Len(s[k]) : f[1][at[k - 1] + j] = s[k][j]
          <6>1. k = 1 /\ k - 1 = 0
            BY <5>1
          <6>2. Len(s[1]) \in Nat
            BY <3>2, <3>3
          <6>3. 0 + Len(s[1]) = Len(s[1]) /\ \A j \in 1..Len(s[1]) : 0 + j = j
            BY <6>2
          <6>4. at[1] <= Len(f[1]) /\ at[0] \in Nat
            BY <4>1, <6>2
          <6>5. \A j \in 1..Len(s[1]) : f[1][0 + j] = s[1][j]
            BY <4>1, <6>3, Zenon
          <6> QED
            BY <4>1, <6>1, <6>3, <6>4, <6>5, Zenon
        <5> QED
          BY <5>2, <5>3
      <4> QED
        BY <3>2, <3>3, <4>2
    <3>4. CASE n # 1
      <4>1. n - 1 \in 1..Len(s) /\ f[n] = f[n - 1] \o s[n]
        <5>1. ASSUME NEW m \in Nat, n \in 1..m PROVE n - 1 \in 1..m
          BY <3>4, <5>1, OneBefore, Zenon
        <5>2. Len(s) \in Nat /\ n \in 1..Len(s)
          BY <2>2, <3>2
        <5>3. f[n] = f[n - 1] \o s[n]
          BY <3>2, <3>4, Zenon
        <5> QED
          BY <5>1, <5>2, <5>3, Zenon
      <4>2. Good(n - 1)
        <5> HIDE DEF Good
        <5> QED
          BY <3>1, <4>1
      <4>3. f[n - 1] \in Seq(S) /\ at[n - 1] = Len(f[n - 1]) /\ at[n] = Len(f[n])
        BY <2>3, <3>2, <4>2
      <4>4. /\ f[n] \in Seq(S) /\ Len(f[n - 1]) \in Nat
            /\ Len(f[n]) = Len(f[n - 1]) + Len(s[n])
            /\ \A j \in 1..Len(f[n - 1]) : f[n][j] = f[n - 1][j]
            /\ \A j \in 1..Len(s[n]) : f[n][Len(f[n - 1]) + j] = s[n][j]
        <5>1. PICK g \in Seq(S), h \in Seq(S) : g = f[n - 1] /\ h = s[n]
          BY <3>2, <4>3, Zenon
        <5> HIDE DEF Bad, Good
        <5>2. /\ g \o h \in Seq(S) /\ Len(g) \in Nat /\ Len(g \o h) = Len(g) + Len(h)
              /\ \A j \in 1..Len(g) : (g \o h)[j] = g[j]
              /\ \A j \in 1..Len(h) : (g \o h)[Len(g) + j] = h[j]
          <6>1. g \in Seq(S) /\ h \in Seq(S)
            OBVIOUS
          <6> QED
            BY <6>1, JoinFacts
        <5>3. f[n] = g \o h
          BY <4>1, <5>1, Zenon
        <5> QED
          BY <5>1, <5>2, <5>3, Zenon
      <4>5. ASSUME NEW k \in 1..n
            PROVE  /\ at[k - 1] \in Nat /\ at[k] = at[k - 1] + Len(s[k])
                   /\ at[k] <= Len(f[n])
                   /\ \A j \in 1..Len(s[k]) : f[n][at[k - 1] + j] = s[k][j]
        <5>1. CASE k = n
          <6>1. at[n - 1] \in Nat /\ at[n] = at[n - 1] + Len(s[n]) /\ at[n] <= Len(f[n])
            BY <4>3, <4>4, <3>2
          <6> QED
            BY <4>3, <4>4, <5>1, <6>1
        <5>2. CASE k # n
          <6>1. k \in 1 .. n - 1
            BY <3>2, <5>2
          <6>2. /\ at[k - 1] \in Nat /\ at[k] = at[k - 1] + Len(s[k])
                /\ at[k] <= Len(f[n - 1])
                /\ \A j \in 1..Len(s[k]) : f[n - 1][at[k - 1] + j] = s[k][j]
            BY <4>2, <6>1
          <6>3. Len(s[k]) \in Nat
            <7>1. k \in 1..Len(s)
              BY <2>2, <3>2, <6>1
            <7> QED
              BY <2>2, <7>1
          <6>4. at[k] <= Len(f[n])
            <7>1. ASSUME NEW a \in Nat, NEW l \in Nat, NEW z \in Nat, a <= l
                  PROVE  a <= l + z
              BY <7>1
            <7>2. at[k] \in Nat
              <8>1. ASSUME NEW x \in Nat, NEW y \in Nat PROVE x + y \in Nat
                OBVIOUS
              <8> QED
                BY <6>2, <6>3, <8>1, Zenon
            <7> QED
              BY <3>2, <4>4, <6>2, <7>1, <7>2
          <6>5. ASSUME NEW j \in 1..Len(s[k]) PROVE f[n][at[k - 1] + j] = s[k][j]
            <7>1. at[k - 1] + j \in 1..Len(f[n - 1])
              <8>1. PICK x \in Nat, y \in Nat, l \in Nat : x = at[k - 1] /\ y = Len(s[k]) /\ l = Len(f[n - 1])
                BY <4>4, <6>2, <6>3
              <8>2. x + y <= l /\ j \in 1..y
                BY <6>2, <8>1
              <8>3. x + j \in 1..l
                BY <8>2
              <8> QED
                BY <8>1, <8>3
            <7> QED
              BY <4>4, <6>2, <7>1
          <6> QED
            BY <6>2, <6>4, <6>5
        <5> QED
          BY <5>1, <5>2
      <4>6. Good(n)
        BY <4>3, <4>4, <4>5
      <4> QED
        BY <3>2, <4>6
    <3> QED
      BY <3>3, <3>4
  <2>5. Good(Len(s))
    <3>1. Len(s) \in 1..Len(s)
      BY <2>2
    <3>2. \A n \in 1..Len(s) : Good(n)
      <4> HIDE DEF Good
      <4> QED
        BY <2>4
    <3> HIDE DEF Good
    <3> QED
      BY <3>1, <3>2, Zenon
  <2>6. at[Len(s)] = Len(FlattenSeq(s))
    BY <2>1, <2>5
  <2>7. ASSUME NEW k \in 1..Len(s)
        PROVE  /\ at[k - 1] \in Nat /\ at[k] = at[k - 1] + Len(s[k])
               /\ at[k] \in Nat /\ at[k] <= Len(FlattenSeq(s))
               /\ Agrees(FlattenSeq(s), at[k - 1] + 1, s[k])
    <3>1. /\ at[k - 1] \in Nat /\ at[k] = at[k - 1] + Len(s[k])
          /\ at[k] <= Len(FlattenSeq(s))
          /\ \A j \in 1..Len(s[k]) : FlattenSeq(s)[at[k - 1] + j] = s[k][j]
      BY <2>1, <2>5
    <3>0. at[k] \in Nat
      <4>1. ASSUME NEW x \in Nat, NEW y \in Nat PROVE x + y \in Nat
        OBVIOUS
      <4> QED
        BY <2>2, <3>1, <4>1, Zenon
    <3>2. \A j \in 1..Len(s[k]) : (at[k - 1] + 1) - 1 + j = at[k - 1] + j
      BY <3>1
    <3>3. ASSUME NEW j \in 1..Len(s[k])
          PROVE  FlattenSeq(s)[(at[k - 1] + 1) - 1 + j] = s[k][j]
      BY <3>1, <3>2, Zenon
    <3> QED
      BY <3>0, <3>1, <3>3, Zenon DEF Agrees
  <2> QED
    BY <2>3, <2>6, <2>7
<1> QED
  BY <1>1, <1>2

\* Numbers that begin at 0 and go up to n or beyond pass every number up to n.
LEMMA Passed ==
    ASSUME NEW n \in Nat, NEW at, at[0] = 0, \A k \in 1..n : at[k] \in Nat,
           NEW j \in Nat \ {0}, j <= at[n]
    PROVE  \E k \in 1..n : at[k - 1] < j /\ j <= at[k]
<1> DEFINE I == {k \in 0..n : j <= at[k]}
<1>1. I \in SUBSET Nat /\ n \in I
  OBVIOUS
<1>2. PICK k \in I : k - 1 \notin I
  <2> HIDE DEF I
  <2> QED
    BY <1>1, FirstOf
<1>3. k \in 0..n /\ j <= at[k]
  OBVIOUS
<1>4. k # 0
  BY <1>3
<1>5. k \in 1..n /\ k - 1 \in 0..n
  BY <1>3, <1>4
<1>6. ~(j <= at[k - 1])
  BY <1>2, <1>5
<1>7. at[k - 1] \in Nat
  <2>1. k - 1 = 0 \/ k - 1 \in 1..n
    BY <1>5
  <2> QED
    BY <2>1
<1>8. at[k - 1] < j
  <2>1. PICK x \in Nat : x = at[k - 1]
    BY <1>7
  <2>2. x < j
    BY <1>6, <2>1
  <2> QED
    BY <2>1, <2>2
<1> QED
  BY <1>3, <1>5, <1>8

-----------------------------------------------------------------------------
(* Elements of a set by their rank *)

Upto(I, p) == Cardinality({k \in I : k <= p})
Ranked(I, n) == CHOOSE i \in I : Upto(I, i) = n

\* The first number of a set, and the next one after each.
LEMMA RankSteps ==
    ASSUME NEW b \in Nat, NEW I \in SUBSET (1..b)
    PROVE  /\ Upto(I, 0) = 0 /\ Upto(I, b) = Cardinality(I)
           /\ \A p \in 0..b : Upto(I, p) \in Nat
           /\ \A p \in 1..b : Upto(I, p) = IF p \in I THEN Upto(I, p - 1) + 1 ELSE Upto(I, p - 1)
           /\ \A p, q \in 0..b : p <= q => Upto(I, p) <= Upto(I, q)
<1>1. IsFiniteSet(I)
  <2>1. IsFiniteSet(1..b)
    BY FS_Interval
  <2> QED
    BY <2>1, FS_Subset
<1>2. ASSUME NEW p PROVE {k \in I : k <= p} \in SUBSET I /\ IsFiniteSet({k \in I : k <= p})
                         /\ Upto(I, p) \in Nat
  <2>1. {k \in I : k <= p} \in SUBSET I
    OBVIOUS
  <2> QED
    BY <1>1, <2>1, FS_Subset, FS_CardinalityType DEF Upto
<1>0. \A k \in I : k \in Int /\ 1 <= k /\ k <= b
  OBVIOUS
<1>3. Upto(I, 0) = 0
  <2>1. {k \in I : k <= 0} = {}
    <3>1. \A k \in I : ~(k <= 0)
      BY <1>0
    <3> QED
      BY <3>1
  <2> QED
    BY <2>1, FS_EmptySet DEF Upto
<1>4. Upto(I, b) = Cardinality(I)
  <2>1. {k \in I : k <= b} = I
    BY <1>0
  <2> QED
    BY <2>1 DEF Upto
<1>5. ASSUME NEW p \in 1..b
      PROVE  Upto(I, p) = IF p \in I THEN Upto(I, p - 1) + 1 ELSE Upto(I, p - 1)
  <2> DEFINE A == {k \in I : k <= p - 1}
  <2>0. p \notin A
    <3>1. ~(p <= p - 1)
      OBVIOUS
    <3> QED
      BY <3>1
  <2>1. IsFiniteSet(A) /\ Upto(I, p - 1) = Cardinality(A)
    BY <1>2 DEF Upto
  <2>2. {k \in I : k <= p} = IF p \in I THEN A \cup {p} ELSE A
    <3>1. \A k \in I : k <= p <=> k <= p - 1 \/ k = p
      BY <1>0
    <3> QED
      BY <3>1
  <2> HIDE DEF A
  <2> QED
    BY <2>0, <2>1, <2>2, FS_AddElement DEF Upto
<1>6. ASSUME NEW p \in 0..b, NEW q \in 0..b, p <= q PROVE Upto(I, p) <= Upto(I, q)
  <2>1. {k \in I : k <= p} \in SUBSET {k \in I : k <= q}
    <3>1. \A k \in I : k <= p => k <= q
      BY <1>0, <1>6
    <3> QED
      BY <3>1
  <2> QED
    BY <1>2, <2>1, FS_Subset DEF Upto
<1> QED
  BY <1>2, <1>3, <1>4, <1>5, <1>6

\* The nth number of a set is one of it, and there are n - 1 below it.
LEMMA RankFacts ==
    ASSUME NEW b \in Nat, NEW I \in SUBSET (1..b)
    PROVE  /\ Cardinality(I) \in Nat
           /\ \A n \in 1..Cardinality(I) : Ranked(I, n) \in I
           /\ \A m, n \in 1..Cardinality(I) : m < n => Ranked(I, m) < Ranked(I, n)
           /\ \A i \in I : \E n \in 1..Cardinality(I) : Ranked(I, n) = i
<1>0. b \in 0..b
  OBVIOUS
<1>1. Cardinality(I) \in Nat
  BY <1>0, RankSteps
<1>2. PICK N \in Nat : N = Cardinality(I)
  BY <1>1
<1>3. ASSUME NEW n \in 1..N PROVE Ranked(I, n) \in I /\ Upto(I, Ranked(I, n)) = n
  <2> DEFINE P == {p \in 0..b : Upto(I, p) >= n}
  <2>1. P \in SUBSET Nat
    OBVIOUS
  <2>2. b \in P
    BY <1>0, <1>2, RankSteps
  <2>3. PICK p \in P : p - 1 \notin P
    <3> HIDE DEF P
    <3> QED
      BY <2>1, <2>2, FirstOf
  <2>4. p \in 1..b
    <3>1. p # 0
      BY RankSteps
    <3> QED
      BY <3>1
  <2>5. Upto(I, p) \in Nat /\ Upto(I, p - 1) \in Nat /\ Upto(I, p) >= n /\ ~(Upto(I, p - 1) >= n)
    <3>1. p - 1 \in 0..b /\ p \in 0..b
      BY <2>4
    <3> QED
      BY <2>3, <3>1, RankSteps
  <2> HIDE DEF P
  <2>6. Upto(I, p) = IF p \in I THEN Upto(I, p - 1) + 1 ELSE Upto(I, p - 1)
    BY <2>4, RankSteps
  <2>7. p \in I /\ Upto(I, p) = n
    BY <2>5, <2>6
  <2> QED
    BY <2>7 DEF Ranked
<1>4. ASSUME NEW m \in 1..N, NEW n \in 1..N, m < n PROVE Ranked(I, m) < Ranked(I, n)
  <2>1. PICK x \in I, y \in I : x = Ranked(I, m) /\ y = Ranked(I, n)
                                /\ Upto(I, x) = m /\ Upto(I, y) = n
    BY <1>3
  <2>2. x \in 0..b /\ y \in 0..b
    OBVIOUS
  <2>3. y <= x => n <= m
    <3>1. y <= x => Upto(I, y) <= Upto(I, x)
      BY <2>2, RankSteps
    <3> QED
      BY <2>1, <3>1
  <2> QED
    BY <1>4, <2>1, <2>2, <2>3
<1>5. ASSUME NEW i \in I PROVE \E n \in 1..N : Ranked(I, n) = i
  <2>1. /\ i \in 1..b /\ i \in 0..b /\ i - 1 \in 0..b /\ Upto(I, i) = Upto(I, i - 1) + 1
        /\ Upto(I, i) \in Nat /\ Upto(I, i - 1) \in Nat
    <3>1. i \in 1..b /\ i \in 0..b /\ i - 1 \in 0..b
      OBVIOUS
    <3> QED
      BY <3>1, RankSteps
  <2>2. Upto(I, i) <= N
    <3>1. i <= b /\ Upto(I, b) = N
      BY <1>2, <2>1, RankSteps
    <3>2. i <= b => Upto(I, i) <= Upto(I, b)
      BY <1>0, <2>1, RankSteps
    <3> QED
      BY <3>1, <3>2
  <2>3. Upto(I, i) \in 1..N
    BY <2>1, <2>2
  <2>4. PICK x \in I : x = Ranked(I, Upto(I, i)) /\ Upto(I, x) = Upto(I, i)
    BY <1>3, <2>3
  <2>5. /\ x \in 1..b /\ x \in 0..b /\ x - 1 \in 0..b /\ Upto(I, x) = Upto(I, x - 1) + 1
        /\ Upto(I, x - 1) \in Nat
    <3>1. x \in 1..b /\ x \in 0..b /\ x - 1 \in 0..b
      OBVIOUS
    <3> QED
      BY <3>1, RankSteps
  <2>6. ~(x < i)
    <3>1. x < i => x <= i - 1
      BY <2>1, <2>5
    <3>2. x <= i - 1 => Upto(I, x) <= Upto(I, i - 1)
      BY <2>1, <2>5, RankSteps
    <3> QED
      BY <2>1, <2>4, <3>1, <3>2
  <2>7. ~(i < x)
    <3>1. i < x => i <= x - 1
      BY <2>1, <2>5
    <3>2. i <= x - 1 => Upto(I, i) <= Upto(I, x - 1)
      BY <2>1, <2>5, RankSteps
    <3> QED
      BY <2>1, <2>4, <2>5, <3>1, <3>2
  <2>8. x = i
    BY <2>1, <2>5, <2>6, <2>7
  <2> QED
    BY <2>3, <2>4, <2>8
<1> QED
  BY <1>1, <1>2, <1>3, <1>4, <1>5

-----------------------------------------------------------------------------
(* The runs between delimiters *)

RunStarts(s, d) == {i \in 1..Len(s) : s[i] # d /\ (i = 1 \/ s[i - 1] = d)}
RunStart(s, d, n) == Ranked(RunStarts(s, d), n)
RunEnd(s, d, i) == IF Find(s, i, d) = 0 THEN Len(s) ELSE Find(s, i, d) - 1
RunCount(s, d) == Cardinality(RunStarts(s, d))

\* The runs of a text, by where they begin.
LEMMA RunsAre ==
    ASSUME NEW s, NEW d
    PROVE  Runs(s, d) = [n \in 1..RunCount(s, d) |->
                            SubSeq(s, RunStart(s, d, n), RunEnd(s, d, RunStart(s, d, n)))]
  BY DEF Runs, RunStarts, RunStart, RunEnd, RunCount, Ranked, Upto

\* Where the nth run begins and ends.
LEMMA RunFacts ==
    ASSUME NEW S, NEW s \in Seq(S), NEW d
    PROVE  /\ RunCount(s, d) \in Nat
           /\ \A n \in 1..RunCount(s, d) : RunStart(s, d, n) \in RunStarts(s, d)
           /\ \A m, n \in 1..RunCount(s, d) : m < n => RunStart(s, d, m) < RunStart(s, d, n)
           /\ \A i \in RunStarts(s, d) : \E n \in 1..RunCount(s, d) : RunStart(s, d, n) = i
<1>1. Len(s) \in Nat /\ RunStarts(s, d) \in SUBSET (1..Len(s))
  BY DEF RunStarts
<1> QED
  BY <1>1, RankFacts DEF RunStart, RunCount

\* A text that does not begin with a delimiter begins with a run.
LEMMA FirstRun ==
    ASSUME NEW S, NEW s \in Seq(S), NEW d, s # <<>>, s[1] # d
    PROVE  RunCount(s, d) # 0 /\ RunStart(s, d, 1) = 1
<1>1. 1 \in RunStarts(s, d)
  <2>1. 1 \in 1..Len(s)
    OBVIOUS
  <2> QED
    BY <2>1 DEF RunStarts
<1>2. PICK n \in 1..RunCount(s, d) : RunStart(s, d, n) = 1
  BY <1>1, RunFacts
<1>3. RunCount(s, d) \in Nat
  BY RunFacts
<1>4. 1 \in 1..RunCount(s, d)
  BY <1>2, <1>3
<1>5. RunStart(s, d, 1) \in 1..Len(s)
  BY <1>4, RunFacts DEF RunStarts
<1>6. n # 1 => RunStart(s, d, 1) < 1
  BY <1>2, <1>4, RunFacts
<1> QED
  BY <1>2, <1>3, <1>4, <1>5, <1>6

\* The run behind the one at position i is behind the delimiter that ends that.
LEMMA NextRun ==
    ASSUME NEW S, NEW s \in Seq(S), NEW d, NEW n \in 1..RunCount(s, d), NEW i,
           i = RunStart(s, d, n)
    PROVE  /\ i \in 1..Len(s) /\ s[i] # d
           /\ RunEnd(s, d, i) \in i..Len(s) /\ \A k \in i..RunEnd(s, d, i) : s[k] # d
           /\ Find(s, i, d) \in {0, Len(s)} => n = RunCount(s, d)
           /\ Find(s, i, d) # 0 =>
                 /\ Find(s, i, d) \in i + 1 .. Len(s) /\ s[Find(s, i, d)] = d
                 /\ Find(s, i, d) + 1 \in RunStarts(s, d) =>
                       /\ n + 1 \in 1..RunCount(s, d)
                       /\ RunStart(s, d, n + 1) = Find(s, i, d) + 1
<1>1. i \in 1..Len(s) /\ s[i] # d /\ Len(s) \in Nat
  BY RunFacts DEF RunStarts
<1>2. PICK e : e = Find(s, i, d)
  OBVIOUS
<1>3. /\ e = 0 => \A k \in i..Len(s) : s[k] # d
      /\ e # 0 => e \in i..Len(s) /\ s[e] = d /\ \A k \in i..(e - 1) : s[k] # d
  <2>1. i \in Nat \ {0}
    BY <1>1
  <2> QED
    BY <1>2, <2>1, FindFacts
<1>4. e # 0 => e \in i + 1 .. Len(s)
  <2>1. e # i
    BY <1>1, <1>3
  <2> QED
    BY <1>1, <1>3, <2>1
<1>11. e \in Nat
  <2>1. i \in Nat
    BY <1>1
  <2> QED
    BY <1>1, <1>2, <2>1, FindRange
<1>5. RunEnd(s, d, i) = IF e = 0 THEN Len(s) ELSE e - 1
  BY <1>2 DEF RunEnd
<1>6. RunEnd(s, d, i) \in i..Len(s) /\ \A k \in i..RunEnd(s, d, i) : s[k] # d
  <2>1. CASE e = 0
    BY <1>1, <1>3, <1>5, <2>1
  <2>2. CASE e # 0
    BY <1>1, <1>3, <1>4, <1>5, <2>2
  <2> QED
    BY <2>1, <2>2
<1>7. RunCount(s, d) \in Nat
  BY RunFacts
<1>8. ASSUME n + 1 \in 1..RunCount(s, d)
      PROVE  e # 0 /\ RunStart(s, d, n + 1) \in e + 1 .. Len(s)
  <2>1. PICK j : j = RunStart(s, d, n + 1)
    OBVIOUS
  <2>2. j \in 1..Len(s) /\ (j = 1 \/ s[j - 1] = d) /\ s[j] # d
    BY <1>8, <2>1, RunFacts DEF RunStarts
  <2>3. i < j
    <3>1. n < n + 1
      OBVIOUS
    <3> QED
      BY <1>8, <2>1, <3>1, RunFacts
  <2>4. s[j - 1] = d /\ j - 1 \in i..Len(s)
    BY <1>1, <2>2, <2>3
  <2>5. e # 0
    BY <1>3, <2>4
  <2>6. j - 1 \notin i..(e - 1)
    BY <1>3, <2>4, <2>5
  <2> QED
    BY <1>4, <2>1, <2>2, <2>4, <2>5, <2>6
<1>9. e \in {0, Len(s)} => n = RunCount(s, d)
  <2>1. e \in {0, Len(s)} => n + 1 \notin 1..RunCount(s, d)
    BY <1>1, <1>8
  <2> QED
    BY <1>7, <2>1
<1>10. ASSUME e # 0, e + 1 \in RunStarts(s, d)
       PROVE  n + 1 \in 1..RunCount(s, d) /\ RunStart(s, d, n + 1) = e + 1
  <2>1. PICK m \in 1..RunCount(s, d) : RunStart(s, d, m) = e + 1
    BY <1>10, RunFacts
  <2>2. ~(m <= n)
    <3>1. m = n => e + 1 = i
      BY <2>1
    <3>2. m < n => e + 1 < i
      BY <2>1, RunFacts
    <3>3. m \in Nat /\ n \in Nat /\ i \in Nat /\ e \in Nat /\ e >= i
      BY <1>1, <1>4, <1>7, <1>10
    <3> QED
      BY <3>1, <3>2, <3>3
  <2>3. n + 1 \in 1..RunCount(s, d)
    BY <1>7, <2>2
  <2>4. PICK j : j = RunStart(s, d, n + 1)
    OBVIOUS
  <2>5. j \in e + 1 .. Len(s)
    BY <1>8, <2>3, <2>4
  <2>6. n + 1 < m => j < e + 1
    BY <2>1, <2>3, <2>4, RunFacts
  <2>7. n + 1 = m => j = e + 1
    BY <2>1, <2>4
  <2> QED
    BY <1>7, <1>11, <2>2, <2>3, <2>4, <2>5, <2>6, <2>7
<1> QED
  BY <1>1, <1>2, <1>3, <1>4, <1>6, <1>9, <1>10

\* FlattenSeq puts the parts of a text together again.
LEMMA FlattenParts ==
    ASSUME NEW S, NEW s \in Seq(S), NEW P \in Seq(Seq(S)), NEW b, b[0] = 0, b[Len(P)] = Len(s),
           \A i \in 1..Len(P) : /\ b[i - 1] \in Nat /\ b[i] \in Nat
                                /\ b[i - 1] <= b[i] /\ b[i] <= Len(s)
                                /\ P[i] = SubSeq(s, b[i - 1] + 1, b[i])
    PROVE  FlattenSeq(P) = s
<1>1. Len(P) \in Nat /\ Len(s) \in Nat
  OBVIOUS
<1>2. CASE P = <<>>
  <2>1. Len(P) = 0 /\ Len(s) = 0
    BY <1>2
  <2>2. s = <<>>
    BY <2>1
  <2> QED
    BY <1>2, <2>2 DEF FlattenSeq
<1>3. CASE P # <<>>
  <2>0. Len(P) \in Nat \ {0}
    BY <1>3
  <2>1. PICK f : /\ FlattenSeq(P) = f[Len(P)]
                 /\ \A i \in 1..Len(P) : f[i] = IF i = 1 THEN P[i] ELSE f[i-1] \o P[i]
    BY <1>3, FlattenSteps
  <2> DEFINE Bad == {i \in 1..Len(P) : f[i] # SubSeq(s, 1, b[i])}
  <2>2. Bad = {}
    <3> SUFFICES ASSUME Bad # {} PROVE FALSE
      OBVIOUS
    <3>1. PICK n \in Bad : n - 1 \notin Bad
      <4>1. Bad \subseteq Nat
        BY <1>1
      <4> HIDE DEF Bad
      <4> QED
        BY <4>1, FirstOf
    <3>2. n \in 1..Len(P) /\ f[n] # SubSeq(s, 1, b[n])
      OBVIOUS
    <3>3. f[n] = IF n = 1 THEN P[n] ELSE f[n-1] \o P[n]
      BY <2>1, <3>2
    <3>4. /\ b[n - 1] \in Nat /\ b[n] \in Nat /\ b[n - 1] <= b[n] /\ b[n] <= Len(s)
          /\ P[n] = SubSeq(s, b[n - 1] + 1, b[n])
      BY <3>2
    <3>5. n # 1
      <4>1. n = 1 => b[n - 1] = 0
        OBVIOUS
      <4>2. 0 + 1 = 1
        OBVIOUS
      <4> QED
        BY <3>2, <3>3, <3>4, <4>1, <4>2
    <3>6. n - 1 \in 1..Len(P)
      BY <1>1, <3>2, <3>5
    <3>7. f[n - 1] = SubSeq(s, 1, b[n - 1])
      BY <3>1, <3>6
    <3>8. SubSeq(s, 1, b[n - 1]) \o SubSeq(s, b[n - 1] + 1, b[n]) = SubSeq(s, 1, b[n])
      <4>1. PICK x \in Nat, y \in Nat : x = b[n - 1] /\ y = b[n] /\ x <= y /\ y <= Len(s)
        BY <3>4
      <4>2. 1 \in 1 .. Len(s) + 1 /\ x \in 1 - 1 .. Len(s) /\ y \in x .. Len(s)
        <5>1. PICK L \in Nat : L = Len(s)
          BY <1>1
        <5>2. x <= y /\ y <= L
          BY <4>1, <5>1
        <5>3. x \in 0 .. L /\ y \in x .. L /\ 1 \in 1 .. L + 1 /\ 1 - 1 = 0
          BY <5>2
        <5> QED
          BY <5>1, <5>3
      <4>3. SubSeq(s, 1, x) \o SubSeq(s, x + 1, y) = SubSeq(s, 1, y)
        BY <4>2, ConcatAdjacentSubSeq
      <4> QED
        BY <4>1, <4>3
    <3> QED
      BY <3>2, <3>3, <3>4, <3>5, <3>7, <3>8
  <2>3. f[Len(P)] = SubSeq(s, 1, Len(s))
    <3>1. Len(P) \in 1..Len(P)
      BY <2>0
    <3> QED
      BY <2>2, <3>1
  <2> QED
    BY <2>1, <2>3, SubSeqFull
<1> QED
  BY <1>2, <1>3

-----------------------------------------------------------------------------
(* Names and values *)

\* One delimiter inside of a text makes two runs.
LEMMA PairFacts ==
    ASSUME NEW S, NEW r \in Seq(S), NEW d, NEW k \in 2 .. Len(r) - 1, r[k] = d,
           \A m \in 1..Len(r) : r[m] = d => m = k
    PROVE  /\ Len(Runs(r, d)) = 2
           /\ Runs(r, d)[1] = SubSeq(r, 1, k - 1)
           /\ Runs(r, d)[2] = SubSeq(r, k + 1, Len(r))
<1>1. Len(r) \in Nat /\ k \in Nat
  OBVIOUS
<1>2. r # <<>> /\ r[1] # d
  <2>1. 1 \in 1..Len(r) /\ 1 # k
    BY <1>1
  <2> QED
    BY <2>1
<1>3. RunStart(r, d, 1) = 1 /\ 1 \in 1..RunCount(r, d)
  <2>1. RunStart(r, d, 1) = 1 /\ RunCount(r, d) # 0
    BY <1>2, FirstRun
  <2> QED
    BY <2>1, RunFacts
<1>4. Find(r, 1, d) = k
  <2>1. k \in 1..Len(r) /\ \A m \in 1..(k - 1) : m \in 1..Len(r) /\ m # k
    BY <1>1
  <2> QED
    BY <2>1, FindIs
<1>5. k + 1 \in RunStarts(r, d)
  <2>1. k + 1 \in 1..Len(r) /\ k + 1 # k /\ k + 1 - 1 = k
    BY <1>1
  <2> QED
    BY <2>1 DEF RunStarts
<1>6. 2 \in 1..RunCount(r, d) /\ RunStart(r, d, 2) = k + 1
  <2>1. 1 + 1 \in 1..RunCount(r, d) /\ RunStart(r, d, 1 + 1) = k + 1
    BY <1>3, <1>4, <1>5, NextRun
  <2>2. 1 + 1 = 2
    OBVIOUS
  <2> QED
    BY <2>1, <2>2
<1>7. Find(r, k + 1, d) = 0
  <2>1. k + 1 \in Nat \ {0} /\ \A m \in k + 1 .. Len(r) : m \in 1..Len(r) /\ m # k
    BY <1>1
  <2>2. PICK f : f = Find(r, k + 1, d)
    OBVIOUS
  <2>3. f # 0 => f \in k + 1 .. Len(r) /\ r[f] = d
    BY <2>1, <2>2, FindFacts
  <2> QED
    BY <2>1, <2>2, <2>3
<1>8. RunCount(r, d) = 2
  <2>1. Find(r, k + 1, d) \in {0, Len(r)} => 2 = RunCount(r, d)
    BY <1>6, NextRun
  <2> QED
    BY <1>7, <2>1
<1>9. RunEnd(r, d, 1) = k - 1 /\ RunEnd(r, d, k + 1) = Len(r)
  BY <1>1, <1>4, <1>7 DEF RunEnd
<1>10. Runs(r, d) = [n \in 1..2 |-> SubSeq(r, RunStart(r, d, n), RunEnd(r, d, RunStart(r, d, n)))]
  BY <1>8, RunsAre
<1>11. Len(Runs(r, d)) = 2
  BY <1>10
<1>12. \A n \in 1..2 : Runs(r, d)[n] = SubSeq(r, RunStart(r, d, n), RunEnd(r, d, RunStart(r, d, n)))
  BY <1>10
<1>13. 1 \in 1..2 /\ 2 \in 1..2
  OBVIOUS
<1>14. Runs(r, d)[1] = SubSeq(r, 1, k - 1)
  <2>1. Runs(r, d)[1] = SubSeq(r, RunStart(r, d, 1), RunEnd(r, d, RunStart(r, d, 1)))
    BY <1>12, <1>13
  <2> QED
    BY <1>3, <1>9, <2>1
<1>15. Runs(r, d)[2] = SubSeq(r, k + 1, Len(r))
  <2>1. Runs(r, d)[2] = SubSeq(r, RunStart(r, d, 2), RunEnd(r, d, RunStart(r, d, 2)))
    BY <1>12, <1>13
  <2> QED
    BY <1>6, <1>9, <2>1
<1> QED
  BY <1>11, <1>14, <1>15

\* Parameters of a text: each begins behind one of Begins.
Begins(q) == {0} \cup {i \in DOMAIN q : q[i] = "&"}
CleanParts(q) ==
    \A i \in Begins(q), j \in Begins(q) \cup {Len(q) + 1} :
        i < j /\ (\A m \in i + 1 .. j - 1 : q[m] # "&") =>
            \E k \in i + 2 .. j - 2 : {m \in i + 1 .. j - 1 : q[m] = "="} = {k}

\* What is between a delimiter and the next one.
LEMMA BetweenDelimiters ==
    ASSUME NEW S, NEW q \in Seq(S), CleanParts(q), NEW i \in Begins(q)
    PROVE  \E j \in i + 4 .. Len(q) + 1 :
              /\ j = Len(q) + 1 \/ q[j] = "&"
              /\ \A m \in i + 1 .. j - 1 : q[m] # "&"
              /\ \E k \in i + 2 .. j - 2 : /\ q[k] = "="
                                           /\ \A m \in i + 1 .. j - 1 : q[m] = "=" => m = k
<1>1. Len(q) \in Nat /\ i \in 0..Len(q) /\ DOMAIN q = 1..Len(q)
  BY DEF Begins
<1> DEFINE J == {j \in i + 1 .. Len(q) + 1 : j = Len(q) + 1 \/ q[j] = "&"}
<1>2. Len(q) + 1 \in J /\ J \in SUBSET Nat
  BY <1>1
<1>3. PICK j : j = Min(J)
  OBVIOUS
<1>4. j \in J /\ \A m \in J : j <= m
  <2> HIDE DEF J
  <2> QED
    BY <1>2, <1>3, MinFacts
<1>5. j \in Nat /\ i + 1 <= j /\ j <= Len(q) + 1 /\ (j = Len(q) + 1 \/ q[j] = "&")
  BY <1>1, <1>4
<1>6. ASSUME NEW m \in i + 1 .. j - 1 PROVE q[m] # "&"
  <2>1. m \in i + 1 .. Len(q) + 1 /\ ~(j <= m)
    BY <1>1, <1>5
  <2> QED
    BY <1>4, <2>1
<1>7. j \in Begins(q) \cup {Len(q) + 1}
  <2>1. j # Len(q) + 1 => j \in DOMAIN q
    BY <1>1, <1>5
  <2> QED
    BY <1>5, <2>1 DEF Begins
<1>8. i < j
  BY <1>1, <1>5
<1>9. PICK k \in i + 2 .. j - 2 : {m \in i + 1 .. j - 1 : q[m] = "="} = {k}
  BY <1>6, <1>7, <1>8 DEF CleanParts
<1>10. q[k] = "=" /\ \A m \in i + 1 .. j - 1 : q[m] = "=" => m = k
  BY <1>9
<1>11. j \in i + 4 .. Len(q) + 1
  <2>1. i + 2 <= k /\ k <= j - 2 /\ k \in Int
    BY <1>1, <1>5, <1>9
  <2> QED
    BY <1>1, <1>5, <2>1
<1> QED
  BY <1>5, <1>6, <1>9, <1>10, <1>11

\* Each parameter is a run, and each run is a parameter.
LEMMA BeginsAreRuns ==
    ASSUME NEW S, NEW q \in Seq(S), CleanParts(q)
    PROVE  /\ RunStarts(q, "&") = {i + 1 : i \in Begins(q)}
           /\ RunCount(q, "&") = Cardinality(Begins(q))
           /\ q # <<>> /\ q[1] # "&"
<1>1. Len(q) \in Nat /\ Begins(q) \subseteq 0..Len(q) /\ DOMAIN q = 1..Len(q)
  BY DEF Begins
<1>2. ASSUME NEW i \in Begins(q) PROVE i + 1 \in RunStarts(q, "&")
  <2>1. PICK j \in i + 4 .. Len(q) + 1 : \A m \in i + 1 .. j - 1 : q[m] # "&"
    BY BetweenDelimiters
  <2>2. i + 1 \in 1..Len(q) /\ i + 1 \in i + 1 .. j - 1 /\ i + 1 - 1 = i
    BY <1>1
  <2>3. i + 1 = 1 \/ q[i + 1 - 1] = "&"
    BY <2>2 DEF Begins
  <2>4. PICK a : a = i + 1
    OBVIOUS
  <2>5. a \in 1..Len(q) /\ a \in i + 1 .. j - 1
    BY <2>2, <2>4
  <2>6. a - 1 = i + 1 - 1
    <3>1. i \in Nat
      BY <1>1
    <3> QED
      BY <2>4, <3>1
  <2>7. a = 1 \/ q[a - 1] = "&"
    BY <2>3, <2>4, <2>6
  <2>8. q[a] # "&"
    BY <2>1, <2>5
  <2> QED
    BY <2>4, <2>5, <2>7, <2>8 DEF RunStarts
<1>3. ASSUME NEW i \in RunStarts(q, "&") PROVE i - 1 \in Begins(q) /\ i = (i - 1) + 1
  <2>1. i \in 1..Len(q) /\ (i = 1 \/ q[i - 1] = "&")
    BY DEF RunStarts
  <2>2. i = (i - 1) + 1 /\ (i # 1 => i - 1 \in DOMAIN q) /\ (i = 1 => i - 1 = 0)
    BY <1>1, <2>1
  <2> QED
    BY <2>1, <2>2 DEF Begins
<1>4. RunStarts(q, "&") = {i + 1 : i \in Begins(q)}
  BY <1>2, <1>3
<1>5. Cardinality(RunStarts(q, "&")) = Cardinality(Begins(q))
  <2> DEFINE f == [i \in Begins(q) |-> i + 1]
  <2>1. f \in Bijection(Begins(q), RunStarts(q, "&"))
    <3>1. f \in [Begins(q) -> RunStarts(q, "&")]
      BY <1>2
    <3>2. \A i, j \in Begins(q) : f[i] = f[j] => i = j
      BY <1>1
    <3>3. \A i \in RunStarts(q, "&") : \E j \in Begins(q) : f[j] = i
      BY <1>3
    <3> HIDE DEF f
    <3> QED
      BY <3>1, <3>2, <3>3 DEF Bijection, Injection, Surjection, IsInjective
  <2>2. IsFiniteSet(Begins(q))
    <3>1. IsFiniteSet(0..Len(q))
      BY <1>1, FS_Interval
    <3> QED
      BY <1>1, <3>1, FS_Subset
  <2> HIDE DEF f
  <2>3. ExistsBijection(Begins(q), RunStarts(q, "&"))
    BY <2>1 DEF ExistsBijection
  <2> QED
    BY <2>2, <2>3, FS_Bijection
<1>6. q # <<>> /\ q[1] # "&"
  <2>1. 0 \in Begins(q) /\ 0 + 1 = 1
    BY DEF Begins
  <2>2. 1 \in RunStarts(q, "&")
    BY <1>2, <2>1
  <2> QED
    BY <2>2 DEF RunStarts
<1> QED
  BY <1>4, <1>5, <1>6 DEF RunCount

\* A parameter has a name and a value; the next one begins behind its delimiter.
LEMMA ParameterFacts ==
    ASSUME NEW S, NEW q \in Seq(S), CleanParts(q), NEW n \in 1..RunCount(q, "&"),
           NEW a, NEW u, a = RunStart(q, "&", n), u = RunEnd(q, "&", a)
    PROVE  /\ a \in 1..Len(q) /\ u \in a..Len(q) /\ (a = 1 \/ q[a - 1] = "&")
           /\ u = Len(q) \/ q[u + 1] = "&"
           /\ \E k \in a + 1 .. u - 1 : q[k] = "=" /\ \A m \in a..u : q[m] = "=" => m = k
           /\ IF u = Len(q) THEN n = RunCount(q, "&")
              ELSE n + 1 \in 1..RunCount(q, "&") /\ RunStart(q, "&", n + 1) = u + 2
<1>1. /\ a \in 1..Len(q) /\ u \in a..Len(q) /\ Len(q) \in Nat
      /\ \A m \in a..u : q[m] # "&"
      /\ Find(q, a, "&") \in {0, Len(q)} => n = RunCount(q, "&")
      /\ Find(q, a, "&") # 0 =>
            /\ Find(q, a, "&") \in a + 1 .. Len(q)
            /\ q[Find(q, a, "&")] = "&"
            /\ Find(q, a, "&") + 1 \in RunStarts(q, "&") =>
                  n + 1 \in 1..RunCount(q, "&") /\ RunStart(q, "&", n + 1) = Find(q, a, "&") + 1
  BY NextRun
<1>2. a \in RunStarts(q, "&")
  BY RunFacts
<1>3. a = 1 \/ q[a - 1] = "&"
  BY <1>2 DEF RunStarts
<1>4. PICK i \in Begins(q) : a = i + 1
  BY <1>2, BeginsAreRuns
<1>5. i \in Nat
  BY DEF Begins
<1>6. PICK j \in i + 4 .. Len(q) + 1 :
              /\ j = Len(q) + 1 \/ q[j] = "&"
              /\ \A m \in i + 1 .. j - 1 : q[m] # "&"
              /\ \E k \in i + 2 .. j - 2 : /\ q[k] = "="
                                           /\ \A m \in i + 1 .. j - 1 : q[m] = "=" => m = k
  BY BetweenDelimiters
<1>7. PICK e : e = Find(q, a, "&")
  OBVIOUS
<1>8. u = IF e = 0 THEN Len(q) ELSE e - 1
  BY <1>7 DEF RunEnd
<1>9. CASE j = Len(q) + 1
  <2>1. e = 0
    <3>1. e # 0 => e \in i + 1 .. j - 1 /\ q[e] = "&"
      BY <1>1, <1>4, <1>5, <1>7, <1>9
    <3> QED
      BY <1>6, <3>1
  <2>2. u = Len(q) /\ n = RunCount(q, "&") /\ u = j - 1
    BY <1>1, <1>7, <1>8, <1>9, <2>1
  <2>3. a + 1 = i + 2 /\ u - 1 = j - 2 /\ a = i + 1
    <3>1. j \in Nat
      BY <1>5, <1>6
    <3>2. u = j - 1
      BY <2>2
    <3> QED
      BY <1>4, <1>5, <3>1, <3>2
  <2> QED
    BY <1>1, <1>3, <1>6, <2>2, <2>3
<1>10. CASE j # Len(q) + 1
  <2>1. j \in a..Len(q) /\ q[j] = "&" /\ a \in Nat \ {0} /\ j \in Nat
    BY <1>1, <1>4, <1>5, <1>6, <1>10
  <2>2. e = j
    BY <1>4, <1>6, <1>7, <2>1, FindIs
  <2>3. u = j - 1 /\ u + 1 = j /\ u + 2 = e + 1 /\ u # Len(q)
    BY <1>1, <1>8, <2>1, <2>2
  <2>4. j \in Begins(q)
    <3>1. j \in DOMAIN q
      BY <1>1, <2>1
    <3> QED
      BY <2>1, <3>1 DEF Begins
  <2>5. j + 1 \in RunStarts(q, "&")
    BY <2>4, BeginsAreRuns
  <2>6. n + 1 \in 1..RunCount(q, "&") /\ RunStart(q, "&", n + 1) = u + 2
    <3>1. e # 0 /\ Find(q, a, "&") + 1 \in RunStarts(q, "&")
      BY <1>7, <2>1, <2>2, <2>5
    <3> QED
      BY <1>1, <1>7, <2>3, <3>1
  <2>7. a + 1 = i + 2 /\ u - 1 = j - 2 /\ a = i + 1
    <3>1. j \in Nat
      BY <1>5, <1>6
    <3>2. u = j - 1
      BY <2>3
    <3> QED
      BY <1>4, <1>5, <3>1, <3>2
  <2> QED
    BY <1>1, <1>3, <1>6, <2>1, <2>3, <2>6, <2>7
<1> QED
  BY <1>9, <1>10

-----------------------------------------------------------------------------
(* Parts put together again *)

\* A part of a part of a text is a part of it.
LEMMA PartOfPart ==
    ASSUME NEW S, NEW s \in Seq(S), NEW i \in Nat \ {0}, NEW j \in Nat, j <= Len(s),
           NEW m \in Nat \ {0}, NEW n \in Nat, m <= n + 1, n <= j - i + 1
    PROVE  SubSeq(SubSeq(s, i, j), m, n) = SubSeq(s, i + m - 1, i + n - 1)
<1> DEFINE p == SubSeq(s, i, j)
           l == SubSeq(p, m, n)
           r == SubSeq(s, i + m - 1, i + n - 1)
<1>0. PICK L \in Nat : L = Len(s)
  OBVIOUS
<1>1. i <= j + 1 /\ i + m - 1 \in Nat \ {0} /\ i + n - 1 \in Nat
      /\ i + m - 1 <= i + n - 1 + 1 /\ i + n - 1 <= L
      /\ (i + n - 1) - (i + m - 1) + 1 = n - m + 1
  BY <1>0
<1>2. p \in Seq(S) /\ Len(p) = j - i + 1 /\ \A a \in 1 .. j - i + 1 : p[a] = s[i + a - 1]
  BY <1>1, PartFacts
<1>3. r \in Seq(S) /\ Len(r) = n - m + 1 /\ \A a \in 1 .. n - m + 1 : r[a] = s[i + m - 1 + a - 1]
  <2>1. i + m - 1 <= (i + n - 1) + 1 /\ i + n - 1 <= Len(s)
    BY <1>0, <1>1
  <2>2. /\ r \in Seq(S) /\ Len(r) = (i + n - 1) - (i + m - 1) + 1
        /\ \A a \in 1 .. (i + n - 1) - (i + m - 1) + 1 : r[a] = s[i + m - 1 + a - 1]
    BY <1>1, <2>1, PartFacts
  <2> QED
    BY <1>1, <2>2
<1> HIDE DEF p
<1>4. l \in Seq(S) /\ Len(l) = n - m + 1 /\ \A a \in 1 .. n - m + 1 : l[a] = p[m + a - 1]
  <2>1. n <= Len(p)
    BY <1>2
  <2> QED
    BY <1>2, <2>1, PartFacts
<1> HIDE DEF l, r
<1>5. ASSUME NEW a \in 1 .. n - m + 1 PROVE l[a] = r[a]
  <2>1. m + a - 1 \in 1 .. j - i + 1 /\ i + (m + a - 1) - 1 = i + m - 1 + a - 1
    OBVIOUS
  <2> QED
    BY <1>2, <1>3, <1>4, <2>1
<1>6. l = r
  BY <1>3, <1>4, <1>5, SeqEqual
<1> QED
  BY <1>6 DEF l, r, p

\* The same with names for the positions.
LEMMA PartAgain ==
    ASSUME NEW S, NEW s \in Seq(S), NEW i \in Nat, NEW j \in Nat, 1 <= i, j <= Len(s),
           NEW m \in Nat, NEW n \in Nat, 1 <= m, m <= n + 1, n <= j - i + 1,
           NEW x, NEW y, x = i + m - 1, y = i + n - 1
    PROVE  SubSeq(SubSeq(s, i, j), m, n) = SubSeq(s, x, y)
<1>1. i \in Nat \ {0} /\ m \in Nat \ {0}
  OBVIOUS
<1>2. SubSeq(SubSeq(s, i, j), m, n) = SubSeq(s, i + m - 1, i + n - 1)
  BY <1>1, PartOfPart
<1> QED
  BY <1>2

\* Parts that are next to each other are a part.
LEMMA PartsJoined ==
    ASSUME NEW S, NEW s \in Seq(S), NEW m \in Nat, NEW k \in Nat, NEW l, NEW n \in Nat,
           l = k + 1, 1 <= m, m <= l, k <= n, n <= Len(s)
    PROVE  SubSeq(s, m, k) \o SubSeq(s, l, n) = SubSeq(s, m, n)
<1>1. m \in 1 .. Len(s) + 1 /\ k \in m - 1 .. Len(s) /\ n \in k .. Len(s)
  OBVIOUS
<1>2. SubSeq(s, m, k) \o SubSeq(s, k + 1, n) = SubSeq(s, m, n)
  BY <1>1, ConcatAdjacentSubSeq
<1> QED
  BY <1>2

\* One character of a text is a part of it.
LEMMA OnePart ==
    ASSUME NEW S, NEW s \in Seq(S), NEW i \in 1..Len(s)
    PROVE  SubSeq(s, i, i) = <<s[i]>>
<1>1. i \in i..Len(s) /\ i < i + 1 /\ i + 1 \in Int /\ i \in Int
  OBVIOUS
<1>2. SubSeq(s, i, i) = <<s[i]>> \o SubSeq(s, i + 1, i)
  BY <1>1, SubSeqRecursiveFirst
<1>3. SubSeq(s, i + 1, i) = <<>>
  BY <1>1, SubSeqEmpty
<1>4. <<s[i]>> \in Seq(S)
  OBVIOUS
<1> QED
  BY <1>2, <1>3, <1>4, ConcatEmptySeq

\* A name, a sign and a value that are next to each other.
LEMMA NameAndValue ==
    ASSUME NEW S, NEW q \in Seq(S), NEW a \in Nat, NEW j \in Nat, NEW k \in Nat, NEW l \in Nat,
           NEW u \in Nat, 1 <= a, a < k, k < u, u <= Len(q), j = k - 1, l = k + 1
    PROVE  SubSeq(q, a, j) \o <<q[k]>> \o SubSeq(q, l, u) = SubSeq(q, a, u)
<1>1. SubSeq(q, k, k) = <<q[k]>>
  <2>1. k \in 1..Len(q)
    OBVIOUS
  <2> QED
    BY <2>1, OnePart
<1>2. k = j + 1 /\ a <= k /\ j <= k /\ k <= Len(q) /\ a <= l /\ k <= u
  OBVIOUS
<1>3. SubSeq(q, a, j) \o SubSeq(q, k, k) = SubSeq(q, a, k)
  BY <1>2, PartsJoined
<1>4. SubSeq(q, a, k) \o SubSeq(q, l, u) = SubSeq(q, a, u)
  BY <1>2, PartsJoined
<1> QED
  BY <1>1, <1>3, <1>4

\* What is in front of and behind a character of a part.
LEMMA AroundPart ==
    ASSUME NEW S, NEW q \in Seq(S), NEW a \in Nat, NEW j \in Nat, NEW l \in Nat, NEW u \in Nat,
           1 <= a, a <= j, l = j + 2, l <= u, u <= Len(q),
           NEW e \in Nat, NEW f \in Nat, e = j - a + 1, f = e + 2, NEW r, r = SubSeq(q, a, u)
    PROVE  SubSeq(r, 1, e) = SubSeq(q, a, j) /\ SubSeq(r, f, Len(r)) = SubSeq(q, l, u)
<1>1. PICK z \in Nat : z = u - a + 1
  OBVIOUS
<1>2. Len(r) = z
  BY <1>1, PartFacts
<1>3. 1 <= e + 1 /\ e <= u - a + 1 /\ a = a + 1 - 1 /\ j = a + e - 1
  OBVIOUS
<1>4. 1 <= f /\ f <= z + 1 /\ z <= u - a + 1 /\ l = a + f - 1 /\ u = a + z - 1
  BY <1>1
<1>5. SubSeq(r, 1, e) = SubSeq(q, a, j)
  BY <1>3, PartAgain
<1>6. SubSeq(r, f, z) = SubSeq(q, l, u)
  BY <1>4, PartAgain
<1> QED
  BY <1>2, <1>5, <1>6

\* The text of the nth parameter, with the delimiter in front of it.
NthPair(q, n) == Runs(Runs(q, "&")[n], "=")
NthPiece(q, n) == (IF n > 1 THEN <<"&">> ELSE <<>>) \o NthPair(q, n)[1] \o <<"=">> \o NthPair(q, n)[2]

\* It is between a and u, its equals sign between j and l.
IsCut(q, n, a, j, k, l, u) ==
    /\ 1 <= a /\ a < k /\ k < u /\ u <= Len(q) /\ j = k - 1 /\ l = k + 1
    /\ q[k] = "=" /\ \A m \in a..u : q[m] = "=" => m = k
    /\ Runs(q, "&")[n] = SubSeq(q, a, u)
    /\ Len(NthPair(q, n)) = 2
    /\ NthPair(q, n)[1] = SubSeq(q, a, j) /\ NthPair(q, n)[2] = SubSeq(q, l, u)

\* A parameter is cut at its equals sign.
IsNth(q, n, a, u) == a = RunStart(q, "&", n) /\ u = RunEnd(q, "&", a)

\* The nth parameter of a clean text is a name and a value around one sign.
LEMMA RunPair ==
    ASSUME NEW S, NEW q \in Seq(S), CleanParts(q), NEW n \in 1..RunCount(q, "&"),
           NEW a \in Nat, NEW u \in Nat, IsNth(q, n, a, u)
    PROVE  \E j, k, l \in Nat : IsCut(q, n, a, j, k, l, u)
<1> DEFINE r == SubSeq(q, a, u)
<1>0. PICK L \in Nat : L = Len(q)
  OBVIOUS
<1>1. a \in 1..L /\ u \in a..L
  BY <1>0, ParameterFacts DEF IsNth
<1>2. PICK k \in Nat : a < k /\ k < u /\ q[k] = "=" /\ \A m \in a..u : q[m] = "=" => m = k
  <2>1. PICK k \in a + 1 .. u - 1 : q[k] = "=" /\ \A m \in a..u : q[m] = "=" => m = k
    BY ParameterFacts DEF IsNth
  <2>2. k \in Nat /\ a < k /\ k < u
    OBVIOUS
  <2> QED
    BY <2>1, <2>2
<1>3. Runs(q, "&")[n] = r
  BY RunsAre DEF IsNth
<1>4. r \in Seq(S) /\ Len(r) = u - a + 1 /\ \A i \in 1 .. u - a + 1 : r[i] = q[a + i - 1]
  <2>1. a \in Nat \ {0} /\ a <= u + 1 /\ u <= Len(q)
    BY <1>0, <1>1
  <2> QED
    BY <2>1, PartFacts
<1>5. PICK c, j, l \in Nat : c = k - a + 1 /\ j = k - 1 /\ l = k + 1
  <2>1. k - a + 1 \in Nat /\ k - 1 \in Nat /\ k + 1 \in Nat
    BY <1>1, <1>2
  <2> QED
    BY <2>1
<1> HIDE DEF r
<1>6. 1 <= a /\ u <= L /\ L = Len(q)
  BY <1>0, <1>1
<1>7. c \in 1 .. u - a + 1 /\ a + c - 1 = k /\ c \in 2 .. (u - a + 1) - 1
  BY <1>2, <1>5, <1>6
<1>8. r[c] = "="
  BY <1>2, <1>4, <1>7
<1>9. ASSUME NEW m \in 1..Len(r), r[m] = "=" PROVE m = c
  <2>1. m \in Nat /\ 1 <= m /\ m <= u - a + 1
    BY <1>2, <1>4, <1>6
  <2>2. PICK x \in Nat : x = a + m - 1
    BY <1>6, <2>1
  <2>3. x \in a..u /\ m \in 1 .. u - a + 1
    BY <1>2, <1>6, <2>1, <2>2
  <2>4. q[x] = "="
    BY <1>4, <1>9, <2>2, <2>3
  <2>5. x = k
    BY <1>2, <2>3, <2>4
  <2> QED
    BY <1>5, <2>1, <2>2, <2>5
<1>10. c \in 2 .. Len(r) - 1
  BY <1>4, <1>7
<1>11. /\ Len(Runs(r, "=")) = 2
       /\ Runs(r, "=")[1] = SubSeq(r, 1, c - 1)
       /\ Runs(r, "=")[2] = SubSeq(r, c + 1, Len(r))
  BY <1>4, <1>8, <1>9, <1>10, PairFacts
<1>12. u <= Len(q)
  BY <1>6
<1>13. SubSeq(r, 1, c - 1) = SubSeq(q, a, j) /\ SubSeq(r, c + 1, Len(r)) = SubSeq(q, l, u)
  <2>1. PICK e, f \in Nat : e = c - 1 /\ f = c + 1
    BY <1>7
  <2>2. a <= j /\ l = j + 2 /\ l <= u /\ e = j - a + 1 /\ f = e + 2
    <3>1. a < k /\ k < u
      BY <1>2
    <3> QED
      BY <1>5, <2>1, <3>1
  <2>3. 1 <= a /\ u <= Len(q) /\ r = SubSeq(q, a, u)
    BY <1>6 DEF r
  <2>4. SubSeq(r, 1, e) = SubSeq(q, a, j) /\ SubSeq(r, f, Len(r)) = SubSeq(q, l, u)
    BY <2>2, <2>3, AroundPart
  <2> QED
    BY <2>1, <2>4
<1>14. Runs(r, "=")[1] = SubSeq(q, a, j) /\ Runs(r, "=")[2] = SubSeq(q, l, u)
  BY <1>11, <1>13
<1>15. IsCut(q, n, a, j, k, l, u)
  <2>1. NthPair(q, n) = Runs(r, "=") /\ Runs(q, "&")[n] = SubSeq(q, a, u)
    BY <1>3 DEF NthPair, r
  <2>2. Len(NthPair(q, n)) = 2 /\ NthPair(q, n)[1] = SubSeq(q, a, j) /\ NthPair(q, n)[2] = SubSeq(q, l, u)
    BY <1>11, <1>14, <2>1
  <2> QED
    BY <1>2, <1>5, <1>6, <1>12, <2>1, <2>2 DEF IsCut
<1> QED
  BY <1>15

\* Names and values, joined by their equals signs and delimiters, are the text.
LEMMA PairsJoined ==
    ASSUME NEW S, NEW q \in Seq(S), CleanParts(q), NEW N \in Nat, N = RunCount(q, "&"),
           NEW P \in Seq(Seq(S)), Len(P) = N,
           \A n \in 1..N : P[n] = NthPiece(q, n)
    PROVE  FlattenSeq(P) = q
<1> DEFINE b == [n \in 0..N |-> IF n = 0 THEN 0 ELSE RunEnd(q, "&", RunStart(q, "&", n))]
<1>0. PICK L \in Nat : L = Len(q)
  OBVIOUS
<1>1. N # 0 /\ q # <<>> /\ q[1] # "&"
  BY BeginsAreRuns, FirstRun
<1>2. ASSUME NEW n \in 1..N
      PROVE  \E a, u \in Nat : /\ IsNth(q, n, a, u)
                               /\ 1 <= a /\ a <= u /\ u <= L
                               /\ b[n] = u
                               /\ a = 1 \/ q[a - 1] = "&"
                               /\ n = N => u = L
                               /\ n # N => RunStart(q, "&", n + 1) = u + 2
  <2>1. PICK a, u : a = RunStart(q, "&", n) /\ u = RunEnd(q, "&", a)
    OBVIOUS
  <2>2. /\ a \in 1..Len(q) /\ u \in a..Len(q) /\ (a = 1 \/ q[a - 1] = "&")
        /\ IF u = Len(q) THEN n = N
           ELSE n + 1 \in 1..N /\ RunStart(q, "&", n + 1) = u + 2
    <3>1. n \in 1..RunCount(q, "&")
      OBVIOUS
    <3>2. IF u = Len(q) THEN n = RunCount(q, "&")
          ELSE n + 1 \in 1..RunCount(q, "&") /\ RunStart(q, "&", n + 1) = u + 2
      BY <2>1, <3>1, ParameterFacts
    <3>3. a \in 1..Len(q) /\ u \in a..Len(q) /\ (a = 1 \/ q[a - 1] = "&")
      BY <2>1, <3>1, ParameterFacts
    <3> QED
      BY <3>2, <3>3
  <2>3. a \in Nat /\ u \in Nat /\ 1 <= a /\ a <= u /\ u <= L
    BY <1>0, <2>2
  <2>4. b[n] = u
    BY <2>1
  <2>5. n = N => u = L
    BY <1>0, <2>2
  <2>6. n # N => RunStart(q, "&", n + 1) = u + 2
    BY <2>2
  <2> QED
    BY <2>1, <2>2, <2>3, <2>4, <2>5, <2>6 DEF IsNth
<1>3. b[0] = 0
  OBVIOUS
<1> HIDE DEF b
<1>4. ASSUME NEW n \in 1..N
      PROVE  /\ b[n - 1] \in Nat /\ b[n] \in Nat /\ b[n - 1] <= b[n] /\ b[n] <= Len(q)
             /\ P[n] = SubSeq(q, b[n - 1] + 1, b[n])
  <2>1. PICK a, u \in Nat : /\ IsNth(q, n, a, u)
                            /\ 1 <= a /\ a <= u /\ u <= L
                            /\ b[n] = u
                            /\ a = 1 \/ q[a - 1] = "&"
    BY <1>2
  <2>2. PICK j, k, l \in Nat : IsCut(q, n, a, j, k, l, u)
    <3>1. n \in 1..RunCount(q, "&")
      OBVIOUS
    <3> QED
      BY <2>1, <3>1, RunPair
  <2>a. /\ 1 <= a /\ a < k /\ k < u /\ u <= Len(q) /\ j = k - 1 /\ l = k + 1
        /\ q[k] = "=" /\ NthPair(q, n)[1] = SubSeq(q, a, j) /\ NthPair(q, n)[2] = SubSeq(q, l, u)
    BY <2>2 DEF IsCut
  <2>3. P[n] = (IF n > 1 THEN <<"&">> ELSE <<>>) \o SubSeq(q, a, j) \o <<q[k]>> \o SubSeq(q, l, u)
    BY <2>a DEF NthPiece
  <2>4. CASE n = 1
    <3>1. a = 1
      BY <1>1, <2>1, <2>4, FirstRun DEF IsNth
    <3>2. ~(n > 1) /\ n - 1 = 0
      BY <2>4
    <3>3. <<>> \o SubSeq(q, a, j) = SubSeq(q, a, j)
      <4>1. a \in Nat \ {0} /\ j \in 0..Len(q)
        BY <2>a
      <4>2. SubSeq(q, a, j) \in Seq(S)
        BY <4>1, PartType
      <4> QED
        BY <4>2, ConcatEmptySeq
    <3>4. SubSeq(q, a, j) \o <<q[k]>> \o SubSeq(q, l, u) = SubSeq(q, a, u)
      <4>1. 1 <= a /\ a < k /\ k < u /\ u <= Len(q) /\ j = k - 1 /\ l = k + 1
        BY <2>a
      <4> QED
        BY <4>1, NameAndValue
    <3>5. P[n] = SubSeq(q, a, u)
      BY <2>3, <3>2, <3>3, <3>4
    <3>6. b[n - 1] = 0 /\ 0 + 1 = a
      BY <1>3, <3>1, <3>2
    <3> QED
      BY <1>0, <2>1, <3>5, <3>6
  <2>5. CASE n # 1
    <3>1. n - 1 \in 1..N /\ n - 1 # N /\ n - 1 + 1 = n /\ n > 1
      BY <2>5
    <3>2. PICK z \in Nat : 1 <= z /\ b[n - 1] = z /\ a = z + 2
      BY <1>2, <2>1, <3>1 DEF IsNth
    <3>3. PICK c \in Nat : c = z + 1
      OBVIOUS
    <3>4. 1 <= c /\ a = c + 1 /\ a - 1 = c /\ a # 1
      BY <3>2, <3>3
    <3>5. q[c] = "&"
      BY <2>1, <3>4
    <3>6. P[n] = <<"&">> \o SubSeq(q, a, j) \o <<q[k]>> \o SubSeq(q, l, u)
      BY <2>3, <3>1
    <3>7. P[n] = SubSeq(q, c, u)
      <4>1. 1 <= c /\ a = c + 1 /\ a < k /\ k < u /\ u <= Len(q) /\ j = k - 1 /\ l = k + 1
        BY <2>a, <3>4
      <4>2. c \in 1..Len(q) /\ c <= a /\ c <= j /\ j <= Len(q) /\ c < k
        BY <4>1
      <4>3. SubSeq(q, c, c) = <<"&">>
        BY <3>5, <4>2, OnePart
      <4>4. SubSeq(q, c, c) \o SubSeq(q, a, j) = SubSeq(q, c, j)
        BY <4>1, <4>2, PartsJoined
      <4>5. SubSeq(q, c, j) \o <<q[k]>> \o SubSeq(q, l, u) = SubSeq(q, c, u)
        BY <4>1, <4>2, NameAndValue
      <4> QED
        BY <3>6, <4>3, <4>4, <4>5
    <3> QED
      BY <1>0, <2>1, <3>2, <3>3, <3>7
  <2> QED
    BY <2>4, <2>5
<1>5. b[N] = Len(q)
  <2>1. N \in 1..N
    BY <1>1
  <2> QED
    BY <1>0, <1>2, <2>1
<1> QED
  BY <1>3, <1>4, <1>5, FlattenParts

\* One word is a text.
LEMMA OneType ==
    ASSUME NEW S, NEW x \in S
    PROVE  <<x>> \in Seq(S)
  OBVIOUS

\* A text of some words is a text of more words.
LEMMA Wider ==
    ASSUME NEW S, NEW s \in Seq(S), NEW T
    PROVE  s \in Seq(S \cup T)
  OBVIOUS

\* A list that grows at its end.
LEMMA ListGrows ==
    ASSUME NEW f, NEW n \in Nat
    PROVE  /\ [i \in 1..0 |-> f[i]] = <<>>
           /\ Append([i \in 1..n |-> f[i]], f[n + 1]) = [i \in 1..(n + 1) |-> f[i]]
<1> DEFINE V == {f[i] : i \in Nat}
           g(k) == [i \in 1..k |-> f[i]]
<1>1. ASSUME NEW k \in Nat PROVE g(k) \in Seq(V) /\ Len(g(k)) = k /\ \A i \in 1..k : g(k)[i] = f[i]
  <2>1. \A i \in 1..k : f[i] \in V
    OBVIOUS
  <2>2. g(k) \in [1..k -> V]
    BY <2>1
  <2> HIDE DEF V
  <2> QED
    BY <2>2, FunctionType
<1>2. PICK m \in Nat : m = n + 1
  OBVIOUS
<1>3. f[m] \in V
  OBVIOUS
<1> HIDE DEF V
<1>4. g(0) = <<>>
  OBVIOUS
<1>5. PICK s : s = g(n)
  OBVIOUS
<1>6. s \in Seq(V) /\ Len(s) = n /\ \A i \in 1..n : s[i] = f[i]
  BY <1>1, <1>5
<1>7. PICK t : t = g(m)
  OBVIOUS
<1>8. t \in Seq(V) /\ Len(t) = m /\ \A i \in 1..m : t[i] = f[i]
  BY <1>1, <1>7
<1> HIDE DEF g
<1>9. PICK w : w = Append(s, f[m])
  OBVIOUS
<1>10. w \in Seq(V) /\ Len(w) = n + 1
       /\ \A i \in 1..Len(w) : w[i] = IF i = n + 1 THEN f[m] ELSE s[i]
  BY <1>3, <1>6, <1>9, AppendFacts
<1>11. Len(w) = m /\ \A i \in 1..m : w[i] = IF i = m THEN f[m] ELSE s[i]
  BY <1>2, <1>10
<1>12. ASSUME NEW i \in 1..m PROVE w[i] = t[i]
  <2>1. i = m \/ i \in 1..n
    BY <1>2
  <2> QED
    BY <1>6, <1>8, <1>11, <2>1
<1>13. w = t
  BY <1>8, <1>10, <1>11, <1>12, SeqEqual
<1> QED
  BY <1>2, <1>4, <1>5, <1>7, <1>9, <1>13 DEF g

\* A part of a text without a word is without it.
LEMMA WithoutWord ==
    ASSUME NEW S, NEW s \in Seq(S), NEW w, w \notin Range(s)
    PROVE  s \in Seq(S \ {w})
<1>1. PICK n \in Nat : n = Len(s) /\ DOMAIN s = 1..n
  OBVIOUS
<1>2. \A i \in 1..n : s[i] \in S \ {w}
  BY <1>1 DEF Range
<1>3. s \in [1..n -> S \ {w}]
  BY <1>1, <1>2
<1> QED
  BY <1>3, FunctionType
=============================================================================
