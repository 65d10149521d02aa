------------------------------ MODULE Utility -------------------------------
(***************************************************************************)
(* What src/utility.h, src/utility.c and the containers of the library     *)
(* share.  A text is a sequence of tokens: a word, a sign of its own, one  *)
(* blank, or CRLF.  Its terminating zero is the position behind its last   *)
(* token, and position 0 is a null pointer.                                *)
(***************************************************************************)
EXTENDS Naturals, Sequences, SequencesExt

Quote == "\""
Backslash == "\\"

\* The tokens is_non_space (which tells what its name denies) is true of.
White == {" ", "LF", "CRLF"}

\* The first position from i on that is not white, or a null pointer.
find_non_space(s, i) == SelectInSubSeq(s, i, Len(s), LAMBDA c : c \notin White)

\* Where loops that go back over white space end, 0 if they leave first..last.
LastNonSpace(s, first, last) ==
    SelectLastInSubSeq(s, first, last, LAMBDA c : c \notin White)

\* strstr and strchr for one token from position i on.
Find(s, i, c) == SelectInSubSeq(s, i, Len(s), LAMBDA d : d = c)

\* strtok_r, called until it returns NULL: the runs between delimiters d.
Runs(s, d) ==
    LET starts == {i \in 1..Len(s) : s[i] # d /\ (i = 1 \/ s[i - 1] = d)}
        upto(i) == LET e == Find(s, i, d) IN IF e = 0 THEN Len(s) ELSE e - 1
        nth(n) == CHOOSE i \in starts : Cardinality({k \in starts : k <= i}) = n
    IN  [n \in 1..Cardinality(starts) |-> SubSeq(s, nth(n), upto(nth(n)))]

\* TRUE where url_path_cmp returns 0: one slash more at the end does not count.
url_path_cmp(l, r) == l = r \/ l = Append(r, "/") \/ r = Append(l, "/")

-----------------------------------------------------------------------------
(* Headers, routes, JSON objects and struct array grow alike: a full list  *)
(* doubles its capacity before the new item is written behind the last.    *)

EmptyList(capacity) == [items |-> <<>>, capacity |-> capacity]

\* Mutant: the capacity is doubled one item too late.
PushLate(l, item) ==
    [items |-> Append(l.items, item),
     capacity |-> IF l.capacity < Len(l.items) THEN l.capacity * 2 ELSE l.capacity]
Push(l, item) ==
    [items |-> Append(l.items, item),
     capacity |-> IF l.capacity = Len(l.items) THEN l.capacity * 2 ELSE l.capacity]

\* What the destructors leave: no room, so that doubling gives none either.
Destructed == EmptyList(0)

\* No item lies behind the allocated ones.
Fits(l) == Len(l.items) <= l.capacity
=============================================================================
