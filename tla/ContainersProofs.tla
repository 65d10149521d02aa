-------------------------- MODULE ContainersProofs --------------------------
(***************************************************************************)
(* Proofs about Containers: whatever calls are made, and however many,     *)
(* items are found under their own names, what they own is released once,  *)
(* and careful callers stay within the memory of the container.            *)
(***************************************************************************)
EXTENDS Containers, UtilityProofs

\* What find_header and the lookups like it return.
LEMMA HeaderFound ==
    ASSUME NEW key, Len(list.items) \in Nat
    PROVE  /\ FindAnyCase(key) = 0 =>
                 \A i \in Items : ~strcasecmp(list.items[i].key, key)
           /\ FindAnyCase(key) # 0 =>
                 /\ FindAnyCase(key) \in Items
                 /\ strcasecmp(list.items[FindAnyCase(key)].key, key)
<1> DEFINE I == {i \in 1..Len(list.items) : strcasecmp(list.items[i].key, key)}
<1>1. FindAnyCase(key) = IF I # {} THEN Min(I) ELSE 0
  BY DEF FindAnyCase, SelectInSeq
<1>2. I \in SUBSET Nat /\ 0 \notin I
  OBVIOUS
<1>3. I # {} => Min(I) \in I
  BY <1>2, MinFacts
<1> HIDE DEF strcasecmp
<1> QED
  BY <1>1, <1>2, <1>3 DEF Items

\* find_route returns 0 only if no route has this method and a path that matches.
LEMMA RouteFound ==
    ASSUME NEW path, NEW method, Len(list.items) \in Nat, find_route(path, method) = 0
    PROVE  \A i \in Items : ~(list.items[i].val = method /\ url_path_cmp(path, list.items[i].key))
<1> DEFINE I == {i \in 1..Len(list.items) :
                    list.items[i].val = method /\ url_path_cmp(path, list.items[i].key)}
<1>1. find_route(path, method) = IF I # {} THEN Min(I) ELSE 0
  BY DEF find_route, SelectInSeq
<1>2. I \in SUBSET Nat /\ 0 \notin I
  OBVIOUS
<1>3. I # {} => Min(I) \in I
  BY <1>2, MinFacts
<1> QED
  BY <1>1, <1>2, <1>3 DEF Items

\* The same for find_json_element.
LEMMA ElementFound ==
    ASSUME NEW key, Len(list.items) \in Nat, find_json_element(key) = 0
    PROVE  \A i \in Items : list.items[i].key # key
<1> DEFINE I == {i \in 1..Len(list.items) : list.items[i].key = key}
<1>1. find_json_element(key) = IF I # {} THEN Min(I) ELSE 0
  BY DEF find_json_element, SelectInSeq
<1>2. I \in SUBSET Nat /\ 0 \notin I
  OBVIOUS
<1>3. I # {} => Min(I) \in I
  BY <1>2, MinFacts
<1> QED
  BY <1>1, <1>2, <1>3 DEF Items

-----------------------------------------------------------------------------
(* The inductive invariant.                                                *)

\* What a lookup takes for the same.
Same(k1, v1, k2, v2) ==
    \/ kind = "headers" /\ strcasecmp(k1, k2)
    \/ kind = "routes" /\ v1 = v2 /\ url_path_cmp(k1, k2)
    \/ kind = "json" /\ k1 = k2

Distinct ==
    \A i, j \in Items : i # j =>
        ~Same(list.items[i].key, list.items[i].val, list.items[j].key, list.items[j].val)

CapacityInv ==
    Careful => /\ Fits(list)
               /\ kind = "query" => list.capacity \in {0, MaxParameters}

ContainerInv == ContainerTypeOK /\ Distinct /\ OwnedOrReleased /\ CapacityInv

Record == [id : 1..MaxMade, key : Keys[kind], val : Values[kind]]

\* What a successful insertion of a new item does.
Appended(key, val, capacity) ==
    /\ made < MaxMade /\ made' = made + 1
    /\ kind' = kind /\ released' = released
    /\ list' = [items |-> Append(list.items, Item(key, val)), capacity |-> capacity]
    /\ \A i \in Items : ~Same(list.items[i].key, list.items[i].val, key, val)
    /\ CapacityInv /\ Careful => /\ Len(list.items) + 1 <= capacity
                                 /\ kind = "query" => capacity = MaxParameters

\* What insert_header does with a name that is there.
Replaced(i, key, val) ==
    /\ kind = "headers" /\ kind' = kind
    /\ strcasecmp(list.items[i].key, key)
    /\ made < MaxMade /\ made' = made + 1
    /\ list' = [items |-> [list.items EXCEPT ![i] = Item(list.items[i].key, val)],
                capacity |-> list.capacity]
    /\ released' = released \cup {list.items[i].id}

\* How url_path_cmp and the rule of sameness read from the other side.
LEMMA SameSymmetric ==
    ASSUME NEW k1, NEW v1, NEW k2, NEW v2, Same(k1, v1, k2, v2)
    PROVE  Same(k2, v2, k1, v1)
  BY DEF Same, strcasecmp, url_path_cmp

\* The parts of the state, and what an insertion that pushes does.
LEMMA Parts ==
    ASSUME ContainerTypeOK
    PROVE  /\ list = [items |-> list.items, capacity |-> list.capacity]
           /\ list.items \in Seq(Record) /\ list.capacity \in Nat
           /\ Len(list.items) \in Nat /\ made \in Nat
           /\ \A i \in Items : list.items[i] \in Record
<1>1. list \in [items : Seq(Record), capacity : Nat]
  BY DEF ContainerTypeOK, Record
<1>2. /\ list = [items |-> list.items, capacity |-> list.capacity]
      /\ list.items \in Seq(Record) /\ list.capacity \in Nat
  BY <1>1
<1>3. made \in Nat
  BY ContainersAssumption DEF ContainerTypeOK
<1>4. Len(list.items) \in Nat /\ \A i \in Items : list.items[i] \in Record
  BY <1>2 DEF Items
<1> QED
  BY <1>2, <1>3, <1>4

\* An insertion of something new appends it, to a list that has grown if it had to.
LEMMA AddFacts ==
    ASSUME ContainerTypeOK, kind # "query", NEW key, NEW val, Add(key, val),
           \A i \in Items : ~Same(list.items[i].key, list.items[i].val, key, val)
    PROVE  \E capacity \in Nat : Appended(key, val, capacity)
<1> DEFINE c == IF list.capacity = Len(list.items) THEN list.capacity * 2 ELSE list.capacity
<1>1. c \in Nat /\ list.capacity \in Nat /\ Len(list.items) \in Nat
  BY Parts
<1>2. list' = [items |-> Append(list.items, Item(key, val)), capacity |-> c]
  BY DEF Add, Push
<1>3. CapacityInv /\ Careful => Len(list.items) + 1 <= c
  BY <1>1 DEF CapacityInv, Fits, Add, Usable
<1> HIDE DEF c
<1>4. Appended(key, val, c)
  BY <1>2, <1>3 DEF Appended, Add, Make
<1> QED
  BY <1>1, <1>4

\* What the insertions of every kind come to.
LEMMA InsertFacts ==
    ASSUME ContainerTypeOK, NEW key \in Keys[kind], NEW val \in Values[kind],
           Insert(key, val)
    PROVE  \/ \E capacity \in Nat : Appended(key, val, capacity)
           \/ \E i \in Items : Replaced(i, key, val)
<1>0. Len(list.items) \in Nat
  BY Parts
<1>1. CASE InsertHeader(key, val)
  <2>1. CASE FindAnyCase(key) = 0 /\ Add(key, val)
    <3>1. \A i \in Items : ~strcasecmp(list.items[i].key, key)
      BY <1>0, <2>1, HeaderFound
    <3>2. \A i \in Items : ~Same(list.items[i].key, list.items[i].val, key, val)
      BY <3>1, <1>1 DEF Same, InsertHeader
    <3> QED
      BY <1>1, <2>1, <3>2, AddFacts DEF InsertHeader
  <2>2. CASE FindAnyCase(key) # 0
    <3>1. FindAnyCase(key) \in Items /\ strcasecmp(list.items[FindAnyCase(key)].key, key)
      BY <1>0, <2>2, HeaderFound
    <3>2. PICK i : i = FindAnyCase(key)
      OBVIOUS
    <3> DEFINE new == Item(list.items[i].key, val)
    <3>3. /\ kind = "headers" /\ Make
          /\ list' = [list EXCEPT !.items[i] = new]
          /\ released' = released \cup {list.items[i].id}
      BY <1>1, <2>2, <3>2 DEF InsertHeader
    <3>4. list' = [items |-> [list.items EXCEPT ![i] = new], capacity |-> list.capacity]
      BY <3>3, Parts
    <3>5. Replaced(i, key, val)
      BY <3>1, <3>2, <3>3, <3>4 DEF Replaced, Make
    <3> QED
      BY <3>1, <3>2, <3>5
  <2> QED
    BY <1>1, <2>1, <2>2 DEF InsertHeader
<1>2. CASE InsertRoute(key, val)
  <2>1. \A i \in Items : ~(list.items[i].val = val /\ url_path_cmp(key, list.items[i].key))
    BY <1>0, <1>2, RouteFound DEF InsertRoute
  <2>2. \A i \in Items : ~Same(list.items[i].key, list.items[i].val, key, val)
    BY <2>1, <1>2 DEF Same, InsertRoute, url_path_cmp
  <2> QED
    BY <1>2, <2>2, AddFacts DEF InsertRoute
<1>3. CASE InsertElement(key, val)
  <2>1. \A i \in Items : list.items[i].key # key
    BY <1>0, <1>3, ElementFound DEF InsertElement
  <2>2. \A i \in Items : ~Same(list.items[i].key, list.items[i].val, key, val)
    BY <2>1, <1>3 DEF Same, InsertElement
  <2> QED
    BY <1>3, <2>2, AddFacts DEF InsertElement
<1>4. CASE InsertParameter(key, val)
  <2>1. list' = [items |-> Append(list.items, Item(key, val)), capacity |-> list.capacity]
    BY <1>4, Parts DEF InsertParameter
  <2>2. \A i \in Items : ~Same(list.items[i].key, list.items[i].val, key, val)
    BY <1>4 DEF Same, InsertParameter
  <2>3. CapacityInv /\ Careful => /\ Len(list.items) + 1 <= list.capacity
                                  /\ list.capacity = MaxParameters
    BY <1>0, <1>4, ContainersAssumption DEF InsertParameter, CapacityInv, Usable
  <2>4. Appended(key, val, list.capacity)
    BY <1>4, <2>1, <2>2, <2>3 DEF Appended, InsertParameter, Make
  <2> QED
    BY <2>4, Parts
<1>5. CASE InsertBack(key, val)
  <2>1. \A i \in Items : ~Same(list.items[i].key, list.items[i].val, key, val)
    BY <1>5 DEF Same, InsertBack
  <2> QED
    BY <1>5, <2>1, AddFacts DEF InsertBack
<1> QED
  BY <1>1, <1>2, <1>3, <1>4, <1>5 DEF Insert

\* A new item keeps the invariant.
LEMMA AppendedKeeps ==
    ASSUME ContainerInv, NEW key \in Keys[kind], NEW val \in Values[kind],
           NEW capacity \in Nat, Appended(key, val, capacity)
    PROVE  ContainerInv'
<1> DEFINE new == Item(key, val)
           n == Len(list.items) + 1
<1>0. ContainerTypeOK /\ Distinct /\ OwnedOrReleased
  BY DEF ContainerInv
<1>1. /\ list.items \in Seq(Record) /\ Len(list.items) \in Nat /\ made \in Nat
      /\ made + 1 \in 1..MaxMade
  BY <1>0, Parts, ContainersAssumption DEF Appended
<1>2. new \in Record /\ new.id = made + 1 /\ new.key = key /\ new.val = val
  BY <1>1 DEF Item, Record
<1>3. /\ kind' = kind /\ made' = made + 1 /\ released' = released
      /\ list'.items = Append(list.items, new) /\ list'.capacity = capacity
      /\ list' = [items |-> Append(list.items, new), capacity |-> capacity]
  BY DEF Appended
<1> HIDE DEF new
<1>4. /\ Append(list.items, new) \in Seq(Record)
      /\ Items' = 1..n /\ n \in Items'
      /\ \A i \in Items' : list'.items[i] = IF i = n THEN new ELSE list.items[i]
      /\ \A i \in Items' : i # n => i \in Items
      /\ \A i \in Items : i \in Items' /\ i # n
  BY <1>1, <1>2, <1>3, AppendFacts DEF Items
<1>5. ContainerTypeOK'
  BY <1>0, <1>1, <1>3, <1>4 DEF ContainerTypeOK, Record
<1>6. Distinct'
  <2>1. \A i \in Items : ~Same(list.items[i].key, list.items[i].val, key, val)
    BY DEF Appended
  <2>2. \A i \in Items : ~Same(key, val, list.items[i].key, list.items[i].val)
    BY <2>1, SameSymmetric
  <2>3. \A i, j \in Items' : i # j =>
          ~Same(list'.items[i].key, list'.items[i].val, list'.items[j].key, list'.items[j].val)
    BY <1>0, <1>2, <1>4, <2>1, <2>2 DEF Distinct
  <2> QED
    BY <1>3, <2>3 DEF Distinct, Same
<1>7. OwnedOrReleased'
  <2>1. /\ \A i, j \in Items : list.items[i].id = list.items[j].id => i = j
        /\ \A i \in Items : list.items[i].id \in (1..made) \ released
        /\ \A m \in 1..made : m \in released \/ \E i \in Items : list.items[i].id = m
    BY <1>0 DEF OwnedOrReleased
  <2>2. made + 1 \notin released /\ 1..made' = (1..made) \cup {made + 1}
    BY <1>0, <1>1, <1>3 DEF ContainerTypeOK
  <2>3. \A i \in Items : list.items[i].id # made + 1
    BY <1>1, <2>1
  <2>4. \A i, j \in Items' : list'.items[i].id = list'.items[j].id => i = j
    <3> SUFFICES ASSUME NEW i \in Items', NEW j \in Items',
                        list'.items[i].id = list'.items[j].id
                 PROVE  i = j
      OBVIOUS
    <3> HIDE DEF n
    <3>1. CASE i = n \/ j = n
      BY <1>2, <1>4, <2>3, <3>1
    <3>2. CASE i # n /\ j # n
      BY <1>4, <2>1, <3>2
    <3> QED
      BY <3>1, <3>2
  <2>5. \A i \in Items' : list'.items[i].id \in (1..made') \ released'
    BY <1>2, <1>3, <1>4, <2>1, <2>2
  <2>6. \A m \in 1..made' : m \in released' \/ \E i \in Items' : list'.items[i].id = m
    BY <1>2, <1>3, <1>4, <2>1, <2>2
  <2> QED
    BY <2>4, <2>5, <2>6 DEF OwnedOrReleased
<1>8. CapacityInv'
  <2>1. Len(list'.items) = n
    BY <1>1, <1>2, <1>3, AppendFacts
  <2> QED
    BY <1>3, <2>1 DEF ContainerInv, CapacityInv, Fits, Appended
<1> QED
  BY <1>5, <1>6, <1>7, <1>8 DEF ContainerInv

\* So does another value of a header: what it owned before is released.
LEMMA ReplacedKeeps ==
    ASSUME ContainerInv, NEW key, NEW val \in Values[kind], NEW n \in Items,
           Replaced(n, key, val)
    PROVE  ContainerInv'
<1> DEFINE new == Item(list.items[n].key, val)
           old == list.items[n].id
<1>0. ContainerTypeOK /\ Distinct /\ OwnedOrReleased
  BY DEF ContainerInv
<1>1. /\ list.items \in Seq(Record) /\ Len(list.items) \in Nat /\ made \in Nat
      /\ made + 1 \in 1..MaxMade /\ list.capacity \in Nat
      /\ list.items[n] \in Record
  BY <1>0, Parts, ContainersAssumption DEF Replaced
<1>2. new \in Record /\ new.id = made + 1 /\ new.key = list.items[n].key
  BY <1>1 DEF Item, Record
<1>3. /\ kind' = kind /\ made' = made + 1 /\ released' = released \cup {old}
      /\ list'.items = [list.items EXCEPT ![n] = new] /\ list'.capacity = list.capacity
      /\ list' = [items |-> [list.items EXCEPT ![n] = new], capacity |-> list.capacity]
  BY DEF Replaced
<1> HIDE DEF new
<1>4. /\ list'.items \in Seq(Record) /\ Len(list'.items) = Len(list.items)
      /\ Items' = Items
      /\ \A i \in Items : list'.items[i] = IF i = n THEN new ELSE list.items[i]
  BY <1>1, <1>2, <1>3 DEF Items
<1>5. /\ \A i, j \in Items : list.items[i].id = list.items[j].id => i = j
      /\ \A i \in Items : list.items[i].id \in (1..made) \ released
      /\ \A m \in 1..made : m \in released \/ \E i \in Items : list.items[i].id = m
  BY <1>0 DEF OwnedOrReleased
<1>6. made + 1 \notin released /\ 1..made' = (1..made) \cup {made + 1}
  BY <1>0, <1>1, <1>3 DEF ContainerTypeOK
<1>7. ContainerTypeOK'
  BY <1>0, <1>1, <1>3, <1>4, <1>5 DEF ContainerTypeOK, Record
<1>8. Distinct'
  <2>1. \A i, j \in Items' : i # j => ~strcasecmp(list'.items[i].key, list'.items[j].key)
    BY <1>0, <1>2, <1>4 DEF Distinct, Same, Replaced
  <2>2. kind' = "headers"
    BY DEF Replaced
  <2> QED
    BY <2>1, <2>2 DEF Distinct, Same, strcasecmp
<1>9. OwnedOrReleased'
  <2>1. old \in 1..made /\ \A i \in Items : list.items[i].id # made + 1
    BY <1>1, <1>5
  <2>2. \A i, j \in Items' : list'.items[i].id = list'.items[j].id => i = j
    BY <1>2, <1>4, <1>5, <2>1
  <2>3. \A i \in Items' : list'.items[i].id \in (1..made') \ released'
    BY <1>1, <1>2, <1>3, <1>4, <1>5, <1>6, <2>1
  <2>4. \A m \in 1..made' : m \in released' \/ \E i \in Items' : list'.items[i].id = m
    BY <1>2, <1>3, <1>4, <1>5, <1>6
  <2> QED
    BY <2>2, <2>3, <2>4 DEF OwnedOrReleased
<1>10. CapacityInv'
  BY <1>3, <1>4 DEF ContainerInv, CapacityInv, Fits
<1> QED
  BY <1>7, <1>8, <1>9, <1>10 DEF ContainerInv

\* The last item of an array goes, and what it owns is released.
LEMMA RemoveBackKeeps ==
    ASSUME ContainerInv, RemoveBack
    PROVE  ContainerInv'
<1> DEFINE n == Len(list.items)
<1>0. ContainerTypeOK /\ OwnedOrReleased
  BY DEF ContainerInv
<1>1. /\ list.items \in Seq(Record) /\ n \in Nat /\ n # 0 /\ made \in Nat
      /\ list.capacity \in Nat /\ list = [items |-> list.items, capacity |-> list.capacity]
  BY <1>0, Parts DEF RemoveBack
<1>2. /\ kind = "array" /\ kind' = kind /\ made' = made
      /\ released' = released \cup {list.items[n].id}
      /\ list' = [list EXCEPT !.items = SubSeq(list.items, 1, n - 1)]
  BY DEF RemoveBack, Last, Front
<1>3. /\ list'.items = SubSeq(list.items, 1, n - 1) /\ list'.capacity = list.capacity
      /\ list' = [items |-> SubSeq(list.items, 1, n - 1), capacity |-> list.capacity]
  BY <1>1, <1>2
<1>4. /\ list'.items \in Seq(Record) /\ Len(list'.items) = n - 1
      /\ Items' = Items \ {n} /\ n \in Items
      /\ \A i \in Items' : list'.items[i] = list.items[i]
  <2>1. list.items # <<>>
    BY DEF RemoveBack
  <2>2. /\ list'.items \in Seq(Record) /\ Len(list'.items) = n - 1
        /\ \A i \in 1..(n - 1) : list'.items[i] = list.items[i]
    BY <1>1, <1>3, <2>1, FrontFacts
  <2>3. Items' = 1..(n - 1) /\ 1..(n - 1) = (1..n) \ {n} /\ n \in 1..n
    BY <1>1, <2>2 DEF Items
  <2> QED
    BY <2>2, <2>3 DEF Items
<1>5. /\ \A i, j \in Items : list.items[i].id = list.items[j].id => i = j
      /\ \A i \in Items : list.items[i].id \in (1..made) \ released
      /\ \A m \in 1..made : m \in released \/ \E i \in Items : list.items[i].id = m
  BY <1>0 DEF OwnedOrReleased
<1>6. ContainerTypeOK'
  BY <1>0, <1>1, <1>2, <1>3, <1>4, <1>5 DEF ContainerTypeOK, Record
<1>7. Distinct'
  BY <1>2 DEF Distinct, Same
<1>8. OwnedOrReleased'
  <2> HIDE DEF n
  <2>1. \A i, j \in Items' : list'.items[i].id = list'.items[j].id => i = j
    BY <1>4, <1>5
  <2>2. ASSUME NEW i \in Items' PROVE list'.items[i].id \in (1..made') \ released'
    <3>1. i \in Items /\ i # n /\ list'.items[i] = list.items[i]
      BY <1>4
    <3>2. list.items[i].id # list.items[n].id
      BY <1>4, <1>5, <3>1
    <3>3. list.items[i].id \in (1..made) \ released
      BY <1>5, <3>1
    <3>4. list.items[i].id \notin released'
      BY <1>2, <3>2, <3>3
    <3>5. 1..made' = 1..made
      BY <1>2
    <3> QED
      BY <3>1, <3>3, <3>4, <3>5
  <2>3. ASSUME NEW m \in 1..made'
        PROVE  m \in released' \/ \E i \in Items' : list'.items[i].id = m
    <3>1. m \in released \/ \E i \in Items : list.items[i].id = m
      BY <1>2, <1>5
    <3> QED
      BY <1>2, <1>4, <3>1
  <2> QED
    BY <2>1, <2>2, <2>3 DEF OwnedOrReleased
<1>9. CapacityInv'
  BY <1>1, <1>2, <1>3, <1>4 DEF ContainerInv, CapacityInv, Fits
<1> QED
  BY <1>6, <1>7, <1>8, <1>9 DEF ContainerInv

\* The destructor releases what is left.
LEMMA DestructKeeps ==
    ASSUME ContainerInv, Destruct
    PROVE  ContainerInv'
<1>0. ContainerTypeOK /\ OwnedOrReleased
  BY DEF ContainerInv
<1>1. /\ kind' = kind /\ made' = made
      /\ released' = released \cup {list.items[i].id : i \in Items}
      /\ list' = [items |-> <<>>, capacity |-> 0]
  BY DEF Destruct, Destructed, EmptyList
<1>2. list'.items = <<>> /\ list'.capacity = 0 /\ Items' = {}
  BY <1>1 DEF Items
<1>3. /\ \A i \in Items : list.items[i].id \in (1..made) \ released
      /\ \A m \in 1..made : m \in released \/ \E i \in Items : list.items[i].id = m
  BY <1>0 DEF OwnedOrReleased
<1>4. ContainerTypeOK'
  BY <1>0, <1>1, <1>3, EmptyTyped DEF ContainerTypeOK
<1>5. Distinct' /\ OwnedOrReleased'
  BY <1>1, <1>2, <1>3 DEF Distinct, OwnedOrReleased
<1>6. CapacityInv'
  BY <1>2 DEF CapacityInv, Fits
<1> QED
  BY <1>4, <1>5, <1>6 DEF ContainerInv

\* More room, or for a careless caller less.
LEMMA ReserveKeeps ==
    ASSUME ContainerInv, NEW capacity \in Nat, ReserveArray(capacity)
    PROVE  ContainerInv'
<1>0. ContainerTypeOK /\ OwnedOrReleased
  BY DEF ContainerInv
<1>1. /\ list = [items |-> list.items, capacity |-> list.capacity]
      /\ Len(list.items) \in Nat
  BY <1>0, Parts
<1>2. /\ kind = "array" /\ kind' = kind /\ made' = made /\ released' = released
      /\ list' = [items |-> list.items, capacity |-> capacity]
      /\ list'.items = list.items /\ list'.capacity = capacity /\ Items' = Items
      /\ Careful => Len(list.items) <= capacity
  BY <1>1 DEF ReserveArray, Items
<1>3. ContainerTypeOK'
  BY <1>0, <1>2 DEF ContainerTypeOK
<1>4. Distinct'
  BY <1>2 DEF Distinct, Same
<1>5. OwnedOrReleased'
  BY <1>0, <1>2 DEF OwnedOrReleased
<1>6. CapacityInv'
  BY <1>2 DEF CapacityInv, Fits
<1> QED
  BY <1>3, <1>4, <1>5, <1>6 DEF ContainerInv

-----------------------------------------------------------------------------
\* The invariant of the containers: items that a lookup tells apart, each with
\* something of its own that was not released, within the memory if the callers
\* are careful.
THEOREM ContainerInvariance == ContainerSpec => []ContainerInv
<1>1. ContainerInit => ContainerInv
  <2> SUFFICES ASSUME ContainerInit PROVE ContainerInv
    OBVIOUS
  <2>1. PICK c \in {InitialCapacity, MaxParameters} :
           /\ list = [items |-> <<>>, capacity |-> c]
           /\ kind = "query" => c = MaxParameters
    BY DEF ContainerInit, EmptyList
  <2>2. list.items = <<>> /\ list.capacity = c /\ c \in Nat
    BY <2>1, ContainersAssumption
  <2>3. Items = {}
    BY <2>2 DEF Items
  <2>4. kind \in Kinds /\ made = 0 /\ released = {} /\ 1..made = {}
    BY DEF ContainerInit
  <2>5. ContainerTypeOK
    BY <2>1, <2>2, <2>4, EmptyTyped, ContainersAssumption DEF ContainerTypeOK
  <2>6. Distinct /\ OwnedOrReleased
    BY <2>3, <2>4 DEF Distinct, OwnedOrReleased
  <2>7. CapacityInv
    BY <2>1, <2>2 DEF CapacityInv, Fits
  <2> QED
    BY <2>5, <2>6, <2>7 DEF ContainerInv
<1>2. ContainerInv /\ [ContainerNext]_containerVars => ContainerInv'
  <2> SUFFICES ASSUME ContainerInv, [ContainerNext]_containerVars PROVE ContainerInv'
    OBVIOUS
  <2>1. ASSUME NEW key \in Keys[kind], NEW val \in Values[kind], Insert(key, val)
        PROVE  ContainerInv'
    <3>1. ContainerTypeOK
      BY DEF ContainerInv
    <3> QED
      BY <2>1, <3>1, InsertFacts, AppendedKeeps, ReplacedKeeps
  <2>2. ASSUME NEW capacity \in 1..MaxMade, ReserveArray(capacity) PROVE ContainerInv'
    BY <2>2, ReserveKeeps
  <2>3. CASE RemoveBack
    BY <2>3, RemoveBackKeeps
  <2>4. CASE Destruct
    BY <2>4, DestructKeeps
  <2>5. CASE UNCHANGED containerVars
    <3>1. kind' = kind /\ list' = list /\ made' = made /\ released' = released
      BY <2>5 DEF containerVars
    <3>2. ContainerTypeOK' /\ CapacityInv'
      BY <3>1 DEF ContainerInv, ContainerTypeOK, CapacityInv
    <3>3. Items' = Items
      BY <3>1 DEF Items
    <3>4. Distinct'
      BY <3>1, <3>3 DEF ContainerInv, Distinct, Same
    <3>5. OwnedOrReleased'
      BY <3>1, <3>3 DEF ContainerInv, OwnedOrReleased
    <3> QED
      BY <3>2, <3>4, <3>5 DEF ContainerInv
  <2> QED
    BY <2>1, <2>2, <2>3, <2>4, <2>5 DEF ContainerNext
<1> QED
  BY <1>1, <1>2, PTL DEF ContainerSpec

\* Type correctness of the containers.
THEOREM ContainerTypeCorrect == ContainerSpec => []ContainerTypeOK
<1>1. ContainerInv => ContainerTypeOK
  BY DEF ContainerInv
<1> QED
  BY <1>1, ContainerInvariance, PTL

\* What a container owns is released once and not before it left.
THEOREM ReleasedOnce == ContainerSpec => []OwnedOrReleased
<1>1. ContainerInv => OwnedOrReleased
  BY DEF ContainerInv
<1> QED
  BY <1>1, ContainerInvariance, PTL

\* Careful callers never make a container write behind its memory.
THEOREM CarefulStaysWithin ==
    ASSUME Careful PROVE ContainerSpec => []WithinCapacity
<1>1. ContainerInv => WithinCapacity
  BY DEF ContainerInv, CapacityInv, WithinCapacity
<1> QED
  BY <1>1, ContainerInvariance, PTL

\* No item hides another: a lookup under what an item was inserted with finds it.
THEOREM ItemsAreFound == ContainerSpec => []EveryItemIsFound
<1>1. ContainerInv => EveryItemIsFound
  <2> SUFFICES ASSUME ContainerInv, NEW i \in Items
               PROVE  /\ kind = "headers" => find_header(list.items[i].key) = i
                      /\ kind = "routes" => find_route(list.items[i].key, list.items[i].val) = i
                      /\ kind = "json" => find_json_element(list.items[i].key) = i
    BY DEF EveryItemIsFound
  <2>0. Len(list.items) \in Nat /\ i \in Nat
    BY Parts DEF ContainerInv, Items
  <2>1. \A j \in Items : i # j =>
          ~Same(list.items[i].key, list.items[i].val, list.items[j].key, list.items[j].val)
    BY DEF ContainerInv, Distinct
  <2>2. kind = "headers" => find_header(list.items[i].key) = i
    <3> HAVE kind = "headers"
    <3>1. {j \in 1..Len(list.items) : list.items[j].key = list.items[i].key} = {i}
      BY <2>1 DEF Same, strcasecmp, Items
    <3> QED
      BY <2>0, <3>1, MinOfOne DEF find_header, SelectInSeq
  <2>3. kind = "routes" => find_route(list.items[i].key, list.items[i].val) = i
    <3> HAVE kind = "routes"
    <3>1. {j \in 1..Len(list.items) :
              /\ list.items[j].val = list.items[i].val
              /\ url_path_cmp(list.items[i].key, list.items[j].key)} = {i}
      BY <2>1 DEF Same, url_path_cmp, Items
    <3> QED
      BY <2>0, <3>1, MinOfOne DEF find_route, SelectInSeq
  <2>4. kind = "json" => find_json_element(list.items[i].key) = i
    <3> HAVE kind = "json"
    <3>1. {j \in 1..Len(list.items) : list.items[j].key = list.items[i].key} = {i}
      BY <2>1 DEF Same, Items
    <3> QED
      BY <2>0, <3>1, MinOfOne DEF find_json_element, SelectInSeq
  <2> QED
    BY <2>2, <2>3, <2>4
<1> QED
  BY <1>1, ContainerInvariance, PTL

\* The header that a lookup without regard to case finds is the last inserted.
THEOREM LastHeaderIsFound == ContainerSpec => LastHeaderWins
<1>1. ASSUME ContainerInv, NEW key \in Keys[kind], NEW val \in Values[kind],
             InsertHeader(key, val)
      PROVE  /\ FindAnyCase(key)' # 0
             /\ list'.items[FindAnyCase(key)'].val = val
             /\ list'.items[FindAnyCase(key)'].id = made'
  <2>1. ContainerTypeOK /\ Insert(key, val) /\ kind = "headers"
    BY <1>1 DEF ContainerInv, Insert, InsertHeader
  <2>2. \/ \E capacity \in Nat : Appended(key, val, capacity)
        \/ \E i \in Items : Replaced(i, key, val)
    BY <2>1, InsertFacts
  <2>3. ContainerInv' /\ kind' = kind /\ made' = made + 1
    BY <1>1, <2>2, AppendedKeeps, ReplacedKeeps DEF Appended, Replaced
  <2>4. Len(list.items) \in Nat /\ list.items \in Seq(Record) /\ made + 1 \in 1..MaxMade
    BY <2>1, <2>2, Parts, ContainersAssumption DEF Appended, Replaced
  <2>5. PICK n \in Items' : /\ strcasecmp(list'.items[n].key, key)
                            /\ list'.items[n].val = val /\ list'.items[n].id = made + 1
    <3>1. CASE \E capacity \in Nat : Appended(key, val, capacity)
      <4>1. Item(key, val) \in Record
        BY <2>4 DEF Item, Record
      <4>2. list'.items = Append(list.items, Item(key, val))
        BY <3>1 DEF Appended
      <4>3. Len(list.items) + 1 \in Items' /\ list'.items[Len(list.items) + 1] = Item(key, val)
        BY <2>4, <4>1, <4>2, AppendFacts DEF Items
      <4> QED
        BY <4>3 DEF Item, strcasecmp
    <3>2. CASE \E i \in Items : Replaced(i, key, val)
      <4>1. PICK i \in Items : Replaced(i, key, val)
        BY <3>2
      <4>2. list'.items = [list.items EXCEPT ![i] = Item(list.items[i].key, val)]
        BY <4>1 DEF Replaced
      <4>3. i \in Items' /\ list'.items[i] = Item(list.items[i].key, val)
        BY <2>4, <4>2 DEF Items
      <4> QED
        BY <4>1, <4>3 DEF Item, Replaced
    <3> QED
      BY <2>2, <3>1, <3>2
  <2>6. \A j \in Items' : strcasecmp(list'.items[j].key, key) <=> j = n
    <3>1. \A i, j \in Items' : i # j => ~strcasecmp(list'.items[i].key, list'.items[j].key)
      BY <2>1, <2>3 DEF ContainerInv, Distinct, Same, strcasecmp
    <3> QED
      BY <2>5, <3>1 DEF strcasecmp
  <2>7. {j \in 1..Len(list'.items) : strcasecmp(list'.items[j].key, key)} = {n}
    BY <2>6 DEF Items
  <2>8. FindAnyCase(key)' = n
    <3>1. n \in Nat
      BY <2>5 DEF Items
    <3>2. FindAnyCase(key)' = Min({n})
      BY <2>7 DEF FindAnyCase, SelectInSeq, strcasecmp
    <3> QED
      BY <3>1, <3>2, MinOfOne
  <2> QED
    BY <2>3, <2>5, <2>8 DEF Items
<1>2. ContainerInv => [LastHeader]_containerVars
  BY <1>1 DEF LastHeader
<1> QED
  BY <1>2, ContainerInvariance, PTL DEF LastHeaderWins
=============================================================================
