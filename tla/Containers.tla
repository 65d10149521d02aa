----------------------------- MODULE Containers -----------------------------
(***************************************************************************)
(* The containers of the library: headers, routes and query parameters     *)
(* (src/http.c), JSON objects (src/json.c) and struct array                *)
(* (src/collections.c).  One container of a kind is used by a caller that  *)
(* makes any of the calls its kind has; a step is one call.  A call that   *)
(* returns NULL changes nothing and is no step.                            *)
(*                                                                         *)
(* What an item owns (its strings, or what the cleanup handler of an array *)
(* releases) has a number, given in the order in which it was made.        *)
(***************************************************************************)
EXTENDS Utility

CONSTANTS Kinds,                \* kinds of container to look at
          Keys,                 \* names, or paths, for each kind
          Values,               \* values, or methods, for each kind
          Fold,                 \* a header's name in lower case
          InitialCapacity,      \* 8, or 2 in program_callback
          MaxParameters,        \* 10
          MaxMade,              \* bound: how many things are made
          Careful               \* TRUE: nobody uses a destructed container,
                                \* or reserves less than there is

ASSUME ContainersAssumption ==
    /\ Kinds \subseteq {"headers", "routes", "query", "json", "array"}
    /\ \A k \in Kinds : \A key \in Keys[k] : key \in Seq(STRING)
    /\ {InitialCapacity, MaxParameters} \subseteq Nat \ {0}
    /\ MaxMade \in Nat
    /\ Careful \in BOOLEAN

VARIABLES kind,                 \* what the container is
          list,                 \* its items and its capacity
          made,                 \* how many things were made
          released              \* those that were freed or cleaned up

containerVars == <<kind, list, made, released>>

\* init_routes, init_array and the initialisers of the others.
ContainerInit ==
    /\ kind \in Kinds
    /\ list = EmptyList(IF kind = "query" THEN MaxParameters ELSE InitialCapacity)
    /\ made = 0
    /\ released = {}

Items == 1..Len(list.items)
strcasecmp(a, b) == Fold[a] = Fold[b]

\* The lookups: position of the first match, 0 for NULL.
find_header(key) == SelectInSeq(list.items, LAMBDA h : h.key = key)
FindAnyCase(key) == SelectInSeq(list.items, LAMBDA h : strcasecmp(h.key, key))
find_route(path, method) ==
    SelectInSeq(list.items, LAMBDA r : r.val = method /\ url_path_cmp(path, r.key))
find_json_element(key) == SelectInSeq(list.items, LAMBDA e : e.key = key)

Usable == Careful => list.capacity # 0
Item(key, val) == [id |-> made + 1, key |-> key, val |-> val]
Make == made < MaxMade /\ made' = made + 1 /\ UNCHANGED kind
Add(key, val) ==
    /\ Usable
    /\ Make
    /\ list' = Push(list, Item(key, val))
    /\ UNCHANGED released

-----------------------------------------------------------------------------
(* insert_header replaces the value of a header whose name differs at most *)
(* in case, and keeps the name that header has.                            *)
InsertHeader(key, val) ==
    /\ kind = "headers"
    /\ \/ /\ FindAnyCase(key) = 0
          /\ Add(key, val)
       \/ /\ FindAnyCase(key) # 0
          /\ Make
          /\ LET i == FindAnyCase(key)
                 new == Item(list.items[i].key, val)
             IN  /\ list' = [list EXCEPT !.items[i] = new]
                 /\ released' = released \cup {list.items[i].id}

\* Mutant: a path that is there already is not looked for.
InsertRouteAgain(path, method) ==
    /\ kind = "routes"
    /\ path # <<>> /\ path[1] = "/"
    /\ Add(path, method)

InsertRoute(path, method) ==
    /\ kind = "routes"
    /\ path # <<>> /\ path[1] = "/"
    /\ find_route(path, method) = 0
    /\ Add(path, method)

InsertElement(key, val) ==
    /\ kind = "json"
    /\ find_json_element(key) = 0
    /\ Add(key, val)

\* Mutant: off by one in the limit.
InsertParameterBeyond(key, val) ==
    /\ kind = "query"
    /\ Usable
    /\ Len(list.items) <= MaxParameters
    /\ Make
    /\ list' = [list EXCEPT !.items = Append(@, Item(key, val))]
    /\ UNCHANGED released

\* The array of parameters never grows; duplicate names are kept.
InsertParameter(key, val) ==
    /\ kind = "query"
    /\ Usable
    /\ Len(list.items) < MaxParameters
    /\ Make
    /\ list' = [list EXCEPT !.items = Append(@, Item(key, val))]
    /\ UNCHANGED released

InsertBack(key, val) ==
    /\ kind = "array"
    /\ Add(key, val)

ReserveArray(capacity) ==
    /\ kind = "array"
    /\ Careful => list.capacity # 0 /\ Len(list.items) <= capacity
    /\ list' = [list EXCEPT !.capacity = capacity]
    /\ UNCHANGED <<kind, made, released>>

\* Mutant: the handler is called, the size stays.
RemoveBackKept ==
    /\ kind = "array"
    /\ list.items # <<>>
    /\ released' = released \cup {Last(list.items).id}
    /\ UNCHANGED <<kind, list, made>>

RemoveBack ==
    /\ kind = "array"
    /\ list.items # <<>>
    /\ list' = [list EXCEPT !.items = Front(@)]
    /\ released' = released \cup {Last(list.items).id}
    /\ UNCHANGED <<kind, made>>

\* Routes live as long as the server.
Destruct ==
    /\ kind # "routes"
    /\ list.capacity # 0
    /\ list' = Destructed
    /\ released' = released \cup {list.items[i].id : i \in Items}
    /\ UNCHANGED <<kind, made>>

Insert(key, val) ==
    \/ InsertHeader(key, val)
    \/ InsertRoute(key, val)
    \/ InsertElement(key, val)
    \/ InsertParameter(key, val)
    \/ InsertBack(key, val)

ContainerNext ==
    \/ \E key \in Keys[kind], val \in Values[kind] : Insert(key, val)
    \/ \E capacity \in 1..MaxMade : ReserveArray(capacity)
    \/ RemoveBack
    \/ Destruct

ContainerSpec == ContainerInit /\ [][ContainerNext]_containerVars

-----------------------------------------------------------------------------
ContainerTypeOK ==
    /\ kind \in Kinds
    /\ list \in [items : Seq([id : 1..MaxMade, key : Keys[kind], val : Values[kind]]),
                 capacity : Nat]
    /\ made \in 0..MaxMade
    /\ released \subseteq 1..made

(* Nothing is ever written behind the memory of a container, as long as    *)
(* nobody goes on with one that was destructed or reserves less than there *)
(* is (http.c:36, 91, 442; collections.c:20, 38; json.c:286).              *)
WithinCapacity == Fits(list)

(* Whatever was inserted is what a lookup under its own name, or path and  *)
(* method, returns: no earlier item hides it, although names are compared  *)
(* with and without case and paths with and without a last slash (and the  *)
(* latter is not transitive: /a/ is the same as /a and as /a//).           *)
EveryItemIsFound ==
    \A i \in Items :
        /\ kind = "headers" => find_header(list.items[i].key) = i
        /\ kind = "routes" => find_route(list.items[i].key, list.items[i].val) = i
        /\ kind = "json" => find_json_element(list.items[i].key) = i

(* What a container owns is released once, by the destructor, when a       *)
(* header's value is replaced or when an array shrinks, and never while it *)
(* is still in the container.                                              *)
OwnedOrReleased ==
    LET id(i) == list.items[i].id
    IN  /\ \A i, j \in Items : id(i) = id(j) => i = j
        /\ \A i \in Items : id(i) \in (1..made) \ released
        /\ \A n \in 1..made : n \in released \/ \E i \in Items : id(i) = n

(* The header a lookup finds that ignores case (validate_run_request) is   *)
(* the one inserted last under that name, in whatever case.                *)
LastHeader ==
    \A key \in Keys[kind], val \in Values[kind] :
        InsertHeader(key, val) =>
            /\ FindAnyCase(key)' # 0
            /\ list'.items[FindAnyCase(key)'].val = val
            /\ list'.items[FindAnyCase(key)'].id = made'
LastHeaderWins == [][LastHeader]_containerVars

(* http.h:153 says that insert_header is case-insensitive; find_header,    *)
(* with which /stop and /input look for Content-Type, is not, and misses a *)
(* header that was first inserted in another case.  Not checked by a run:  *)
(* it does not hold.                                                       *)
InsertedIsFound ==
    [][\A key \in Keys[kind], val \in Values[kind] :
          InsertHeader(key, val) => find_header(key)' # 0]_containerVars
=============================================================================
