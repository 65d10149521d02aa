------------------------ MODULE RequestHandlerProofs ------------------------
(***************************************************************************)
(* Proofs about RequestHandler, for any number of workers, connections,    *)
(* descriptors and chunks.  The first part is about the claiming of        *)
(* buffers, whatever clients do: the first-fit scan with compare-and-swap  *)
(* always succeeds, and a buffer has one handler at a time.  The argument  *)
(* counts the workers ahead: at most N + 1 - k of them are at slot k or    *)
(* beyond.  A worker that finds slot k taken leaves it behind together     *)
(* with the handler that has it, so one slot is left for it.               *)
(*                                                                         *)
(* The second part is about descriptors and responses.  A handler that     *)
(* read nothing closes its socket twice, and then the kernel may have      *)
(* given the descriptor to another connection.  That takes a client that   *)
(* reset its connection or disconnected.  As long as nobody did, the state *)
(* is peaceful: every descriptor is with one job or handler, which has the *)
(* connection it was called for, and what was received on a connection is  *)
(* what its handler has written.                                           *)
(***************************************************************************)
EXTENDS RequestHandler, FiniteSetTheorems, SequenceTheorems, WellFoundedInduction, TLAPS

\* The number of workers, and so of buffers, is a number.
LEMMA NType == N \in Nat
  BY HandlerAssumption, FS_CardinalityType DEF N

\* The sets of workers that the argument counts are finite.
LEMMA AheadFinite ==
    ASSUME NEW k
    PROVE  /\ IsFiniteSet(Ahead(k))
           /\ Cardinality(Ahead(k)) \in Nat
           /\ Cardinality(Ahead(k)) <= N
<1>1. Ahead(k) \in SUBSET Workers
  BY DEF Ahead
<1> QED
  BY <1>1, HandlerAssumption, FS_Subset, FS_CardinalityType DEF N

\* If two workers are exactly at slot k, two fewer are beyond it.
LEMMA TwoAt ==
    ASSUME at \in [Workers -> 0..N], NEW k \in 1..N,
           NEW v \in Workers, NEW w \in Workers, v # w, at[v] = k, at[w] = k
    PROVE  Cardinality(Ahead(k + 1)) + 2 <= Cardinality(Ahead(k))
<1> DEFINE A == Ahead(k)
           B == A \ {v}
           C == B \ {w}
<1>1. v \in A /\ w \in B
  BY NType DEF Ahead
<1>2. IsFiniteSet(A) /\ Cardinality(A) \in Nat
  BY AheadFinite
<1>3. IsFiniteSet(B) /\ Cardinality(B) = Cardinality(A) - 1
  BY <1>1, <1>2, FS_RemoveElement
<1>4. IsFiniteSet(C) /\ Cardinality(C) = Cardinality(B) - 1
  BY <1>1, <1>3, FS_RemoveElement
<1>5. Ahead(k + 1) \in SUBSET C
  BY NType DEF Ahead
<1>6. Cardinality(Ahead(k + 1)) <= Cardinality(C)
  BY <1>4, <1>5, FS_Subset
<1>7. Cardinality(Ahead(k + 1)) \in Nat
  BY AheadFinite
<1> QED
  BY <1>2, <1>3, <1>4, <1>6, <1>7

\* Initially no worker is at any slot.
LEMMA InitScan == Init => ScanInv
<1> SUFFICES ASSUME Init PROVE ScanInv
  OBVIOUS
<1> USE HandlerAssumption, NType DEF Init
<1>1. SlotExclusive
  BY DEF SlotExclusive, HoldsSlot
<1>2. ASSUME NEW k \in 1..(N + 1) PROVE Cardinality(Ahead(k)) + k <= N + 1
  <2>1. Ahead(k) = {}
    BY DEF Ahead
  <2> QED
    BY <2>1, FS_EmptySet
<1> QED
  BY <1>1, <1>2 DEF ScanInv

\* A step that neither moves a worker to another slot nor changes the flags
\* keeps the invariant, if the workers that hold a slot go on holding it.
LEMMA HoldingStep ==
    ASSUME ScanInv, NEW w \in Workers, HoldsSlot(w),
           NEW p \in {"read", "parse", "send", "shutdown", "close", "release"},
           pc' = [pc EXCEPT ![w] = p], UNCHANGED <<at, used>>
    PROVE  ScanInv'
<1> USE DEF ScanInv
<1>1. \A v \in Workers : HoldsSlot(v)' <=> HoldsSlot(v)
  BY DEF HoldsSlot
<1>2. SlotExclusive'
  BY <1>1 DEF SlotExclusive
<1>3. \A k : Ahead(k)' = Ahead(k)
  BY DEF Ahead
<1>4. \A v \in Workers : at'[v] = 0 <=> pc'[v] = "idle"
  BY DEF HoldsSlot
<1>5. pc' \in [Workers -> {"idle", "scan", "read", "parse", "send", "shutdown",
                           "close", "release"}]
  OBVIOUS
<1> QED
  BY <1>2, <1>3, <1>4, <1>5

\* A worker that begins its scan is one of N.
LEMMA BeginStep == ASSUME ScanInv, NEW w \in Workers, Begin(w) PROVE ScanInv'
<1> USE NType DEF ScanInv, Begin
<1>1. \A v \in Workers : HoldsSlot(v)' <=> HoldsSlot(v)
  BY DEF HoldsSlot
<1>2. SlotExclusive'
  BY <1>1 DEF SlotExclusive, HoldsSlot, buffers
<1>3. ASSUME NEW k \in 1..(N + 1) PROVE Cardinality(Ahead(k)') + k <= N + 1
  <2>1. CASE k = 1
    <3>1. Ahead(k)' \in SUBSET Workers
      BY DEF Ahead
    <3>2. Cardinality(Ahead(k)') <= N /\ Cardinality(Ahead(k)') \in Nat
      BY <3>1, HandlerAssumption, FS_Subset, FS_CardinalityType DEF N
    <3> QED
      BY <2>1, <3>2
  <2>2. CASE k # 1
    <3>1. Ahead(k)' = Ahead(k)
      BY <2>2 DEF Ahead
    <3> QED
      BY <3>1
  <2> QED
    BY <2>1, <2>2
<1>4. \A v \in Workers : at'[v] = 0 <=> pc'[v] = "idle"
  OBVIOUS
<1>5. /\ pc' \in [Workers -> {"idle", "scan", "read", "parse", "send",
                              "shutdown", "close", "release"}]
      /\ at' \in [Workers -> 0..N]
      /\ used' \in [Slots -> BOOLEAN]
  <2>1. N # 0
    BY HandlerAssumption, FS_EmptySet DEF N
  <2> QED
    BY <2>1 DEF buffers
<1> QED
  BY <1>2, <1>3, <1>4, <1>5

\* A worker that finds slot k free has it alone; one that finds it taken moves
\* on, and slot k + 1 exists.
LEMMA ClaimStep == ASSUME ScanInv, NEW w \in Workers, Claim(w) PROVE ScanInv'
<1> USE NType DEF ScanInv
<1> DEFINE k == at[w]
<1>1. k \in 1..N /\ pc[w] = "scan" /\ ~HoldsSlot(w)
  BY DEF Claim, HoldsSlot
<1>2. CASE used[k]
  <2>1. PICK v \in Workers : HoldsSlot(v) /\ at[v] = k
    BY <1>1, <1>2 DEF SlotExclusive, Slots
  <2>2. v # w
    BY <1>1, <2>1
  <2>3. Cardinality(Ahead(k + 1)) + 2 <= Cardinality(Ahead(k))
    BY <1>1, <2>1, <2>2, TwoAt
  <2>4. Cardinality(Ahead(k)) \in Nat /\ Cardinality(Ahead(k + 1)) \in Nat
    BY AheadFinite
  <2>5. Cardinality(Ahead(k)) + k <= N + 1
    BY <1>1
  <2>6. k + 1 <= N
    BY <1>1, <2>3, <2>4, <2>5
  <2>7. at' = [at EXCEPT ![w] = k + 1] /\ pc' = pc /\ used' = used
    BY <1>1, <1>2, <2>6 DEF Claim
  <2>8. ASSUME NEW j \in 1..(N + 1) PROVE Cardinality(Ahead(j)') + j <= N + 1
    <3>1. CASE j = k + 1
      <4>1. Ahead(j)' = Ahead(k + 1) \cup {w}
        BY <1>1, <2>7, <3>1 DEF Ahead
      <4>2. Cardinality(Ahead(j)') <= Cardinality(Ahead(k + 1)) + 1
            /\ Cardinality(Ahead(j)') \in Nat
        <5>1. IsFiniteSet(Ahead(k + 1)) /\ Cardinality(Ahead(k + 1)) \in Nat
          BY AheadFinite
        <5>2. Cardinality(Ahead(k + 1) \cup {w})
                 = IF w \in Ahead(k + 1) THEN Cardinality(Ahead(k + 1))
                   ELSE Cardinality(Ahead(k + 1)) + 1
          BY <5>1, FS_AddElement
        <5>3. Cardinality(Ahead(j)') = Cardinality(Ahead(k + 1) \cup {w})
          BY <4>1
        <5> QED
          BY <5>1, <5>2, <5>3
      <4> QED
        BY <1>1, <2>3, <2>4, <2>5, <3>1, <4>2
    <3>2. CASE j # k + 1
      <4>1. Ahead(j)' = Ahead(j)
        BY <1>1, <2>7, <3>2 DEF Ahead
      <4> QED
        BY <4>1
    <3> QED
      BY <3>1, <3>2
  <2>9. \A u \in Workers : HoldsSlot(u)' <=> HoldsSlot(u)
    BY <2>7 DEF HoldsSlot
  <2>10. SlotExclusive'
    BY <1>1, <2>7, <2>9 DEF SlotExclusive
  <2>11. at' \in [Workers -> 0..N]
    BY <1>1, <2>6, <2>7
  <2>12. \A u \in Workers : at'[u] = 0 <=> pc'[u] = "idle"
    BY <1>1, <2>7
  <2> QED
    BY <2>7, <2>8, <2>10, <2>11, <2>12
<1>3. CASE ~used[k]
  <2>1. at' = at /\ used' = [used EXCEPT ![k] = TRUE]
        /\ pc' = [pc EXCEPT ![w] = "read"]
    BY <1>1, <1>3 DEF Claim
  <2>2. \A u \in Workers : HoldsSlot(u)' <=> HoldsSlot(u) \/ u = w
    BY <2>1 DEF HoldsSlot
  <2>3. \A u \in Workers : HoldsSlot(u) => at[u] # k
    BY <1>1, <1>3 DEF SlotExclusive, Slots
  <2>4. SlotExclusive'
    <3>1. \A u, v \in Workers :
             u # v /\ HoldsSlot(u)' /\ HoldsSlot(v)' => at'[u] # at'[v]
      BY <2>1, <2>2, <2>3 DEF SlotExclusive
    <3>2. \A i \in Slots :
             used'[i] <=> \E u \in Workers : HoldsSlot(u)' /\ at'[u] = i
      BY <1>1, <2>1, <2>2 DEF SlotExclusive, Slots
    <3> QED
      BY <3>1, <3>2 DEF SlotExclusive
  <2>5. \A j : Ahead(j)' = Ahead(j)
    BY <2>1 DEF Ahead
  <2>6. \A u \in Workers : at'[u] = 0 <=> pc'[u] = "idle"
    BY <1>1, <2>1
  <2>7. /\ pc' \in [Workers -> {"idle", "scan", "read", "parse", "send",
                                "shutdown", "close", "release"}]
        /\ used' \in [Slots -> BOOLEAN]
    BY <2>1
  <2> QED
    BY <2>1, <2>4, <2>5, <2>6, <2>7
<1> QED
  BY <1>2, <1>3

\* A worker that releases its slot leaves it free.
LEMMA ReleaseStep == ASSUME ScanInv, NEW w \in Workers, Release(w) PROVE ScanInv'
<1> USE NType DEF ScanInv
<1>1. /\ pc[w] = "release" /\ HoldsSlot(w)
      /\ used' = [used EXCEPT ![at[w]] = FALSE]
      /\ pc' = [pc EXCEPT ![w] = "idle"]
      /\ at' = [at EXCEPT ![w] = 0]
  BY DEF Release, Cleared, HoldsSlot
<1>2. \A u \in Workers : HoldsSlot(u)' <=> HoldsSlot(u) /\ u # w
  BY <1>1 DEF HoldsSlot
<1>3. at[w] \in Slots
  BY <1>1 DEF Slots
<1>4. SlotExclusive'
  <2>1. \A u, v \in Workers :
           u # v /\ HoldsSlot(u)' /\ HoldsSlot(v)' => at'[u] # at'[v]
    BY <1>1, <1>2 DEF SlotExclusive
  <2>2. ASSUME NEW i \in Slots
        PROVE  used'[i] <=> \E u \in Workers : HoldsSlot(u)' /\ at'[u] = i
    <3>1. CASE i = at[w]
      <4>1. \A u \in Workers : HoldsSlot(u)' => at'[u] # i
        BY <1>1, <1>2, <3>1 DEF SlotExclusive
      <4> QED
        BY <1>1, <1>3, <3>1, <4>1
    <3>2. CASE i # at[w]
      <4>1. used'[i] = used[i]
        BY <1>1, <3>2
      <4>2. used[i] <=> \E u \in Workers : HoldsSlot(u) /\ at[u] = i
        BY DEF SlotExclusive
      <4> QED
        BY <1>1, <1>2, <3>2, <4>1, <4>2
    <3> QED
      BY <3>1, <3>2
  <2> QED
    BY <2>1, <2>2 DEF SlotExclusive
<1>5. ASSUME NEW k \in 1..(N + 1) PROVE Cardinality(Ahead(k)') + k <= N + 1
  <2>1. Ahead(k)' \in SUBSET Ahead(k)
    BY <1>1 DEF Ahead
  <2>2. Cardinality(Ahead(k)') <= Cardinality(Ahead(k))
        /\ Cardinality(Ahead(k)') \in Nat /\ Cardinality(Ahead(k)) \in Nat
    BY <2>1, AheadFinite, FS_Subset, FS_CardinalityType
  <2>3. Cardinality(Ahead(k)) + k <= N + 1
    OBVIOUS
  <2> QED
    BY <2>2, <2>3
<1>6. \A u \in Workers : at'[u] = 0 <=> pc'[u] = "idle"
  BY <1>1
<1>7. /\ pc' \in [Workers -> {"idle", "scan", "read", "parse", "send",
                              "shutdown", "close", "release"}]
      /\ at' \in [Workers -> 0..N]
      /\ used' \in [Slots -> BOOLEAN]
  <2>1. 0 \in 0..N
    OBVIOUS
  <2>2. at' \in [Workers -> 0..N]
    BY <1>1, <2>1
  <2>3. used' \in [Slots -> BOOLEAN]
    BY <1>1
  <2> QED
    BY <1>1, <2>2, <2>3
<1> QED
  BY <1>4, <1>5, <1>6, <1>7

\* Every step of the server and of its clients preserves the invariant.
LEMMA NextScan == ScanInv /\ [Next]_vars => ScanInv'
<1> SUFFICES ASSUME ScanInv, [Next]_vars PROVE ScanInv'
  OBVIOUS
<1>1. ASSUME NEW w \in Workers, WorkerStep(w) PROVE ScanInv'
  <2>1. CASE Begin(w)
    BY <2>1, BeginStep
  <2>2. CASE Claim(w)
    BY <2>2, ClaimStep
  <2>3. CASE Release(w)
    BY <2>3, ReleaseStep
  <2>4. CASE \/ Read(w) \/ ReadEof(w) \/ ReadError(w) \/ Respond(w) \/ Write(w)
             \/ WriteError(w) \/ Shutdown(w) \/ Close(w)
    <3>1. /\ HoldsSlot(w)
          /\ UNCHANGED <<at, used>>
          /\ \E p \in {"read", "parse", "send", "shutdown", "close", "release"} :
                pc' = [pc EXCEPT ![w] = p]
      BY <2>4 DEF HoldsSlot, Read, ReadEof, ReadError, Respond, Write,
                  WriteError, Shutdown, Close, buffers
    <3> QED
      BY <3>1, HoldingStep
  <2>5. CASE WriteToGone(w)
    <3>1. /\ HoldsSlot(w)
          /\ UNCHANGED <<at, used>>
          /\ \/ pc' = [pc EXCEPT ![w] = "shutdown"]
             \/ pc' = [pc EXCEPT ![w] = "send"]
      BY <2>5 DEF HoldsSlot, WriteToGone, buffers, ScanInv
    <3> QED
      BY <3>1, HoldingStep
  <2> QED
    BY <1>1, <2>1, <2>2, <2>3, <2>4, <2>5 DEF WorkerStep
<1>2. ASSUME UNCHANGED <<pc, at, used>> PROVE ScanInv'
  <2>1. \A k : Ahead(k)' = Ahead(k)
    BY <1>2 DEF Ahead
  <2>2. SlotExclusive'
    BY <1>2 DEF ScanInv, SlotExclusive, HoldsSlot
  <2> QED
    BY <1>2, <2>1, <2>2 DEF ScanInv
<1>3. ASSUME NEW c \in Conns, Accept(c) \/ Send(c) \/ Misbehave(c)
      PROVE  UNCHANGED <<pc, at, used>>
  BY <1>3 DEF Accept, Send, Misbehave, local, buffers
<1>4. CASE UNCHANGED vars
  BY <1>2, <1>4 DEF vars, local, buffers
<1> QED
  BY <1>1, <1>2, <1>3, <1>4 DEF Next, Done

\* The counting invariant holds in every reachable state.
THEOREM ScanInvariance == SafetySpec => []ScanInv
<1> QED
  BY InitScan, NextScan, PTL DEF SafetySpec

\* Every request finds a buffer, with any number of workers: the branch that
\* would release a buffer with an uninitialised index is dead code.
THEOREM ScanAlwaysSucceeds == SafetySpec => []ScanSucceeds
<1>1. ScanInv => ScanSucceeds
  BY DEF ScanInv, ScanSucceeds
<1> QED
  BY <1>1, ScanInvariance, PTL

\* No two requests that are handled at the same time share a buffer.
THEOREM BuffersExclusive == SafetySpec => []SlotExclusive
<1>1. ScanInv => SlotExclusive
  BY DEF ScanInv
<1> QED
  BY <1>1, ScanInvariance, PTL

-----------------------------------------------------------------------------
(* Who has which connection                                                *)

\* No client has reset its connection, and none is known to have disconnected.
Peaceful == \A c \in Conns : client[c] \notin {"reset", "disconnected"}

\* The request of connection c was not read yet.
Unread(c) == client[c] \in {"away", "connected", "waiting", "quit"}

\* The worker has a connection and has yet to close it.
Serves(w) == pc[w] \notin {"idle", "release"}

\* The first n chunks of the response to connection c.
Copies(n, c) == [k \in 1..n |-> c]

\* What a job that waits has: its descriptor and connection, and no other job
\* or handler has the descriptor.
JobsOwn ==
    \A i \in 1..Len(jobs) :
        /\ fdtab[jobs[i].fd] = jobs[i].conn
        /\ client[jobs[i].conn] # "away" /\ Unread(jobs[i].conn)
        /\ \A j \in 1..Len(jobs) : i # j => jobs[i].fd # jobs[j].fd
        /\ \A w \in Workers : Serves(w) => sock[w] # jobs[i].fd

\* What a handler has at each place.
HandlersOwn ==
    \A w \in Workers : Serves(w) =>
        /\ fdtab[sock[w]] = owner[w]
        /\ \A v \in Workers : v # w /\ Serves(v) => sock[v] # sock[w]
        /\ client[owner[w]] # "away"
        /\ pc[w] \in {"scan", "read"} <=> Unread(owner[w])
        /\ received[owner[w]] = Copies(written[w], owner[w])
        /\ pc[w] \in {"shutdown", "close"} => written[w] = Chunks
        /\ pc[w] # "close" => owner[w] \notin fin

\* No descriptor is lost, and no two are of one connection.
DescriptorsHeld ==
    /\ \A f \in Fds : fdtab[f] # Nobody =>
           \/ \E i \in 1..Len(jobs) : jobs[i].fd = f
           \/ \E w \in Workers : Serves(w) /\ sock[w] = f
    /\ \A f, g \in Fds : f # g /\ fdtab[f] # Nobody => fdtab[f] # fdtab[g]

\* A connection whose request was not read got nothing, and one that was shut
\* down got everything.
ResponsesWhole ==
    \A c \in Conns :
        /\ Unread(c) => c \notin fin /\ received[c] = <<>>
        /\ c \in fin => received[c] = Copies(Chunks, c)

\* No buffer was freed.
NothingFreed == \A i \in Slots : freed[i] = 0

\* A busy worker, and no other, has a descriptor and a connection, and it counts
\* nothing as written before it sends.
BusyInv ==
    \A w \in Workers :
        /\ pc[w] = "idle" <=> sock[w] = Nobody
        /\ pc[w] # "idle" => owner[w] # Nobody
        /\ pc[w] \in {"idle", "scan", "read", "parse"} => written[w] = 0

\* The inductive invariant.
OwnInv ==
    /\ TypeOK
    /\ ScanInv
    /\ BusyInv
    /\ Peaceful => /\ JobsOwn
                   /\ HandlersOwn
                   /\ DescriptorsHeld
                   /\ ResponsesWhole
                   /\ NothingFreed

-----------------------------------------------------------------------------
(* Facts about the operators *)

\* The bounds of the model.
LEMMA Bounds ==
    /\ MaxConns \in Nat /\ MaxFd \in Nat /\ Chunks \in Nat /\ Chunks # 0
    /\ BufLen \in Nat /\ BufLen >= 2 /\ N \in Nat
    /\ Nobody \notin Conns /\ Nobody \notin Fds /\ Nul \notin Conns /\ Garbage # Nul
  BY HandlerAssumption, NType DEF Conns, Fds, Nobody, Nul, Garbage

\* If a descriptor is free, the kernel finds the lowest one.
LEMMA LowestFreeFacts ==
    ASSUME \E f \in Fds : fdtab[f] = Nobody
    PROVE  LowestFree \in Fds /\ fdtab[LowestFree] = Nobody
<1> DEFINE I == {f \in Fds : fdtab[f] = Nobody}
<1>1. I \in SUBSET Nat /\ I # {}
  BY Bounds DEF Fds
<1> HIDE DEF I
<1>2. PICK x \in I : \A y \in I : <<y, x>> \notin OpToRel(<, Nat)
  BY <1>1, NatLessThanWellFounded, WFMin
<1>3. ASSUME NEW y \in I PROVE x <= y
  <2>1. x \in Nat /\ y \in Nat /\ <<y, x>> \in Nat \X Nat
    BY <1>1
  <2>2. <<y, x>>[1] = y /\ <<y, x>>[2] = x
    OBVIOUS
  <2>3. ~(<<y, x>>[1] < <<y, x>>[2])
    BY <1>2, <2>1, Zenon DEF OpToRel
  <2> QED
    BY <2>1, <2>2, <2>3
<1>4. x \in Fds /\ fdtab[x] = Nobody /\ \A e \in Fds : fdtab[e] = Nobody => x <= e
  BY <1>3 DEF I
<1> QED
  BY <1>4 DEF LowestFree

\* What appending to and taking from a sequence does.
LEMMA AppendFacts ==
    ASSUME NEW S, NEW s \in Seq(S), NEW e \in S
    PROVE  /\ Append(s, e) \in Seq(S)
           /\ Len(s) \in Nat /\ Len(Append(s, e)) = Len(s) + 1
           /\ \A i \in 1..Len(Append(s, e)) :
                 Append(s, e)[i] = IF i = Len(s) + 1 THEN e ELSE s[i]
  OBVIOUS

\* And what taking the first item off does.
LEMMA TailFacts ==
    ASSUME NEW S, NEW s \in Seq(S), s # <<>>
    PROVE  /\ Len(s) \in Nat \ {0} /\ 1 \in 1..Len(s)
           /\ Head(s) = s[1] /\ s[1] \in S
           /\ Tail(s) \in Seq(S)
           /\ Len(Tail(s)) = Len(s) - 1
           /\ \A i \in 1..Len(Tail(s)) : i + 1 \in 1..Len(s) /\ Tail(s)[i] = s[i + 1]
  OBVIOUS

\* n copies are a sequence of n items.
LEMMA CopiesSeq ==
    ASSUME NEW n \in Nat, NEW S, NEW c \in S
    PROVE  Copies(n, c) \in Seq(S) /\ Len(Copies(n, c)) = n
<1>1. Copies(n, c) \in [1..n -> S]
  BY DEF Copies
<1>2. Copies(n, c) \in Seq(S)
  BY <1>1
<1>3. DOMAIN Copies(n, c) = 1..n
  BY DEF Copies
<1>4. DOMAIN Copies(n, c) = 1..Len(Copies(n, c)) /\ Len(Copies(n, c)) \in Nat
  BY <1>2
<1> QED
  BY <1>2, <1>3, <1>4

\* None is the empty sequence.
LEMMA NoCopies == ASSUME NEW c PROVE Copies(0, c) = <<>>
  BY DEF Copies

\* Chunks that are sent in several pieces add up.
LEMMA CopiesConcat ==
    ASSUME NEW m \in Nat, NEW n \in Nat, NEW c
    PROVE  Copies(m, c) \o Copies(n, c) = Copies(m + n, c)
<1> DEFINE a == Copies(m, c)
           b == Copies(n, c)
           t == Copies(m + n, c)
<1>1. a \in Seq({c}) /\ b \in Seq({c}) /\ t \in Seq({c})
  BY CopiesSeq
<1>2. Len(a) = m /\ Len(b) = n /\ Len(t) = m + n
  <2>1. c \in {c} /\ m + n \in Nat
    OBVIOUS
  <2> QED
    BY <2>1, CopiesSeq
<1> HIDE DEF a, b, t
<1>3. a \o b \in Seq({c}) /\ Len(a \o b) = m + n
  BY <1>1, <1>2
<1>4. ASSUME NEW i \in 1..(m + n) PROVE (a \o b)[i] = t[i]
  <2>1. i \in 1..Len(a \o b) /\ i \in 1..Len(t)
    BY <1>2, <1>3
  <2> QED
    BY <1>1, <1>3, <2>1
<1>5. a \o b = t
  BY <1>1, <1>2, <1>3, <1>4, SeqEqual
<1> QED
  BY <1>5 DEF a, b, t

-----------------------------------------------------------------------------
(* Types *)

\* The initial state has the types.
LEMMA InitType == Init => TypeOK
<1> SUFFICES ASSUME Init PROVE TypeOK
  OBVIOUS
<1> USE Bounds DEF Init, TypeOK
<1>1. cells \in [Slots -> [1..BufLen -> Conns \cup {Nul, Garbage}]]
  OBVIOUS
<1>2. \A c \in Conns : received[c] = <<>> /\ <<>> \in Seq(Conns)
  OBVIOUS
<1>3. received \in [Conns -> Seq(Conns)] /\ jobs \in Seq([fd : Fds, conn : Conns])
  BY <1>2
<1>4. size \in [Conns -> 1..(BufLen - 1)] /\ written \in [Workers -> 0..Chunks]
  OBVIOUS
<1>5. at \in [Workers -> 0..(N + 1)] /\ freed \in [Slots -> Nat]
  OBVIOUS
<1>6. request \in [Workers -> SUBSET (Conns \cup {Garbage})]
  OBVIOUS
<1> QED
  BY <1>1, <1>3, <1>4, <1>5, <1>6

\* What a handler parses comes from its buffer, without the '\0'.
LEMMA VisibleType ==
    ASSUME NEW b \in [1..BufLen -> Conns \cup {Nul, Garbage}]
    PROVE  Visible(b) \subseteq Conns \cup {Garbage}
<1> SUFFICES ASSUME NEW k \in DOMAIN b, \A i \in 1..k : b[i] # Nul
             PROVE  b[k] \in Conns \cup {Garbage}
  BY DEF Visible
<1>1. k \in 1..k /\ b[k] \in Conns \cup {Nul, Garbage}
  BY Bounds
<1> QED
  BY <1>1

\* The clients and the accept loop keep the types.
LEMMA ClientType ==
    ASSUME TypeOK, NEW c \in Conns, Accept(c) \/ Send(c) \/ Misbehave(c)
    PROVE  TypeOK'
<1> USE Bounds DEF TypeOK, local, buffers, sockets
<1>1. CASE Accept(c)
  <2>1. LowestFree \in Fds
    BY <1>1, LowestFreeFacts DEF Accept
  <2>2. [fd |-> LowestFree, conn |-> c] \in [fd : Fds, conn : Conns]
    BY <2>1
  <2>3. jobs' \in Seq([fd : Fds, conn : Conns])
    BY <1>1, <2>2, AppendFacts DEF Accept
  <2>4. fdtab' \in [Fds -> Conns \cup {Nobody}]
    BY <1>1, <2>1 DEF Accept
  <2> QED
    BY <1>1, <2>3, <2>4 DEF Accept
<1>2. CASE Send(c)
  BY <1>2 DEF Send
<1>3. CASE Misbehave(c)
  BY <1>3 DEF Misbehave
<1> QED
  BY <1>1, <1>2, <1>3

\* So does a worker.  Where it goes and which slot it is at is proved with the
\* counting invariant.
LEMMA WorkerType ==
    ASSUME TypeOK, BusyInv, ScanInv, ScanInv', NEW w \in Workers, WorkerStep(w)
    PROVE  TypeOK'
<1> USE Bounds DEF TypeOK, buffers, sockets, clients
<1>1. /\ pc' \in [Workers -> {"idle", "scan", "noslot", "read", "parse", "send",
                              "shutdown", "close", "release"}]
      /\ at' \in [Workers -> 0..(N + 1)] /\ used' \in [Slots -> BOOLEAN]
  BY DEF ScanInv
<1>0. pc[w] # "idle" => sock[w] \in Fds /\ owner[w] \in Conns /\ Peer(w) \in Conns \cup {Nobody}
  BY DEF BusyInv, Peer
<1>2. CASE Begin(w)
  <2>1. /\ Head(jobs) \in [fd : Fds, conn : Conns]
        /\ Tail(jobs) \in Seq([fd : Fds, conn : Conns])
    <3> DEFINE J == [fd : Fds, conn : Conns]
    <3>1. jobs \in Seq(J) /\ jobs # <<>>
      BY <1>2 DEF Begin
    <3> HIDE DEF J
    <3>2. Head(jobs) \in J /\ Tail(jobs) \in Seq(J)
      BY <3>1, TailFacts
    <3> QED
      BY <3>2 DEF J
  <2>2. Head(jobs).fd \in Fds /\ Head(jobs).conn \in Conns
    BY <2>1
  <2> QED
    BY <1>1, <1>2, <2>1, <2>2 DEF Begin
<1>3. CASE Claim(w)
  BY <1>1, <1>3 DEF Claim
<1>4. CASE Read(w)
  <2>1. Peer(w) \in Conns
    BY <1>0, <1>4 DEF Read
  <2>2. at[w] \in Slots
    BY <1>4 DEF ScanInv, Read, Slots
  <2>3. cells' \in [Slots -> [1..BufLen -> Conns \cup {Nul, Garbage}]]
    BY <1>4, <2>1, <2>2 DEF Read
  <2>4. client' \in [Conns -> {"away", "connected", "waiting", "served",
                             "disconnected", "reset", "quit"}]
    BY <1>4, <2>1 DEF Read
  <2> QED
    BY <1>1, <1>4, <2>1, <2>3, <2>4 DEF Read
<1>5. CASE ReadEof(w) \/ ReadError(w) \/ Close(w)
  <2>1. at[w] \in Slots
    BY <1>5 DEF ScanInv, ReadEof, ReadError, Close, Slots
  <2>2. freed' \in [Slots -> Nat]
    <3>1. freed[at[w]] + 1 \in Nat
      BY <2>1
    <3>2. freed' = freed \/ freed' = [freed EXCEPT ![at[w]] = freed[at[w]] + 1]
      BY <1>5 DEF ReadEof, ReadError, Close
    <3> QED
      BY <3>1, <3>2
  <2>3. fdtab' \in [Fds -> Conns \cup {Nobody}]
    BY <1>0, <1>5 DEF ReadEof, ReadError, Close
  <2> QED
    BY <1>1, <1>5, <2>2, <2>3 DEF ReadEof, ReadError, Close
<1>6. CASE Respond(w)
  <2>1. cells[at[w]] \in [1..BufLen -> Conns \cup {Nul, Garbage}]
    BY <1>6 DEF ScanInv, Respond, Slots
  <2>2. request' \in [Workers -> SUBSET (Conns \cup {Garbage})]
    BY <1>6, <2>1, VisibleType DEF Respond
  <2> QED
    BY <1>1, <1>6, <2>2 DEF Respond
<1>7. CASE Write(w)
  <2>1. PICK n \in 1..(Chunks - written[w]) :
            /\ written' = [written EXCEPT ![w] = @ + n]
            /\ received' = [received EXCEPT ![Peer(w)] = @ \o Copies(n, owner[w])]
    BY <1>7 DEF Write, Copies
  <2>2. written[w] \in 0..Chunks /\ n \in Nat /\ written[w] + n \in 0..Chunks
    BY <2>1
  <2>3. Copies(n, owner[w]) \in Seq(Conns)
    BY <1>0, <1>7, <2>2, CopiesSeq DEF Write
  <2>4. Peer(w) \in Conns
    BY <1>0, <1>7 DEF Write
  <2>5. received[Peer(w)] \o Copies(n, owner[w]) \in Seq(Conns)
    BY <2>3, <2>4
  <2>6. received' \in [Conns -> Seq(Conns)]
    BY <2>1, <2>4, <2>5
  <2>7. written' \in [Workers -> 0..Chunks]
    BY <2>1, <2>2
  <2> QED
    BY <1>1, <1>7, <2>6, <2>7 DEF Write
<1>8. CASE WriteError(w) \/ WriteToGone(w) \/ Shutdown(w)
  <2>1. fin' \in SUBSET Conns
    BY <1>0, <1>8 DEF WriteError, WriteToGone, Shutdown
  <2> QED
    BY <1>1, <1>8, <2>1 DEF WriteError, WriteToGone, Shutdown
<1>9. CASE Release(w)
  BY <1>1, <1>9 DEF Release, Cleared
<1> QED
  BY <1>2, <1>3, <1>4, <1>5, <1>6, <1>7, <1>8, <1>9 DEF WorkerStep

-----------------------------------------------------------------------------
(* The peace is kept or broken for ever. *)

\* Clients that disconnected or reset stay so.
LEMMA NoPeaceAgain ==
    ASSUME TypeOK, BusyInv, [Next]_vars, Peaceful'
    PROVE  Peaceful
<1> SUFFICES ASSUME NEW c \in Conns, client[c] \in {"reset", "disconnected"}
             PROVE  client'[c] = client[c]
  BY DEF Peaceful
<1>1. ASSUME NEW d \in Conns, Accept(d) \/ Send(d) \/ Misbehave(d)
      PROVE  client'[c] = client[c]
  BY <1>1 DEF Accept, Send, Misbehave, TypeOK
<1>2. ASSUME NEW w \in Workers, WorkerStep(w)
      PROVE  client'[c] = client[c]
  <2>1. CASE Read(w)
    <3>1. Peer(w) # c /\ \E s : client' = [client EXCEPT ![Peer(w)] = s]
      BY <2>1 DEF Read
    <3> QED
      BY <3>1 DEF TypeOK
  <2> QED
    BY <1>2, <2>1 DEF WorkerStep, Begin, Claim, ReadEof, ReadError, Respond, Write,
                      WriteError, WriteToGone, Shutdown, Close, Release, clients
<1>3. CASE UNCHANGED vars
  BY <1>3 DEF vars, clients
<1> QED
  BY <1>1, <1>2, <1>3 DEF Next, Done

\* A busy worker keeps its descriptor until it is done.
LEMMA BusyKept ==
    ASSUME TypeOK, BusyInv, ScanInv, [Next]_vars
    PROVE  BusyInv'
<1> USE Bounds DEF BusyInv, TypeOK
<1>1. ASSUME NEW w \in Workers, WorkerStep(w) PROVE BusyInv'
  <2>1. CASE Begin(w)
    <3>1. Head(jobs) \in [fd : Fds, conn : Conns]
      <4> DEFINE J == [fd : Fds, conn : Conns]
      <4>1. jobs \in Seq(J) /\ jobs # <<>>
        BY <2>1 DEF Begin
      <4> HIDE DEF J
      <4>2. Head(jobs) \in J
        BY <4>1, TailFacts
      <4> QED
        BY <4>2 DEF J
    <3>2. Head(jobs).fd # Nobody /\ Head(jobs).conn # Nobody
      BY <3>1
    <3> QED
      BY <2>1, <3>2 DEF Begin
  <2>2. CASE Release(w)
    BY <2>2 DEF Release, Cleared
  <2>3. CASE Write(w)
    BY <2>3 DEF Write
  <2>4. CASE Claim(w) \/ Read(w) \/ ReadEof(w) \/ ReadError(w) \/ Respond(w)
    BY <2>4 DEF Claim, Read, ReadEof, ReadError, Respond
  <2>5. CASE WriteError(w) \/ WriteToGone(w) \/ Shutdown(w) \/ Close(w)
    BY <2>5 DEF WriteError, WriteToGone, Shutdown, Close
  <2> QED
    BY <1>1, <2>1, <2>2, <2>3, <2>4, <2>5 DEF WorkerStep
<1>2. ASSUME NEW c \in Conns, Accept(c) \/ Send(c) \/ Misbehave(c) PROVE BusyInv'
  BY <1>2 DEF Accept, Send, Misbehave, local
<1>3. CASE UNCHANGED vars
  BY <1>3 DEF vars, local
<1> QED
  BY <1>1, <1>2, <1>3 DEF Next, Done

-----------------------------------------------------------------------------
(* Peaceful steps *)

\* The state as long as the peace lasts.
Own ==
    /\ TypeOK /\ ScanInv /\ BusyInv /\ Peaceful
    /\ JobsOwn /\ HandlersOwn /\ DescriptorsHeld /\ ResponsesWhole /\ NothingFreed

\* The types that matter here.
OwnTypes ==
    /\ DOMAIN pc = Workers /\ DOMAIN sock = Workers /\ DOMAIN owner = Workers
    /\ DOMAIN client = Conns /\ DOMAIN received = Conns /\ DOMAIN fdtab = Fds
    /\ DOMAIN freed = Slots
    /\ written \in [Workers -> 0..Chunks]
    /\ \A i \in 1..Len(jobs) : jobs[i].fd \in Fds /\ jobs[i].conn \in Conns
    /\ \A w \in Workers : Serves(w) => sock[w] \in Fds /\ owner[w] \in Conns
    /\ \A c \in Conns : client[c] \in {"away", "connected", "waiting", "served", "quit"}
    /\ \A f \in Fds : fdtab[f] \in Conns \cup {Nobody}

\* The state has them.
LEMMA OwnTyped == ASSUME Own PROVE OwnTypes
<1> USE DEF Own, TypeOK, OwnTypes
<1>1. \A i \in 1..Len(jobs) : jobs[i].fd \in Fds /\ jobs[i].conn \in Conns
  <2> DEFINE J == [fd : Fds, conn : Conns]
  <2>1. jobs \in Seq(J)
    OBVIOUS
  <2>2. \A i \in 1..Len(jobs) : jobs[i] \in J
    <3> HIDE DEF J
    <3> QED
      BY <2>1
  <2> QED
    BY <2>2
<1>2. \A w \in Workers : Serves(w) => sock[w] \in Fds /\ owner[w] \in Conns
  BY DEF BusyInv, Serves
<1>3. \A c \in Conns : client[c] \in {"away", "connected", "waiting", "served", "quit"}
  BY DEF Peaceful
<1> QED
  BY <1>1, <1>2, <1>3

\* A handler that has yet to close its connection has it, and the connection is
\* of a client that is there.
LEMMA HandlerHas ==
    ASSUME Own, NEW w \in Workers, Serves(w)
    PROVE  /\ sock[w] \in Fds /\ owner[w] \in Conns /\ Peer(w) = owner[w]
           /\ client[owner[w]] \in {"connected", "waiting", "served", "quit"}
           /\ pc[w] \in {"scan", "read"} <=> Unread(owner[w])
           /\ received[owner[w]] = Copies(written[w], owner[w])
           /\ pc[w] \in {"shutdown", "close"} => written[w] = Chunks
           /\ pc[w] # "close" => owner[w] \notin fin
<1>1. /\ sock[w] \in Fds /\ owner[w] \in Conns
  BY DEF Own, TypeOK, BusyInv, Serves
<1>2. client[owner[w]] \in {"connected", "waiting", "served", "quit"}
  BY <1>1 DEF Own, TypeOK, HandlersOwn, Peaceful
<1> QED
  BY <1>1, <1>2 DEF Own, HandlersOwn, Peer

\* A client that sends, or quits before its request is read.
LEMMA ClientOwn ==
    ASSUME Own, TypeOK', ScanInv', Peaceful',
           NEW c \in Conns, Send(c) \/ Misbehave(c)
    PROVE  (JobsOwn /\ HandlersOwn /\ DescriptorsHeld /\ ResponsesWhole /\ NothingFreed)'
<1>t. OwnTypes
  BY OwnTyped
<1> USE <1>t, Bounds DEF Own, OwnTypes, Serves, Unread
<1>1. /\ UNCHANGED <<pc, sock, owner, written, fdtab, received, fin, jobs, freed>>
      /\ \E r \in {"waiting", "quit"} : client' = [client EXCEPT ![c] = r]
      /\ client[c] \in {"connected", "waiting"}
  BY DEF Send, Misbehave, Peaceful, local, buffers, sockets
<1>2. \A d \in Conns :
          /\ Unread(d)' <=> Unread(d)
          /\ client'[d] = "away" <=> client[d] = "away"
  BY <1>1
<1>5. JobsOwn'
  BY <1>1, <1>2 DEF JobsOwn
<1>6. HandlersOwn'
  BY <1>1, <1>2 DEF HandlersOwn
<1>7. DescriptorsHeld'
  BY <1>1, <1>2 DEF DescriptorsHeld
<1>8. ResponsesWhole'
  BY <1>1, <1>2 DEF ResponsesWhole
<1>9. NothingFreed'
  BY <1>1, <1>2 DEF NothingFreed
<1> QED
  BY <1>5, <1>6, <1>7, <1>8, <1>9

\* The accepted socket is nobody else's.
LEMMA AcceptOwn ==
    ASSUME Own, TypeOK', ScanInv', Peaceful', NEW c \in Conns, Accept(c)
    PROVE  (JobsOwn /\ HandlersOwn /\ DescriptorsHeld /\ ResponsesWhole /\ NothingFreed)'
<1>t. OwnTypes
  BY OwnTyped
<1> USE <1>t, Bounds DEF Own, OwnTypes, Serves, Unread
<1> DEFINE f == LowestFree
           j == [fd |-> f, conn |-> c]
           J == [fd : Fds, conn : Conns]
           n == Len(jobs)
<1>1. f \in Fds /\ fdtab[f] = Nobody
  BY LowestFreeFacts DEF Accept
<1>2. /\ client[c] = "away" /\ client' = [client EXCEPT ![c] = "connected"]
      /\ fdtab' = [fdtab EXCEPT ![f] = c]
      /\ UNCHANGED <<pc, sock, owner, written, received, fin, freed>>
  BY DEF Accept, local, buffers
<1>a. /\ n \in Nat /\ Len(jobs') = n + 1 /\ jobs'[n + 1] = j
      /\ \A i \in 1..n : jobs'[i] = jobs[i] /\ jobs[i] \in J
  <2>1. jobs \in Seq(J) /\ j \in J /\ jobs' = Append(jobs, j)
    BY <1>1 DEF Accept, TypeOK
  <2> HIDE DEF J, j
  <2> QED
    BY <2>1, AppendFacts
<1> HIDE DEF f, n
<1>3. j.fd = f /\ j.conn = c /\ \A i \in 1..n : jobs[i].fd \in Fds /\ jobs[i].conn \in Conns
  BY <1>a
<1>b. /\ fdtab'[f] = c /\ client'[c] = "connected"
      /\ \A g \in Fds : g # f => fdtab'[g] = fdtab[g]
      /\ \A d \in Conns : d # c => client'[d] = client[d]
  BY <1>1, <1>2
<1>4. \A g \in Fds : fdtab[g] # Nobody => client[fdtab[g]] # "away"
  BY DEF DescriptorsHeld, JobsOwn, HandlersOwn
<1>5. JobsOwn'
  <2> HIDE DEF J, j
  <2>1. \A i \in 1..n :
            /\ jobs[i].fd # f /\ jobs[i].conn # c
            /\ fdtab[jobs[i].fd] = jobs[i].conn
            /\ Unread(jobs[i].conn) /\ client[jobs[i].conn] # "away"
            /\ \A k \in 1..n : i # k => jobs[i].fd # jobs[k].fd
            /\ \A w \in Workers : Serves(w) => sock[w] # jobs[i].fd
    BY <1>1, <1>2, <1>3 DEF n, JobsOwn
  <2>2. \A w \in Workers : Serves(w) => sock[w] # f
    BY <1>1 DEF HandlersOwn
  <2> HIDE <1>t DEF Own, OwnTypes
  <2>3. \A i \in 1..(n + 1) :
            /\ i = n + 1 \/ i \in 1..n
            /\ jobs'[i].fd = IF i = n + 1 THEN f ELSE jobs[i].fd
            /\ jobs'[i].conn = IF i = n + 1 THEN c ELSE jobs[i].conn
    <3> TAKE i \in 1..(n + 1)
    <3>1. i = n + 1 \/ i \in 1..n
      BY <1>a
    <3>2. i \in 1..n => i # n + 1
      BY <1>a
    <3> QED
      BY <1>a, <1>3, <3>1, <3>2
  <2>a. Len(jobs') = n + 1
    BY <1>a
  <2> SUFFICES ASSUME NEW i \in 1..(n + 1)
               PROVE  /\ fdtab'[jobs'[i].fd] = jobs'[i].conn
                      /\ client'[jobs'[i].conn] # "away" /\ Unread(jobs[i].conn)'
                      /\ \A k \in 1..(n + 1) : i # k => jobs'[i].fd # jobs'[k].fd
                      /\ \A w \in Workers : Serves(w)' => sock'[w] # jobs'[i].fd
    BY <2>a DEF JobsOwn
  <2>4. CASE i = n + 1
    <3>1. jobs'[i].fd = f /\ jobs'[i].conn = c
      BY <2>3, <2>4
    <3>2. \A k \in 1..(n + 1) : i # k => k \in 1..n /\ jobs'[k].fd # f
      BY <2>1, <2>3, <2>4
    <3> QED
      BY <3>1, <3>2, <2>2, <1>2, <1>b
  <2>5. CASE i \in 1..n
    <3>1. jobs'[i].fd = jobs[i].fd /\ jobs'[i].conn = jobs[i].conn
      BY <1>a, <2>5
    <3>2. \A k \in 1..(n + 1) : i # k => jobs[i].fd # jobs'[k].fd
      BY <2>1, <2>3, <2>5
    <3>3. /\ fdtab'[jobs[i].fd] = fdtab[jobs[i].fd]
          /\ client'[jobs[i].conn] = client[jobs[i].conn]
      BY <1>3, <1>b, <2>1, <2>5
    <3> QED
      BY <3>1, <3>2, <3>3, <2>1, <2>5, <1>2
  <2> QED
    BY <2>3, <2>4, <2>5
<1>6. HandlersOwn'
  BY <1>1, <1>2, <1>a, <1>3, <1>4 DEF n, HandlersOwn
<1>7. DescriptorsHeld'
  <2>1. ASSUME NEW g \in Fds, fdtab'[g] # Nobody
        PROVE  \/ \E i \in 1..Len(jobs') : jobs'[i].fd = g
               \/ \E v \in Workers : Serves(v)' /\ sock'[v] = g
    <3>1. CASE g = f
      <4>1. n + 1 \in 1..Len(jobs') /\ jobs'[n + 1].fd = f
        BY <1>a, <1>3
      <4> QED
        BY <3>1, <4>1
    <3>2. CASE g # f
      <4>1. fdtab[g] # Nobody
        BY <2>1, <3>2, <1>2
      <4>2. \/ \E i \in 1..n : jobs[i].fd = g
            \/ \E v \in Workers : Serves(v) /\ sock[v] = g
        BY <4>1 DEF DescriptorsHeld, n
      <4>3. \A i \in 1..n : i \in 1..Len(jobs') /\ jobs'[i] = jobs[i]
        BY <1>a
      <4> QED
        BY <4>2, <4>3, <1>2
    <3> QED
      BY <3>1, <3>2
  <2>2. \A g, h \in Fds : g # h /\ fdtab'[g] # Nobody => fdtab'[g] # fdtab'[h]
    BY <1>1, <1>2, <1>4 DEF DescriptorsHeld
  <2> QED
    BY <2>1, <2>2 DEF DescriptorsHeld
<1>8. ResponsesWhole'
  BY <1>1, <1>2, <1>a, <1>3, <1>4 DEF n, ResponsesWhole
<1>9. NothingFreed'
  BY <1>1, <1>2, <1>a, <1>3, <1>4 DEF n, NothingFreed
<1> QED
  BY <1>5, <1>6, <1>7, <1>8, <1>9

\* The job becomes a handler.
LEMMA BeginOwn ==
    ASSUME Own, TypeOK', ScanInv', Peaceful', NEW w \in Workers, Begin(w)
    PROVE  (JobsOwn /\ HandlersOwn /\ DescriptorsHeld /\ ResponsesWhole /\ NothingFreed)'
<1>t. OwnTypes
  BY OwnTyped
<1> USE <1>t, Bounds DEF Own, OwnTypes, Serves, Unread
<1> DEFINE J == [fd : Fds, conn : Conns]
<1>1. /\ Len(jobs) \in Nat \ {0} /\ Len(jobs') = Len(jobs) - 1
      /\ Head(jobs) = jobs[1] /\ jobs[1] \in J
      /\ \A i \in 1..Len(jobs') : i + 1 \in 1..Len(jobs) /\ jobs'[i] = jobs[i + 1]
  <2>1. jobs \in Seq(J) /\ jobs # <<>> /\ jobs' = Tail(jobs)
    BY DEF Begin, TypeOK
  <2> HIDE DEF J
  <2> QED
    BY <2>1, TailFacts
<1>2. /\ pc[w] = "idle" /\ pc' = [pc EXCEPT ![w] = "scan"]
      /\ sock' = [sock EXCEPT ![w] = jobs[1].fd]
      /\ owner' = [owner EXCEPT ![w] = jobs[1].conn]
      /\ UNCHANGED <<written, fdtab, received, fin, client, freed>>
  BY <1>1 DEF Begin, buffers, sockets, clients
<1>3. written[w] = 0 /\ received[jobs[1].conn] = Copies(0, jobs[1].conn)
  BY <1>1, <1>2, NoCopies DEF BusyInv, JobsOwn, ResponsesWhole
<1>4. /\ \A v \in Workers : Serves(v)' <=> Serves(v) \/ v = w
      /\ \A v \in Workers \ {w} : sock'[v] = sock[v]
      /\ sock'[w] = jobs[1].fd /\ 1 \in 1..Len(jobs)
  BY <1>1, <1>2
<1>5. JobsOwn'
  <2> SUFFICES ASSUME NEW i \in 1..Len(jobs')
               PROVE  /\ fdtab[jobs'[i].fd] = jobs'[i].conn
                      /\ client[jobs'[i].conn] # "away" /\ Unread(jobs'[i].conn)
                      /\ \A k \in 1..Len(jobs') : i # k => jobs'[i].fd # jobs'[k].fd
                      /\ \A v \in Workers : Serves(v)' => sock'[v] # jobs'[i].fd
    BY <1>2 DEF JobsOwn
  <2>1. jobs'[i] = jobs[i + 1] /\ i + 1 \in 1..Len(jobs) /\ i + 1 # 1
    BY <1>1
  <2>2. \A k \in 1..Len(jobs') :
            /\ jobs'[k] = jobs[k + 1] /\ k + 1 \in 1..Len(jobs)
            /\ i # k => i + 1 # k + 1
    BY <1>1
  <2>3. \A k \in 1..Len(jobs) : i + 1 # k => jobs[i + 1].fd # jobs[k].fd
    BY <2>1 DEF JobsOwn
  <2>4. \A v \in Workers : Serves(v)' => sock'[v] # jobs[i + 1].fd
    BY <2>1, <2>3, <1>4 DEF JobsOwn
  <2>5. /\ fdtab[jobs[i + 1].fd] = jobs[i + 1].conn
        /\ client[jobs[i + 1].conn] # "away" /\ Unread(jobs[i + 1].conn)
    BY <2>1 DEF JobsOwn
  <2> QED
    BY <2>1, <2>2, <2>3, <2>4, <2>5
<1>6. HandlersOwn'
  BY <1>1, <1>2, <1>3, <1>4 DEF JobsOwn, HandlersOwn, ResponsesWhole
<1>7. DescriptorsHeld'
  <2>1. ASSUME NEW f \in Fds, fdtab[f] # Nobody
        PROVE  \/ \E i \in 1..Len(jobs') : jobs'[i].fd = f
               \/ \E v \in Workers : Serves(v)' /\ sock'[v] = f
    <3>1. CASE \E v \in Workers : Serves(v) /\ sock[v] = f
      BY <3>1, <1>2, <1>4
    <3>2. CASE \E i \in 1..Len(jobs) : jobs[i].fd = f
      <4>1. PICK i \in 1..Len(jobs) : jobs[i].fd = f
        BY <3>2
      <4>2. CASE i = 1
        BY <4>1, <4>2, <1>4
      <4>3. CASE i # 1
        <5>1. i - 1 \in 1..Len(jobs') /\ jobs'[i - 1] = jobs[i]
          BY <1>1, <4>3
        <5> QED
          BY <4>1, <5>1
      <4> QED
        BY <4>2, <4>3
    <3> QED
      BY <2>1, <3>1, <3>2 DEF DescriptorsHeld
  <2> QED
    BY <2>1, <1>2 DEF DescriptorsHeld
<1>8. ResponsesWhole'
  BY <1>1, <1>2, <1>3, <1>4 DEF ResponsesWhole
<1>9. NothingFreed'
  BY <1>1, <1>2, <1>3, <1>4 DEF NothingFreed
<1> QED
  BY <1>5, <1>6, <1>7, <1>8, <1>9

\* Looking for a buffer, parsing and producing the response move the handler only.
LEMMA ClaimOwn ==
    ASSUME Own, TypeOK', ScanInv', Peaceful', NEW w \in Workers,
           Claim(w) \/ Respond(w)
    PROVE  (JobsOwn /\ HandlersOwn /\ DescriptorsHeld /\ ResponsesWhole /\ NothingFreed)'
<1>t. OwnTypes
  BY OwnTyped
<1> USE <1>t, Bounds DEF Own, OwnTypes, Serves, Unread
<1>1. /\ \/ pc[w] = "scan" /\ pc'[w] \in {"scan", "read"}
         \/ pc[w] = "parse" /\ pc'[w] = "send"
      /\ pc' = [pc EXCEPT ![w] = pc'[w]]
      /\ UNCHANGED <<sock, owner, written, fdtab, received, fin, client, jobs, freed>>
  BY DEF Claim, Respond, buffers, sockets, clients, ScanInv
<1>2. \A v \in Workers : Serves(v)' <=> Serves(v)
  BY <1>1
<1>5. JobsOwn'
  BY <1>1, <1>2 DEF JobsOwn
<1>6. HandlersOwn'
  BY <1>1, <1>2 DEF HandlersOwn
<1>7. DescriptorsHeld'
  BY <1>1, <1>2 DEF DescriptorsHeld
<1>8. ResponsesWhole'
  BY <1>1, <1>2 DEF ResponsesWhole
<1>9. NothingFreed'
  BY <1>1, <1>2 DEF NothingFreed
<1> QED
  BY <1>5, <1>6, <1>7, <1>8, <1>9

\* What a handler reads is the request of its own client.
LEMMA ReadOwn ==
    ASSUME Own, TypeOK', ScanInv', Peaceful', NEW w \in Workers, Read(w)
    PROVE  (JobsOwn /\ HandlersOwn /\ DescriptorsHeld /\ ResponsesWhole /\ NothingFreed)'
<1>t. OwnTypes
  BY OwnTyped
<1> USE <1>t, Bounds DEF Own, OwnTypes, Serves, Unread
<1>1. /\ Serves(w) /\ pc[w] = "read" /\ owner[w] \in Conns /\ Peer(w) = owner[w]
      /\ sock[w] \in Fds /\ fdtab[sock[w]] = owner[w]
  BY HandlerHas DEF Read, Peer
<1>2. /\ pc' = [pc EXCEPT ![w] = "parse"]
      /\ \E r : client' = [client EXCEPT ![owner[w]] = r] /\ r \in {"served", "disconnected"}
      /\ UNCHANGED <<sock, owner, written, fdtab, received, fin, jobs, freed>>
  BY <1>1 DEF Read, sockets
<1>3. client' = [client EXCEPT ![owner[w]] = "served"]
  BY <1>1, <1>2 DEF Peaceful
<1>4. /\ \A i \in 1..Len(jobs) : jobs[i].conn # owner[w]
      /\ \A v \in Workers \ {w} : Serves(v) => owner[v] # owner[w]
  BY <1>1 DEF JobsOwn, HandlersOwn, DescriptorsHeld, BusyInv
<1>5. JobsOwn'
  BY <1>1, <1>2, <1>3, <1>4 DEF JobsOwn
<1>6. HandlersOwn'
  BY <1>1, <1>2, <1>3, <1>4 DEF HandlersOwn
<1>7. DescriptorsHeld'
  BY <1>1, <1>2, <1>3, <1>4 DEF DescriptorsHeld
<1>8. ResponsesWhole'
  BY <1>1, <1>2, <1>3, <1>4 DEF ResponsesWhole
<1>9. NothingFreed'
  BY <1>1, <1>2, <1>3, <1>4 DEF NothingFreed
<1> QED
  BY <1>5, <1>6, <1>7, <1>8, <1>9

\* What a handler writes is received on its own connection.
LEMMA WriteOwn ==
    ASSUME Own, TypeOK', ScanInv', Peaceful', NEW w \in Workers, Write(w)
    PROVE  (JobsOwn /\ HandlersOwn /\ DescriptorsHeld /\ ResponsesWhole /\ NothingFreed)'
<1>t. OwnTypes
  BY OwnTyped
<1> USE <1>t, Bounds DEF Own, OwnTypes, Serves, Unread
<1>1. /\ Serves(w) /\ pc[w] = "send" /\ owner[w] \in Conns /\ Peer(w) = owner[w]
      /\ sock[w] \in Fds /\ fdtab[sock[w]] = owner[w] /\ owner[w] \notin fin
      /\ received[owner[w]] = Copies(written[w], owner[w]) /\ ~Unread(owner[w])
  BY HandlerHas DEF Write, Peer
<1>2. PICK n \in 1..(Chunks - written[w]) :
          /\ written' = [written EXCEPT ![w] = @ + n]
          /\ received' = [received EXCEPT ![owner[w]] = @ \o Copies(n, owner[w])]
          /\ pc' = [pc EXCEPT ![w] = IF written[w] + n = Chunks THEN "shutdown" ELSE "send"]
  BY <1>1 DEF Write, Copies
<1>a. UNCHANGED <<sock, owner, fdtab, fin, client, jobs, freed>>
  BY DEF Write, buffers, clients
<1>3. received'[owner[w]] = Copies(written'[w], owner[w])
  <2>1. /\ received'[owner[w]] = Copies(written[w], owner[w]) \o Copies(n, owner[w])
        /\ written'[w] = written[w] + n /\ written[w] \in Nat /\ n \in Nat
    BY <1>1, <1>2
  <2> HIDE <1>t DEF Own, OwnTypes
  <2>2. Copies(written[w], owner[w]) \o Copies(n, owner[w]) = Copies(written[w] + n, owner[w])
    BY <2>1, CopiesConcat
  <2> QED
    BY <2>1, <2>2
<1>4. /\ \A v \in Workers \ {w} : Serves(v) => owner[v] # owner[w]
      /\ \A v \in Workers \ {w} : pc'[v] = pc[v] /\ written'[v] = written[v]
      /\ \A c \in Conns : c # owner[w] => received'[c] = received[c]
      /\ pc'[w] \in {"shutdown", "send"} /\ (pc'[w] = "shutdown" => written'[w] = Chunks)
      /\ \A v \in Workers : Serves(v)' <=> Serves(v)
  <2>1. \A v \in Workers \ {w} : Serves(v) => owner[v] # owner[w]
    BY <1>1 DEF HandlersOwn, DescriptorsHeld
  <2>2. /\ \A v \in Workers \ {w} : pc'[v] = pc[v] /\ written'[v] = written[v]
        /\ \A c \in Conns : c # owner[w] => received'[c] = received[c]
    BY <1>1, <1>2
  <2>3. pc'[w] \in {"shutdown", "send"} /\ (pc'[w] = "shutdown" => written'[w] = Chunks)
    <3>1. written'[w] = written[w] + n
      BY <1>2
    <3>2. pc'[w] = IF written[w] + n = Chunks THEN "shutdown" ELSE "send"
      BY <1>2
    <3> QED
      BY <3>1, <3>2
  <2> QED
    BY <1>1, <2>1, <2>2, <2>3
<1>5. JobsOwn'
  BY <1>1, <1>3, <1>4, <1>a DEF JobsOwn, HandlersOwn
<1>6. HandlersOwn'
  BY <1>1, <1>3, <1>4, <1>a DEF HandlersOwn
<1>7. DescriptorsHeld'
  BY <1>1, <1>3, <1>4, <1>a DEF DescriptorsHeld
<1>8. ResponsesWhole'
  BY <1>1, <1>3, <1>4, <1>a DEF ResponsesWhole
<1>9. NothingFreed'
  BY <1>1, <1>3, <1>4, <1>a DEF NothingFreed
<1> QED
  BY <1>5, <1>6, <1>7, <1>8, <1>9

\* A connection is shut down once everything was written.
LEMMA ShutdownOwn ==
    ASSUME Own, TypeOK', ScanInv', Peaceful', NEW w \in Workers, Shutdown(w)
    PROVE  (JobsOwn /\ HandlersOwn /\ DescriptorsHeld /\ ResponsesWhole /\ NothingFreed)'
<1>t. OwnTypes
  BY OwnTyped
<1> USE <1>t, Bounds DEF Own, OwnTypes, Serves, Unread
<1>1. /\ Serves(w) /\ pc[w] = "shutdown" /\ owner[w] \in Conns /\ Peer(w) = owner[w]
      /\ sock[w] \in Fds /\ fdtab[sock[w]] = owner[w]
      /\ received[owner[w]] = Copies(Chunks, owner[w]) /\ ~Unread(owner[w])
  BY HandlerHas DEF Shutdown, Peer
<1>2. /\ fin' = fin \cup {owner[w]} /\ pc' = [pc EXCEPT ![w] = "close"]
      /\ UNCHANGED <<sock, owner, written, fdtab, received, client, jobs, freed>>
  BY <1>1 DEF Shutdown, buffers, clients
<1>3. \A v \in Workers \ {w} : Serves(v) => owner[v] # owner[w]
  BY <1>1 DEF HandlersOwn, DescriptorsHeld, BusyInv
<1>5. JobsOwn'
  BY <1>1, <1>2, <1>3 DEF JobsOwn
<1>6. HandlersOwn'
  BY <1>1, <1>2, <1>3 DEF HandlersOwn
<1>7. DescriptorsHeld'
  BY <1>1, <1>2, <1>3 DEF DescriptorsHeld
<1>8. ResponsesWhole'
  BY <1>1, <1>2, <1>3 DEF ResponsesWhole
<1>9. NothingFreed'
  BY <1>1, <1>2, <1>3 DEF NothingFreed
<1> QED
  BY <1>5, <1>6, <1>7, <1>8, <1>9

\* Closed is the own descriptor.
LEMMA CloseOwn ==
    ASSUME Own, TypeOK', ScanInv', Peaceful', NEW w \in Workers, Close(w)
    PROVE  (JobsOwn /\ HandlersOwn /\ DescriptorsHeld /\ ResponsesWhole /\ NothingFreed)'
<1>t. OwnTypes
  BY OwnTyped
<1> USE <1>t, Bounds DEF Own, OwnTypes, Serves, Unread
<1>1. /\ Serves(w) /\ pc[w] = "close" /\ sock[w] \in Fds /\ fdtab[sock[w]] = owner[w]
  BY HandlerHas DEF Close, Peer
<1>2. /\ fdtab' = [fdtab EXCEPT ![sock[w]] = Nobody] /\ pc' = [pc EXCEPT ![w] = "release"]
      /\ UNCHANGED <<sock, owner, written, received, fin, client, jobs, freed>>
  BY DEF Close, buffers, clients
<1>3. /\ \A i \in 1..Len(jobs) : jobs[i].fd # sock[w]
      /\ \A v \in Workers \ {w} : Serves(v) => sock[v] # sock[w] /\ sock[v] \in Fds
  BY <1>1 DEF JobsOwn, HandlersOwn, BusyInv
<1>5. JobsOwn'
  BY <1>1, <1>2, <1>3 DEF JobsOwn
<1>6. HandlersOwn'
  BY <1>1, <1>2, <1>3 DEF HandlersOwn
<1>7. DescriptorsHeld'
  BY <1>1, <1>2, <1>3 DEF DescriptorsHeld
<1>8. ResponsesWhole'
  BY <1>1, <1>2, <1>3 DEF ResponsesWhole
<1>9. NothingFreed'
  BY <1>1, <1>2, <1>3 DEF NothingFreed
<1> QED
  BY <1>5, <1>6, <1>7, <1>8, <1>9

\* A worker that is done has nothing.
LEMMA ReleaseOwn ==
    ASSUME Own, TypeOK', ScanInv', Peaceful', NEW w \in Workers, Release(w)
    PROVE  (JobsOwn /\ HandlersOwn /\ DescriptorsHeld /\ ResponsesWhole /\ NothingFreed)'
<1>t. OwnTypes
  BY OwnTyped
<1> USE <1>t, Bounds DEF Own, OwnTypes, Serves, Unread
<1>1. /\ pc[w] = "release" /\ pc' = [pc EXCEPT ![w] = "idle"]
      /\ \A v \in Workers \ {w} :
             sock'[v] = sock[v] /\ owner'[v] = owner[v] /\ written'[v] = written[v]
      /\ UNCHANGED <<fdtab, received, fin, client, jobs, freed>>
  BY DEF Release, Cleared, sockets, clients
<1>2. \A v \in Workers :
          /\ Serves(v)' <=> Serves(v)
          /\ Serves(v) => sock'[v] = sock[v]
  BY <1>1
<1>5. JobsOwn'
  BY <1>1, <1>2 DEF JobsOwn
<1>6. HandlersOwn'
  BY <1>1, <1>2 DEF HandlersOwn
<1>7. DescriptorsHeld'
  BY <1>1, <1>2 DEF JobsOwn, HandlersOwn, DescriptorsHeld
<1>8. ResponsesWhole'
  BY <1>1, <1>2 DEF ResponsesWhole
<1>9. NothingFreed'
  BY <1>1, <1>2 DEF NothingFreed
<1> QED
  BY <1>5, <1>6, <1>7, <1>8, <1>9

\* In peace no read finds the connection closed or reset, and no write fails.
LEMMA NoError ==
    ASSUME Own, NEW w \in Workers
    PROVE  ~ReadEof(w) /\ ~ReadError(w) /\ ~WriteError(w) /\ ~WriteToGone(w)
<1>1. CASE pc[w] \in {"read", "send"}
  <2>1. /\ Peer(w) \in Conns /\ client[Peer(w)] \in {"connected", "waiting", "served", "quit"}
        /\ pc[w] = "read" <=> Unread(Peer(w))
        /\ Peer(w) \notin fin
    BY <1>1, HandlerHas DEF Serves
  <2> QED
    BY <2>1, Bounds DEF ReadEof, ReadError, WriteError, WriteToGone, Unread, Here
<1> QED
  BY <1>1 DEF ReadEof, ReadError, WriteError, WriteToGone

-----------------------------------------------------------------------------
(* The invariant, and what follows from it *)

\* Initially nobody has anything.
LEMMA InitOwn == Init => OwnInv
<1> SUFFICES ASSUME Init PROVE OwnInv
  OBVIOUS
<1>1. TypeOK /\ ScanInv
  BY InitType, InitScan
<1>2. BusyInv
  BY DEF Init, BusyInv
<1>3. JobsOwn /\ HandlersOwn
  BY DEF Init, JobsOwn, HandlersOwn, Serves
<1>4. DescriptorsHeld /\ ResponsesWhole /\ NothingFreed
  BY DEF Init, DescriptorsHeld, ResponsesWhole, NothingFreed
<1> QED
  BY <1>1, <1>2, <1>3, <1>4 DEF OwnInv

\* Every step keeps the invariant.
LEMMA NextOwn == OwnInv /\ [Next]_vars => OwnInv'
<1> SUFFICES ASSUME OwnInv, [Next]_vars PROVE OwnInv'
  OBVIOUS
<1>1. ScanInv' /\ BusyInv'
  BY NextScan, BusyKept DEF OwnInv
<1>2. CASE UNCHANGED vars
  BY <1>2 DEF vars, local, buffers, sockets, clients, OwnInv, TypeOK, ScanInv, BusyInv,
              Peaceful, JobsOwn, HandlersOwn, DescriptorsHeld, ResponsesWhole,
              NothingFreed, Serves, Unread, SlotExclusive, HoldsSlot, Ahead
<1>3. ASSUME NEW w \in Workers, WorkerStep(w) PROVE OwnInv'
  <2>1. TypeOK'
    BY <1>1, <1>3, WorkerType DEF OwnInv
  <2> SUFFICES ASSUME Peaceful'
               PROVE  (/\ JobsOwn /\ HandlersOwn /\ DescriptorsHeld
                       /\ ResponsesWhole /\ NothingFreed)'
    BY <1>1, <2>1 DEF OwnInv
  <2>2. Own
    BY NoPeaceAgain DEF OwnInv, Own
  <2> QED
    BY <1>1, <1>3, <2>1, <2>2, BeginOwn, ClaimOwn, ReadOwn, WriteOwn, ShutdownOwn, CloseOwn,
       ReleaseOwn, NoError DEF WorkerStep
<1>4. ASSUME NEW c \in Conns, Accept(c) \/ Send(c) \/ Misbehave(c) PROVE OwnInv'
  <2>1. TypeOK'
    BY <1>4, ClientType DEF OwnInv
  <2> SUFFICES ASSUME Peaceful'
               PROVE  (/\ JobsOwn /\ HandlersOwn /\ DescriptorsHeld
                       /\ ResponsesWhole /\ NothingFreed)'
    BY <1>1, <2>1 DEF OwnInv
  <2>2. Own
    BY NoPeaceAgain DEF OwnInv, Own
  <2> QED
    BY <1>1, <1>4, <2>1, <2>2, AcceptOwn, ClientOwn
<1> QED
  BY <1>2, <1>3, <1>4 DEF Next, Done

\* Who has which descriptor and buffer, whatever the clients do.
THEOREM OwnInvariance == SafetySpec => []OwnInv
<1> QED
  BY InitOwn, NextOwn, PTL DEF SafetySpec

\* Every variable of the handlers has its type, in every reachable state.
THEOREM HandlerTypeCorrect == SafetySpec => []TypeOK
<1>1. OwnInv => TypeOK
  BY DEF OwnInv
<1> QED
  BY <1>1, OwnInvariance, PTL

\* A buffer is freed only after a client reset a connection or disconnected.
THEOREM NoDanglingInPeace == SafetySpec => []DanglingOnlyAfterMisbehaviour
<1>1. OwnInv => DanglingOnlyAfterMisbehaviour
  BY DEF OwnInv, Peaceful, NothingFreed, DanglingOnlyAfterMisbehaviour
<1> QED
  BY <1>1, OwnInvariance, PTL

\* A set of at most one element has as many as it should.
LEMMA OneAtMost ==
    ASSUME NEW S, \A x, y \in S : x = y
    PROVE  Cardinality(S) = IF S = {} THEN 0 ELSE 1
<1>1. CASE S = {}
  BY <1>1, FS_EmptySet
<1>2. CASE S # {}
  <2>1. PICK x \in S : TRUE
    BY <1>2
  <2>2. S = {x}
    BY <2>1
  <2>3. Cardinality({x}) = 1
    BY FS_Singleton
  <2> QED
    BY <1>2, <2>2, <2>3
<1> QED
  BY <1>1, <1>2

\* In peace every open descriptor is with one job or one handler.
LEMMA PeaceOwned == Own => DescriptorOwned
<1> SUFFICES ASSUME Own, NEW f \in Fds,
                    NEW waiting, waiting = {i \in 1..Len(jobs) : jobs[i].fd = f},
                    NEW serving, serving = {w \in Workers : sock[w] = f /\ pc[w] # "release"}
             PROVE  /\ Cardinality(waiting) + Cardinality(serving)
                          = IF fdtab[f] = Nobody THEN 0 ELSE 1
                    /\ \A i \in waiting : jobs[i].conn = fdtab[f]
                    /\ \A w \in serving : owner[w] = fdtab[f]
  BY DEF DescriptorOwned
<1>1. OwnTypes
  BY OwnTyped
<1>2. serving = {w \in Workers : sock[w] = f /\ Serves(w)}
  <2>1. f # Nobody
    BY Bounds
  <2> QED
    BY <2>1 DEF Own, BusyInv, Serves
<1>3. /\ \A i \in waiting : jobs[i].conn = fdtab[f]
      /\ \A w \in serving : owner[w] = fdtab[f]
      /\ \A i, j \in waiting : i = j
      /\ \A v, w \in serving : v = w
      /\ \A i \in waiting, w \in serving : FALSE
  BY <1>2 DEF Own, JobsOwn, HandlersOwn
<1>4. fdtab[f] # Nobody => waiting # {} \/ serving # {}
  BY <1>2 DEF Own, DescriptorsHeld
<1>5. fdtab[f] = Nobody => waiting = {} /\ serving = {}
  BY <1>1, <1>2, <1>3, Bounds DEF OwnTypes
<1>6. /\ Cardinality(waiting) = IF waiting = {} THEN 0 ELSE 1
      /\ Cardinality(serving) = IF serving = {} THEN 0 ELSE 1
  BY <1>3, OneAtMost
<1>7. waiting = {} \/ serving = {}
  BY <1>3
<1> QED
  BY <1>3, <1>4, <1>5, <1>6, <1>7

\* In peace a connection that was shut down has got its whole response.
LEMMA PeaceComplete == Own => ResponseComplete
  BY DEF Own, TypeOK, ResponsesWhole, ResponseComplete, Copies

\* As long as nobody has reset a connection or disconnected, whatever the other
\* clients do, descriptors are owned and responses complete.
THEOREM PeaceKept == SafetySpec => [](Peaceful => DescriptorOwned /\ ResponseComplete)
<1>1. OwnInv => (Peaceful => DescriptorOwned /\ ResponseComplete)
  BY PeaceOwned, PeaceComplete DEF OwnInv, Own
<1> QED
  BY <1>1, OwnInvariance, PTL

\* Clients that only send and wait keep the peace.
AllStay == \A c \in Conns : client[c] \in {"away", "connected", "waiting", "served"}

\* A read cannot find such a client gone.
LEMMA StayStep ==
    ASSUME Impolite = {}
    PROVE  OwnInv /\ AllStay /\ [Next]_vars => AllStay'
<1> SUFFICES ASSUME OwnInv, AllStay, [Next]_vars PROVE AllStay'
  OBVIOUS
<1> USE DEF OwnInv, TypeOK, AllStay
<1>1. ASSUME NEW c \in Conns, Accept(c) \/ Send(c) \/ Misbehave(c) PROVE AllStay'
  BY <1>1 DEF Accept, Send, Misbehave
<1>2. ASSUME NEW w \in Workers, WorkerStep(w) PROVE AllStay'
  <2>1. CASE Read(w)
    <3>1. Peer(w) \in Conns
      BY <2>1 DEF Read, Peer, BusyInv
    <3>2. client' = [client EXCEPT ![Peer(w)] = "served"]
      BY <2>1, <3>1 DEF Read
    <3> QED
      BY <3>1, <3>2
  <2> QED
    BY <1>2, <2>1 DEF WorkerStep, Begin, Claim, ReadEof, ReadError, Respond, Write,
                      WriteError, WriteToGone, Shutdown, Close, Release, clients
<1>3. CASE UNCHANGED vars
  BY <1>3 DEF vars, clients
<1> QED
  BY <1>1, <1>2, <1>3 DEF Next, Done

\* Without impolite clients the peace is never broken.
LEMMA AlwaysPeaceful == ASSUME Impolite = {} PROVE SafetySpec => []Peaceful
<1>1. Init => AllStay
  BY DEF Init, AllStay
<1>2. OwnInv /\ AllStay /\ [Next]_vars => AllStay'
  BY StayStep
<1>3. AllStay => Peaceful
  BY DEF AllStay, Peaceful
<1> QED
  BY <1>1, <1>2, <1>3, OwnInvariance, PTL DEF SafetySpec

\* With clients that send and wait, every open descriptor is with one job or one
\* handler, which has its own connection.
THEOREM DescriptorsOwned == ASSUME Impolite = {} PROVE SafetySpec => []DescriptorOwned
<1> QED
  BY PeaceKept, AlwaysPeaceful, PTL

\* And every connection that is shut down has got its own response, all of it.
THEOREM ResponsesComplete == ASSUME Impolite = {} PROVE SafetySpec => []ResponseComplete
<1> QED
  BY PeaceKept, AlwaysPeaceful, PTL
=============================================================================
