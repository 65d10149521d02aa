-------------------------- MODULE ThreadPoolProofs --------------------------
(***************************************************************************)
(* Proofs about ThreadPool for any number of workers, jobs and spurious    *)
(* wake-ups: the inductive invariant, the safety properties that follow    *)
(* from it, and that the pool implements JobService.                       *)
(***************************************************************************)
EXTENDS ThreadPool, FiniteSetTheorems, TLAPS

\* A signal moves at most one thread, and only one that waits.
LEMMA SignalledFacts ==
    ASSUME NEW p \in [Threads -> WorkerPc \cup MainPc], NEW q \in Signalled(p)
    PROVE  /\ q \in [Threads -> WorkerPc \cup MainPc]
           /\ \A t \in Threads : q[t] = p[t] \/ (pc[t] = "wait" /\ q[t] = Woken(t))
<1>1. CASE Waiters = {}
  BY <1>1 DEF Signalled
<1>2. CASE Waiters # {}
  <2>1. PICK t \in Waiters : q = [p EXCEPT ![t] = Woken(t)]
    BY <1>2 DEF Signalled
  <2>2. t \in Threads /\ pc[t] = "wait" /\ Woken(t) \in WorkerPc \cup MainPc
    BY DEF Waiters, Woken, WorkerPc, MainPc
  <2> QED
    BY <2>1, <2>2
<1> QED
  BY <1>1, <1>2

\* What taking the front of a queue of jobs leaves.
LEMMA TailFacts ==
    ASSUME NEW q \in Seq(Nat), q # <<>>
    PROVE  /\ Len(q) \in Nat \ {0}
           /\ Head(q) = q[1]
           /\ Tail(q) \in Seq(Nat)
           /\ Len(Tail(q)) = Len(q) - 1
           /\ \A i \in 1..Len(Tail(q)) : Tail(q)[i] = q[i + 1]
  OBVIOUS

\* Initially nothing is queued, running or finished.
LEMMA InitInv == Init => IndInv
<1> SUFFICES ASSUME Init PROVE IndInv
  OBVIOUS
<1> USE PoolAssumption DEF Init
<1>1. TypeOK
  <2>1. /\ pc \in [Threads -> WorkerPc \cup MainPc]
        /\ pc[Main] \in MainPc
        /\ \A w \in Workers : pc[w] \in WorkerPc
    BY DEF Threads, WorkerPc, MainPc
  <2>2. queue \in Seq(Nat) /\ finished \in SUBSET Nat
    OBVIOUS
  <2>3. job \in [Workers -> Nat]
    BY DEF NoJob
  <2> QED
    BY <2>1, <2>2, <2>3 DEF TypeOK
<1>2. LockInv
  BY DEF LockInv, Threads
<1>3. StopInv
  BY DEF StopInv, Threads
<1>4. DequeueFindsJob
  BY DEF DequeueFindsJob, Threads
<1>5. OrderInv
  BY DEF OrderInv, Threads, NoJob
<1> QED
  BY <1>1, <1>2, <1>3, <1>4, <1>5 DEF IndInv

\* Every step preserves the invariant.
LEMMA NextInv == IndInv /\ [Next]_vars => IndInv'
<1> SUFFICES ASSUME IndInv, [Next]_vars PROVE IndInv'
  OBVIOUS
<1> USE PoolAssumption DEF Threads, WorkerPc, MainPc, NoJob
<1>0. TypeOK /\ LockInv /\ StopInv /\ DequeueFindsJob /\ OrderInv
  BY DEF IndInv
<1>1. ASSUME NEW w \in Workers, Lock(w) PROVE IndInv'
  <2> USE <1>0, <1>1 DEF Lock
  <2>1. TypeOK'
    BY DEF TypeOK
  <2>2. LockInv'
    BY DEF TypeOK, LockInv
  <2>3. StopInv'
    BY DEF TypeOK, StopInv
  <2>4. DequeueFindsJob'
    BY DEF TypeOK, DequeueFindsJob
  <2>5. OrderInv'
    BY DEF TypeOK, OrderInv
  <2> QED
    BY <2>1, <2>2, <2>3, <2>4, <2>5 DEF IndInv
<1>2. ASSUME NEW w \in Workers, FindNothing(w) PROVE IndInv'
  <2> USE <1>0, <1>2 DEF FindNothing
  <2>1. TypeOK'
    BY DEF TypeOK
  <2>2. LockInv'
    BY DEF TypeOK, LockInv
  <2>3. StopInv'
    BY DEF TypeOK, StopInv
  <2>4. DequeueFindsJob'
    BY DEF TypeOK, DequeueFindsJob
  <2>5. OrderInv'
    BY DEF TypeOK, OrderInv
  <2> QED
    BY <2>1, <2>2, <2>3, <2>4, <2>5 DEF IndInv
<1>3. ASSUME NEW w \in Workers, Doze(w) PROVE IndInv'
  <2> USE <1>0, <1>3 DEF Doze
  <2>1. TypeOK'
    BY DEF TypeOK
  <2>2. LockInv'
    BY DEF TypeOK, LockInv
  <2>3. StopInv'
    BY DEF TypeOK, StopInv
  <2>4. DequeueFindsJob'
    BY DEF TypeOK, DequeueFindsJob
  <2>5. OrderInv'
    BY DEF TypeOK, OrderInv
  <2> QED
    BY <2>1, <2>2, <2>3, <2>4, <2>5 DEF IndInv
<1>4. ASSUME NEW w \in Workers, Exit(w) PROVE IndInv'
  <2> USE <1>0, <1>4 DEF Exit
  <2>1. TypeOK'
    BY DEF TypeOK
  <2>2. LockInv'
    BY DEF TypeOK, LockInv
  <2>3. StopInv'
    BY DEF TypeOK, StopInv
  <2>4. DequeueFindsJob'
    BY DEF TypeOK, DequeueFindsJob
  <2>5. OrderInv'
    BY DEF TypeOK, OrderInv
  <2> QED
    BY <2>1, <2>2, <2>3, <2>4, <2>5 DEF IndInv
<1>5. ASSUME NEW w \in Workers, FindJob(w) PROVE IndInv'
  <2> USE <1>0, <1>5 DEF FindJob
  <2>1. TypeOK'
    BY DEF TypeOK
  <2>2. LockInv'
    BY DEF TypeOK, LockInv
  <2>3. StopInv'
    BY DEF TypeOK, StopInv
  <2>4. DequeueFindsJob'
    BY DEF TypeOK, DequeueFindsJob
  <2>5. OrderInv'
    BY DEF TypeOK, OrderInv
  <2> QED
    BY <2>1, <2>2, <2>3, <2>4, <2>5 DEF IndInv
<1>6. ASSUME NEW w \in Workers, Dequeue(w) PROVE IndInv'
  <2> USE <1>0, <1>6 DEF Dequeue
  <2>0. /\ Len(queue) \in Nat \ {0}
        /\ Head(queue) = queue[1]
        /\ Len(queue') = Len(queue) - 1
        /\ queue' \in Seq(Nat)
        /\ \A i \in 1..Len(queue') : queue'[i] = queue[i + 1]
    BY TailFacts DEF TypeOK
  <2>1. TypeOK'
    BY <2>0 DEF TypeOK, Incremented
  <2>2. LockInv'
    BY DEF TypeOK, LockInv
  <2>3. StopInv'
    BY DEF TypeOK, StopInv, LockInv
  <2>4. DequeueFindsJob'
    BY DEF TypeOK, DequeueFindsJob, LockInv
  <2>5. OrderInv'
    <3> DEFINE j == submitted - Len(queue) + 1
    <3>0. /\ submitted \in Nat
          /\ Len(queue) <= submitted
          /\ queue[1] = submitted - Len(queue) + 1
          /\ job \in [Workers -> Nat]
          /\ finished \in SUBSET Nat
      BY <2>0 DEF TypeOK, OrderInv
    <3>1. /\ job' = [job EXCEPT ![w] = j]
          /\ submitted' - Len(queue') = j
          /\ j \in Nat \ {0}
          /\ submitted - Len(queue) = j - 1
          /\ j - 1 \in Nat
      <4>1. submitted' = submitted
        OBVIOUS
      <4>2. job' = [job EXCEPT ![w] = j]
        BY <2>0, <3>0
      <4>3. ASSUME NEW s \in Nat, NEW l \in Nat \ {0}, l <= s
            PROVE  /\ s - (l - 1) = s - l + 1
                   /\ s - l + 1 \in Nat \ {0}
                   /\ s - l = (s - l + 1) - 1
                   /\ (s - l + 1) - 1 \in Nat
        BY <4>3
      <4>4. /\ submitted - (Len(queue) - 1) = j
            /\ j \in Nat \ {0}
            /\ submitted - Len(queue) = j - 1
            /\ j - 1 \in Nat
        BY <2>0, <3>0, <4>3
      <4> QED
        BY <2>0, <4>1, <4>2, <4>4
    <3>a. /\ \A v \in Workers : job[v] <= j - 1 /\ job[v] \notin finished
          /\ \A k \in finished : 0 < k /\ k <= j - 1
          /\ finished' = finished
      BY <3>1 DEF OrderInv
    <3>2. Len(queue') <= submitted'
      BY <2>0 DEF TypeOK, OrderInv
    <3>3. \A i \in 1..Len(queue') : queue'[i] = submitted' - Len(queue') + i
      BY <2>0 DEF TypeOK, OrderInv
    <3>4. \A v \in Workers : job'[v] # NoJob <=> pc'[v] = "run"
      BY <3>1 DEF TypeOK, OrderInv
    <3>5. \A v \in Workers : job'[v] <= j /\ job'[v] \notin finished'
      <4> HIDE DEF j
      <4>1. j \notin finished
        BY <3>0, <3>1, <3>a
      <4> QED
        BY <3>0, <3>1, <3>a, <4>1
    <3>6. \A u, v \in Workers : u # v /\ job'[u] = job'[v] => job'[u] = NoJob
      <4> HIDE DEF j
      <4>1. \A u, v \in Workers : u # v /\ job[u] = job[v] => job[u] = NoJob
        BY DEF OrderInv
      <4> QED
        BY <3>0, <3>1, <3>a, <4>1
    <3>7. \A k \in finished' : 0 < k /\ k <= j
      <4> HIDE DEF j
      <4> QED
        BY <3>0, <3>1, <3>a
    <3>8. ASSUME ~stop', NEW k \in 1..j
          PROVE  k \in finished' \/ \E v \in Workers : job'[v] = k
      <4>1. CASE k = j
        BY <4>1, <3>1 DEF TypeOK
      <4>2. CASE k # j
        <5>1. k \in 1..(submitted - Len(queue))
          <6> HIDE DEF j
          <6> QED
            BY <4>2, <3>1
        <5>2. k \in finished \/ \E v \in Workers : job[v] = k
          BY <5>1, <3>8 DEF OrderInv
        <5>3. job[w] = NoJob
          BY DEF OrderInv
        <5> QED
          BY <5>1, <5>2, <5>3, <3>1 DEF TypeOK
      <4> QED
        BY <4>1, <4>2
    <3> HIDE DEF j
    <3> QED
      BY <3>1, <3>2, <3>3, <3>4, <3>5, <3>6, <3>7, <3>8 DEF OrderInv
  <2> QED
    BY <2>1, <2>2, <2>3, <2>4, <2>5 DEF IndInv
<1>7. ASSUME NEW w \in Workers, Return(w) PROVE IndInv'
  <2> USE <1>0, <1>7 DEF Return
  <2>1. TypeOK'
    BY DEF TypeOK
  <2>2. LockInv'
    BY DEF TypeOK, LockInv
  <2>3. StopInv'
    BY DEF TypeOK, StopInv
  <2>4. DequeueFindsJob'
    BY DEF TypeOK, DequeueFindsJob
  <2>5. OrderInv'
    <3>1. /\ job[w] \in Nat \ {0}
          /\ job' = [job EXCEPT ![w] = 0]
          /\ finished' = finished \cup {job[w]}
          /\ pc' = [pc EXCEPT ![w] = "finish"]
          /\ UNCHANGED <<queue, submitted, stop>>
      BY DEF TypeOK, OrderInv
    <3>2. \A k \in finished' : 0 < k /\ k <= submitted - Len(queue)
      BY <3>1 DEF TypeOK, OrderInv
    <3>3. \A v \in Workers : job'[v] <= submitted - Len(queue) /\ job'[v] \notin finished'
      BY <3>1, <3>2 DEF TypeOK, OrderInv
    <3>4. \A u, v \in Workers : u # v /\ job'[u] = job'[v] => job'[u] = NoJob
      BY <3>1 DEF TypeOK, OrderInv
    <3>5. ASSUME ~stop', NEW k \in 1..(submitted - Len(queue))
          PROVE  k \in finished' \/ \E v \in Workers : job'[v] = k
      <4>1. k \in finished \/ \E v \in Workers : job[v] = k
        BY <3>5, <3>1 DEF OrderInv
      <4> QED
        BY <4>1, <3>1 DEF TypeOK
    <3>6. \A v \in Workers : job'[v] # NoJob <=> pc'[v] = "run"
      BY <3>1 DEF TypeOK, OrderInv
    <3> QED
      BY <3>1, <3>2, <3>3, <3>4, <3>5, <3>6 DEF OrderInv
  <2> QED
    BY <2>1, <2>2, <2>3, <2>4, <2>5 DEF IndInv
<1>8. ASSUME NEW w \in Workers, Finish(w) PROVE IndInv'
  <2> USE <1>0, <1>8 DEF Finish
  <2>0. /\ pc' \in [Threads -> WorkerPc \cup MainPc]
        /\ pc'[w] = "top"
        /\ \A t \in Threads \ {w} :
              pc'[t] = pc[t] \/ (pc[t] = "wait" /\ pc'[t] = Woken(t))
    <3> DEFINE p == [pc EXCEPT ![w] = "top"]
    <3>1. p \in [Threads -> WorkerPc \cup MainPc]
      BY DEF TypeOK
    <3>2. pc' \in Signalled(p)
      OBVIOUS
    <3>3. /\ pc' \in [Threads -> WorkerPc \cup MainPc]
          /\ \A t \in Threads : pc'[t] = p[t] \/ (pc[t] = "wait" /\ pc'[t] = Woken(t))
      BY <3>1, <3>2, SignalledFacts
    <3> QED
      BY <3>3 DEF TypeOK, Woken
  <2>1. TypeOK'
    BY <2>0 DEF TypeOK, Decremented, Woken
  <2>2. LockInv'
    BY <2>0 DEF TypeOK, LockInv, Woken
  <2>3. StopInv'
    BY <2>0 DEF TypeOK, StopInv, Woken
  <2>4. DequeueFindsJob'
    BY <2>0 DEF TypeOK, DequeueFindsJob, Woken
  <2>5. OrderInv'
    <3>1. \A v \in Workers : pc'[v] = "run" <=> pc[v] = "run"
      BY <2>0 DEF TypeOK, Woken
    <3> QED
      BY <3>1 DEF OrderInv
  <2> QED
    BY <2>1, <2>2, <2>3, <2>4, <2>5 DEF IndInv
<1>9. ASSUME AddJob \/ Gate PROVE IndInv'
  <2>0. /\ pc[Main] \in {"accept", "gate"}
        /\ pc' = [pc EXCEPT ![Main] = pc'[Main]]
        /\ pc'[Main] \in {"gate", "wait", "enqueue"}
        /\ UNCHANGED <<lock, queue, active, stop, job, submitted, finished, spurious>>
    BY <1>9, <1>0 DEF AddJob, Gate, TypeOK
  <2> USE <1>0, <2>0
  <2>1. TypeOK'
    BY DEF TypeOK
  <2>2. LockInv'
    BY DEF TypeOK, LockInv
  <2>3. StopInv'
    BY DEF TypeOK, StopInv
  <2>4. DequeueFindsJob'
    BY DEF TypeOK, DequeueFindsJob
  <2>5. OrderInv'
    BY DEF TypeOK, OrderInv
  <2> QED
    BY <2>1, <2>2, <2>3, <2>4, <2>5 DEF IndInv
<1>10. ASSUME Enqueue PROVE IndInv'
  <2> USE <1>0, <1>10 DEF Enqueue
  <2>0. /\ Len(queue) \in Nat
        /\ Len(queue') = Len(queue) + 1
        /\ queue' \in Seq(Nat)
        /\ \A i \in 1..Len(queue) : queue'[i] = queue[i]
        /\ queue'[Len(queue) + 1] = submitted + 1
    BY DEF TypeOK
  <2>1. TypeOK'
    BY <2>0 DEF TypeOK
  <2>2. LockInv'
    BY DEF TypeOK, LockInv
  <2>3. StopInv'
    BY DEF TypeOK, StopInv
  <2>4. DequeueFindsJob'
    BY <2>0 DEF TypeOK, DequeueFindsJob
  <2>5. OrderInv'
    <3>1. submitted' - Len(queue') = submitted - Len(queue)
      BY <2>0 DEF TypeOK
    <3>2. ASSUME NEW i \in 1..Len(queue')
          PROVE  queue'[i] = submitted' - Len(queue') + i
      <4>1. submitted \in Nat /\ Len(queue) <= submitted
        BY DEF TypeOK, OrderInv
      <4>2. CASE i = Len(queue) + 1
        BY <4>1, <4>2, <3>1, <2>0
      <4>3. CASE i # Len(queue) + 1
        <5>1. i \in 1..Len(queue)
          BY <4>3, <2>0
        <5>2. queue'[i] = submitted - Len(queue) + i
          BY <5>1, <2>0 DEF OrderInv
        <5> QED
          BY <5>2, <3>1
      <4> QED
        BY <4>2, <4>3
    <3>3. Len(queue') <= submitted'
      BY <2>0 DEF TypeOK, OrderInv
    <3>4. \A v \in Workers : pc'[v] = pc[v]
      BY DEF TypeOK
    <3> QED
      BY <3>1, <3>2, <3>3, <3>4 DEF OrderInv
  <2> QED
    BY <2>1, <2>2, <2>3, <2>4, <2>5 DEF IndInv
<1>11. ASSUME SignalJob PROVE IndInv'
  <2> USE <1>0, <1>11 DEF SignalJob
  <2>0. /\ pc' \in [Threads -> WorkerPc \cup MainPc]
        /\ pc'[Main] = "accept"
        /\ \A t \in Workers :
              pc'[t] = pc[t] \/ (pc[t] = "wait" /\ pc'[t] = Woken(t))
    <3> DEFINE p == [pc EXCEPT ![Main] = "accept"]
    <3>1. p \in [Threads -> WorkerPc \cup MainPc]
      BY DEF TypeOK
    <3>2. pc' \in Signalled(p)
      OBVIOUS
    <3>3. /\ pc' \in [Threads -> WorkerPc \cup MainPc]
          /\ \A t \in Threads : pc'[t] = p[t] \/ (pc[t] = "wait" /\ pc'[t] = Woken(t))
      BY <3>1, <3>2, SignalledFacts
    <3> QED
      BY <3>3 DEF TypeOK, Woken
  <2>1. TypeOK'
    BY <2>0 DEF TypeOK, Woken
  <2>2. LockInv'
    BY <2>0 DEF TypeOK, LockInv, Woken
  <2>3. StopInv'
    BY <2>0 DEF TypeOK, StopInv, Woken
  <2>4. DequeueFindsJob'
    BY <2>0 DEF TypeOK, DequeueFindsJob, Woken
  <2>5. OrderInv'
    <3>1. \A v \in Workers : pc'[v] = "run" <=> pc[v] = "run"
      BY <2>0 DEF TypeOK, Woken
    <3> QED
      BY <3>1 DEF OrderInv
  <2> QED
    BY <2>1, <2>2, <2>3, <2>4, <2>5 DEF IndInv
<1>12. ASSUME Destroy PROVE IndInv'
  <2> USE <1>0, <1>12 DEF Destroy
  <2>0. /\ pc' \in [Threads -> WorkerPc \cup MainPc]
        /\ pc'[Main] = "join"
        /\ \A w \in Workers : pc'[w] = IF pc[w] = "wait" THEN "top" ELSE pc[w]
    BY DEF TypeOK, AllWoken, Waiters, Woken
  <2>1. TypeOK'
    BY <2>0 DEF TypeOK
  <2>2. LockInv'
    BY <2>0 DEF TypeOK, LockInv
  <2>3. StopInv'
    BY <2>0 DEF TypeOK, StopInv, LockInv
  <2>4. DequeueFindsJob'
    BY <2>0 DEF TypeOK, DequeueFindsJob
  <2>5. OrderInv'
    <3>1. \A v \in Workers : pc'[v] = "run" <=> pc[v] = "run"
      BY <2>0
    <3> QED
      BY <3>1 DEF OrderInv
  <2> QED
    BY <2>1, <2>2, <2>3, <2>4, <2>5 DEF IndInv
<1>13. ASSUME Join PROVE IndInv'
  <2> USE <1>0, <1>13 DEF Join
  <2>1. TypeOK'
    BY DEF TypeOK
  <2>2. LockInv'
    BY DEF TypeOK, LockInv
  <2>3. StopInv'
    BY DEF TypeOK, StopInv
  <2>4. DequeueFindsJob'
    BY DEF TypeOK, DequeueFindsJob
  <2>5. OrderInv'
    BY DEF TypeOK, OrderInv
  <2> QED
    BY <2>1, <2>2, <2>3, <2>4, <2>5 DEF IndInv
<1>14. ASSUME Drain PROVE IndInv'
  <2> USE <1>0, <1>14 DEF Drain
  <2>0. stop /\ \A w \in Workers : pc[w] = "exited" /\ job[w] = NoJob
    BY DEF StopInv, OrderInv
  <2>1. CASE queue = <<>>
    <3> USE <2>1
    <3>1. TypeOK'
      BY DEF TypeOK
    <3>2. LockInv'
      BY DEF TypeOK, LockInv
    <3>3. StopInv'
      BY DEF TypeOK, StopInv
    <3>4. DequeueFindsJob'
      BY DEF TypeOK, DequeueFindsJob
    <3>5. OrderInv'
      BY DEF TypeOK, OrderInv
    <3> QED
      BY <3>1, <3>2, <3>3, <3>4, <3>5 DEF IndInv
  <2>2. CASE queue # <<>>
    <3> USE <2>2
    <3>0. /\ Len(queue) \in Nat \ {0}
          /\ Len(queue') = Len(queue) - 1
          /\ queue' \in Seq(Nat)
          /\ \A i \in 1..Len(queue') : queue'[i] = queue[i + 1]
          /\ UNCHANGED <<pc, lock, active, stop, job, submitted, finished, spurious>>
      <4>1. queue' = Tail(queue)
        OBVIOUS
      <4> QED
        BY <4>1, TailFacts DEF TypeOK
    <3>1. TypeOK'
      BY <3>0 DEF TypeOK
    <3>2. LockInv'
      BY <3>0 DEF LockInv
    <3>3. StopInv'
      BY <3>0 DEF StopInv
    <3>4. DequeueFindsJob'
      BY <3>0, <2>0 DEF DequeueFindsJob
    <3>5. OrderInv'
      BY <3>0, <2>0 DEF TypeOK, OrderInv
    <3> QED
      BY <3>1, <3>2, <3>3, <3>4, <3>5 DEF IndInv
  <2> QED
    BY <2>1, <2>2
<1>15. ASSUME Spurious PROVE IndInv'
  <2> USE <1>0, <1>15 DEF Spurious
  <2>0. PICK t \in Threads : pc[t] = "wait" /\ pc' = [pc EXCEPT ![t] = Woken(t)]
    BY DEF Waiters
  <2>1. TypeOK'
    BY <2>0 DEF TypeOK, Woken
  <2>2. LockInv'
    BY <2>0 DEF TypeOK, LockInv, Woken
  <2>3. StopInv'
    BY <2>0 DEF TypeOK, StopInv, Woken
  <2>4. DequeueFindsJob'
    BY <2>0 DEF TypeOK, DequeueFindsJob, Woken
  <2>5. OrderInv'
    <3>1. \A v \in Workers : pc'[v] = "run" <=> pc[v] = "run"
      BY <2>0 DEF TypeOK, Woken
    <3> QED
      BY <3>1 DEF OrderInv
  <2> QED
    BY <2>1, <2>2, <2>3, <2>4, <2>5 DEF IndInv
<1>16. ASSUME UNCHANGED vars PROVE IndInv'
  BY <1>0, <1>16
     DEF vars, IndInv, TypeOK, LockInv, StopInv, DequeueFindsJob, OrderInv
<1> QED
  BY <1>1, <1>2, <1>3, <1>4, <1>5, <1>6, <1>7, <1>8, <1>9, <1>10, <1>11, <1>12,
     <1>13, <1>14, <1>15, <1>16
     DEF Next, WorkerStep, MainStep, Destroyed

\* The inductive invariant holds in every reachable state, for every number of
\* workers, jobs and spurious wake-ups.
THEOREM Invariance == SafetySpec => []IndInv
<1> QED
  BY InitInv, NextInv, PTL DEF SafetySpec

\* No job is lost, and none is with two workers, as long as the pool exists.
THEOREM JobsAccounted == SafetySpec => []EveryJobAccounted
<1>1. IndInv => EveryJobAccounted
  <2> SUFFICES ASSUME IndInv PROVE EveryJobAccounted
    OBVIOUS
  <2> DEFINE n == submitted - Len(queue)
             Queued == {queue[i] : i \in 1..Len(queue)}
  <2>1. /\ submitted \in Nat /\ Len(queue) \in Nat /\ n \in Nat
        /\ n + Len(queue) = submitted
        /\ job \in [Workers -> Nat]
        /\ finished \in SUBSET Nat
        /\ \A i \in 1..Len(queue) : queue[i] = n + i
        /\ \A w \in Workers : job[w] <= n /\ job[w] \notin finished
        /\ \A j \in finished : 0 < j /\ j <= n
        /\ ~stop => \A j \in 1..n : j \in finished \/ \E w \in Workers : job[w] = j
    BY DEF IndInv, TypeOK, OrderInv
  <2> HIDE DEF n
  <2>2. Queued = (n + 1)..submitted
    <3>0. ASSUME NEW j \in Queued PROVE j \in (n + 1)..submitted
      <4>1. PICK i \in 1..Len(queue) : j = queue[i]
        OBVIOUS
      <4>2. j = n + i
        BY <4>1, <2>1
      <4> QED
        BY <4>1, <4>2, <2>1
    <3>1. ASSUME NEW j \in (n + 1)..submitted PROVE j \in Queued
      <4>1. j - n \in 1..Len(queue) /\ n + (j - n) = j
        BY <2>1
      <4> QED
        BY <4>1, <2>1
    <3> QED
      BY <3>0, <3>1
  <2>3. ASSUME NEW j \in Running PROVE j \in 1..n /\ j \notin finished
    BY <2>1 DEF Running, NoJob
  <2>4. ~stop => 1..n = Running \cup finished
    <3>1. ASSUME ~stop, NEW j \in 1..n PROVE j \in Running \cup finished
      BY <3>1, <2>1 DEF Running, NoJob
    <3>2. ASSUME NEW j \in finished PROVE j \in 1..n
      BY <2>1
    <3> QED
      BY <3>1, <3>2, <2>3
  <2>5. ~stop => 1..submitted = Queued \cup Running \cup finished
    <3>1. 1..submitted = 1..n \cup Queued
      BY <2>1, <2>2
    <3> QED
      BY <3>1, <2>4
  <2>6. \A v, w \in Workers : v # w /\ job[v] = job[w] => job[v] = NoJob
    BY DEF IndInv, OrderInv
  <2>7. Running \cap finished = {}
    BY <2>3
  <2>8. Queued \cap (Running \cup finished) = {}
    BY <2>1, <2>2, <2>3
  <2> QED
    BY <2>5, <2>6, <2>7, <2>8 DEF EveryJobAccounted
<1> QED
  BY <1>1, Invariance, PTL

\* No worker ever blocks in job_dequeue with pool->lock held.
THEOREM DequeueNeverBlocks == SafetySpec => []DequeueFindsJob
<1>1. IndInv => DequeueFindsJob
  BY DEF IndInv
<1> QED
  BY <1>1, Invariance, PTL

\* Jobs start in the order in which they were added.
THEOREM StartOrder == SafetySpec => StartsInOrder
<1>1. ASSUME IndInv, [Next]_vars
      PROVE  [\A w \in Workers : job'[w] # job[w] /\ job'[w] # NoJob =>
                \A j \in Running \cup finished : j < job'[w]]_vars
  <2> SUFFICES ASSUME Next, NEW w \in Workers,
                      job'[w] # job[w], job'[w] # NoJob,
                      NEW j \in Running \cup finished
               PROVE  j < job'[w]
    BY <1>1
  <2>1. job \in [Workers -> Nat] /\ submitted \in Nat /\ queue \in Seq(Nat)
    BY <1>1 DEF IndInv, TypeOK
  <2>2. PICK v \in Workers : Dequeue(v) \/ Return(v)
    BY DEF Next, WorkerStep, MainStep, Lock, FindNothing, Doze, Exit, FindJob,
           Finish, Gate, Enqueue, SignalJob, Join, Drain, AddJob, Destroy,
           Spurious, Destroyed, vars
  <2>3. Dequeue(v) /\ w = v
    BY <2>1, <2>2 DEF Dequeue, Return
  <2>4. /\ Len(queue) \in Nat \ {0}
        /\ job'[w] = queue[1]
    BY <2>1, <2>3, TailFacts DEF Dequeue
  <2>5. job'[w] = submitted - Len(queue) + 1
    BY <1>1, <2>1, <2>4 DEF IndInv, OrderInv
  <2>6. j \in Nat /\ j <= submitted - Len(queue)
    <3>1. finished \in SUBSET Nat /\ job \in [Workers -> Nat]
      BY <1>1 DEF IndInv, TypeOK
    <3>2. /\ \A k \in finished : k <= submitted - Len(queue)
          /\ \A u \in Workers : job[u] <= submitted - Len(queue)
      BY <1>1 DEF IndInv, OrderInv
    <3> QED
      BY <3>1, <3>2 DEF Running
  <2> QED
    BY <2>1, <2>4, <2>5, <2>6
<1> QED
  BY <1>1, Invariance, PTL DEF SafetySpec, StartsInOrder

\* After threadpool_destroy has set stop no job starts, and the queue is freed
\* only once every worker has left its loop.
THEOREM NoStartOnceStopped == SafetySpec => NoStartAfterStop
<1>1. ASSUME IndInv, [Next]_vars
      PROVE  [stop => /\ \A w \in Workers : job'[w] \in {job[w], NoJob}
                      /\ queue' # queue =>
                            \A w \in Workers : pc[w] = "exited"]_vars
  <2> SUFFICES ASSUME Next, stop
               PROVE  /\ \A w \in Workers : job'[w] \in {job[w], NoJob}
                      /\ queue' # queue => \A w \in Workers : pc[w] = "exited"
    BY <1>1
  <2>1. StopInv /\ job \in [Workers -> Nat]
    BY <1>1 DEF IndInv, TypeOK
  <2>2. ~Enqueue /\ \A v \in Workers : ~Dequeue(v)
    BY <2>1 DEF StopInv, Enqueue, Dequeue
  <2>3. CASE \E v \in Workers : Return(v)
    BY <2>1, <2>3 DEF Return
  <2>4. CASE Drain
    BY <2>1, <2>4 DEF Drain, StopInv
  <2>5. CASE UNCHANGED <<queue, job>>
    BY <2>5
  <2> QED
    BY <2>2, <2>3, <2>4, <2>5
       DEF Next, WorkerStep, MainStep, Lock, FindNothing, Doze, Exit, FindJob,
           Finish, Gate, SignalJob, Join, AddJob, Destroy, Spurious, Destroyed,
           vars
<1> QED
  BY <1>1, Invariance, PTL DEF SafetySpec, NoStartAfterStop

\* In a pool of one worker the atomic_bool is exact: ++ and -- alternate, so it
\* is set just while the worker is between job_dequeue and the end of its round.
THEOREM FlagExact == SafetySpec => []ActiveExact
<1>0. CASE Cardinality(Workers) = 1
  <2>0. PICK only : Workers = {only}
    BY <1>0, PoolAssumption, FS_Singleton
  <2> DEFINE Exact == active <=> pc[only] \in {"run", "finish"}
  <2>1. Init => Exact
    BY <2>0, PoolAssumption DEF Init, Threads
  <2>2. IndInv /\ Exact /\ [Next]_vars => Exact'
    <3> SUFFICES ASSUME IndInv, Exact, [Next]_vars PROVE Exact'
      OBVIOUS
    <3>0. /\ pc \in [Threads -> WorkerPc \cup MainPc] /\ active \in BOOLEAN
          /\ Threads = {only, Main} /\ only # Main
      BY <2>0, PoolAssumption DEF IndInv, TypeOK, Threads
    <3>1. CASE Lock(only) \/ FindNothing(only) \/ Doze(only) \/ Exit(only) \/ FindJob(only)
      BY <3>0, <3>1 DEF Lock, FindNothing, Doze, Exit, FindJob
    <3>2. CASE Dequeue(only)
      BY <3>0, <3>2 DEF Dequeue, Incremented
    <3>3. CASE Return(only)
      BY <3>0, <3>3 DEF Return
    <3>4. CASE Finish(only)
      <4> DEFINE p == [pc EXCEPT ![only] = "top"]
      <4>1. p \in [Threads -> WorkerPc \cup MainPc] /\ p[only] = "top"
        BY <3>0 DEF WorkerPc
      <4>2. pc' \in Signalled(p) /\ active' = ~active /\ pc[only] = "finish"
        BY <3>4 DEF Finish, Decremented
      <4>3. pc'[only] = "top"
        BY <4>1, <4>2, <3>0, SignalledFacts
      <4> QED
        BY <4>2, <4>3
    <3>5. CASE SignalJob
      <4> DEFINE p == [pc EXCEPT ![Main] = "accept"]
      <4>1. p \in [Threads -> WorkerPc \cup MainPc] /\ p[only] = pc[only]
        BY <3>0 DEF MainPc
      <4>2. pc' \in Signalled(p) /\ active' = active
        BY <3>5 DEF SignalJob
      <4>3. pc'[only] = p[only] \/ (pc[only] = "wait" /\ pc'[only] = Woken(only))
        BY <4>1, <4>2, <3>0, SignalledFacts
      <4>4. Woken(only) = "top"
        BY <3>0 DEF Woken
      <4> QED
        BY <4>1, <4>2, <4>3, <4>4
    <3>6. CASE Destroy
      BY <3>0, <3>6 DEF Destroy, AllWoken, Waiters, Woken
    <3>7. CASE Spurious
      BY <3>0, <3>7 DEF Spurious, Waiters, Woken
    <3>8. CASE AddJob \/ Gate \/ Enqueue \/ Join \/ Drain
      BY <3>0, <3>8 DEF AddJob, Gate, Enqueue, Join, Drain
    <3>9. CASE UNCHANGED vars
      BY <3>9 DEF vars
    <3> QED
      BY <2>0, <3>1, <3>2, <3>3, <3>4, <3>5, <3>6, <3>7, <3>8, <3>9
         DEF Next, WorkerStep, MainStep, Destroyed
  <2>3. Exact => ActiveExact
    BY <2>0 DEF ActiveExact
  <2> HIDE DEF Exact
  <2> QED
    BY <2>1, <2>2, <2>3, Invariance, PTL DEF SafetySpec
<1>1. CASE Cardinality(Workers) # 1
  <2>1. ActiveExact
    BY <1>1 DEF ActiveExact
  <2> QED
    BY <2>1, PTL
<1> QED
  BY <1>0, <1>1

\* Workers and the adder never sleep at the same time, in a pool of any size: with
\* two or more workers the adder never does, and with one only while it is busy.
THEOREM WaitersAlike == SafetySpec => []OneKindWaits
<1>0. CASE Cardinality(Workers) # 1
  <2>1. Init => pc[Main] # "wait"
    BY PoolAssumption DEF Init, Threads
  <2>2. IndInv /\ pc[Main] # "wait" /\ [Next]_vars => (pc[Main] # "wait")'
    <3> SUFFICES ASSUME IndInv, pc[Main] # "wait", [Next]_vars
                 PROVE  pc'[Main] # "wait"
      OBVIOUS
    <3>0. pc \in [Threads -> WorkerPc \cup MainPc] /\ Main \in Threads
      BY DEF IndInv, TypeOK, Threads
    <3>1. CASE Gate
      <4>1. Cardinality(Workers) \in Nat \ {0, 1}
        BY <1>0, PoolAssumption, FS_CardinalityType, FS_EmptySet
      <4> QED
        BY <4>1, <3>0, <3>1 DEF Gate, Saturated
    <3>2. ASSUME NEW w \in Workers, Finish(w) PROVE pc'[Main] # "wait"
      <4> DEFINE p == [pc EXCEPT ![w] = "top"]
      <4>1. p \in [Threads -> WorkerPc \cup MainPc] /\ p[Main] = pc[Main]
        BY <3>0, PoolAssumption DEF WorkerPc
      <4>2. pc' \in Signalled(p)
        BY <3>2 DEF Finish
      <4>3. pc'[Main] = p[Main] \/ pc[Main] = "wait"
        BY <4>1, <4>2, <3>0, SignalledFacts
      <4> QED
        BY <4>1, <4>3
    <3>3. CASE SignalJob
      <4> DEFINE p == [pc EXCEPT ![Main] = "accept"]
      <4>1. p \in [Threads -> WorkerPc \cup MainPc] /\ p[Main] = "accept"
        BY <3>0 DEF MainPc
      <4>2. pc' \in Signalled(p)
        BY <3>3 DEF SignalJob
      <4>3. pc'[Main] = p[Main] \/ pc[Main] = "wait"
        BY <4>1, <4>2, <3>0, SignalledFacts
      <4> QED
        BY <4>1, <4>3
    <3>4. CASE Destroy
      BY <3>0, <3>4 DEF Destroy, AllWoken, Waiters, Woken
    <3>5. CASE Spurious
      BY <3>0, <3>5 DEF Spurious, Waiters, Woken
    <3>6. ASSUME NEW w \in Workers,
                 WorkerStep(w), ~Finish(w)
          PROVE  pc'[Main] = pc[Main]
      BY <3>0, <3>6, PoolAssumption
         DEF WorkerStep, Lock, FindNothing, Doze, Exit, FindJob, Dequeue, Return
    <3>7. CASE Enqueue \/ Join \/ Drain \/ AddJob
      BY <3>0, <3>7 DEF Enqueue, Join, Drain, AddJob
    <3>8. CASE UNCHANGED vars
      BY <3>8 DEF vars
    <3> QED
      BY <3>1, <3>2, <3>3, <3>4, <3>5, <3>6, <3>7, <3>8
         DEF Next, MainStep, Destroyed
  <2>3. pc[Main] # "wait" => OneKindWaits
    BY DEF OneKindWaits, Waiters
  <2> QED
    BY <2>1, <2>2, <2>3, Invariance, PTL DEF SafetySpec
<1>1. CASE Cardinality(Workers) = 1
  <2>0. PICK only : Workers = {only}
    BY <1>1, PoolAssumption, FS_Singleton
  <2> DEFINE Busy == pc[Main] = "wait" => pc[only] \in {"run", "finish"}
  <2>1. Init => Busy
    BY PoolAssumption DEF Init, Threads
  <2>2. IndInv /\ ActiveExact /\ Busy /\ [Next]_vars => Busy'
    <3> SUFFICES ASSUME IndInv, ActiveExact, Busy, [Next]_vars PROVE Busy'
      OBVIOUS
    <3>0. /\ pc \in [Threads -> WorkerPc \cup MainPc] /\ active \in BOOLEAN
          /\ Threads = {only, Main} /\ only # Main
          /\ active <=> pc[only] \in {"run", "finish"}
      BY <1>1, <2>0, PoolAssumption DEF IndInv, TypeOK, Threads, ActiveExact
    <3>1. CASE Lock(only) \/ FindNothing(only) \/ Doze(only) \/ Exit(only) \/ FindJob(only)
      BY <3>0, <3>1 DEF Lock, FindNothing, Doze, Exit, FindJob
    <3>2. CASE Dequeue(only) \/ Return(only)
      BY <3>0, <3>2 DEF Dequeue, Return
    <3>3. CASE Finish(only)
      <4> DEFINE p == [pc EXCEPT ![only] = "top"]
      <4>1. CASE pc[Main] = "wait"
        BY <4>1, <3>0, <3>3 DEF Finish, Signalled, Waiters, Woken
      <4>2. CASE pc[Main] # "wait"
        <5>1. p \in [Threads -> WorkerPc \cup MainPc] /\ p[Main] = pc[Main]
          BY <3>0 DEF WorkerPc
        <5>2. pc' \in Signalled(p)
          BY <3>3 DEF Finish
        <5> QED
          BY <4>2, <5>1, <5>2, <3>0, SignalledFacts
      <4> QED
        BY <4>1, <4>2
    <3>4. CASE SignalJob
      <4> DEFINE p == [pc EXCEPT ![Main] = "accept"]
      <4>1. p \in [Threads -> WorkerPc \cup MainPc] /\ p[Main] = "accept" /\ pc[Main] = "signal"
        BY <3>0, <3>4 DEF MainPc, SignalJob
      <4>2. pc' \in Signalled(p)
        BY <3>4 DEF SignalJob
      <4> QED
        BY <4>1, <4>2, <3>0, SignalledFacts
    <3>5. CASE Gate
      <4>1. (IF active THEN 1 ELSE 0) = 1 <=> active
        BY <3>0
      <4>2. Saturated(active) <=> active
        BY <4>1, <1>1 DEF Saturated
      <4>3. pc' = [pc EXCEPT ![Main] = IF active THEN "wait" ELSE "enqueue"]
        BY <4>2, <3>5 DEF Gate
      <4> QED
        BY <4>3, <3>0
    <3>6. CASE Destroy
      BY <3>0, <3>6 DEF Destroy, AllWoken, Waiters, Woken
    <3>7. CASE Spurious
      BY <3>0, <3>7 DEF Spurious, Waiters, Woken
    <3>8. CASE AddJob \/ Enqueue \/ Join \/ Drain
      BY <3>0, <3>8 DEF AddJob, Enqueue, Join, Drain
    <3>9. CASE UNCHANGED vars
      BY <3>9 DEF vars
    <3> QED
      BY <2>0, <3>1, <3>2, <3>3, <3>4, <3>5, <3>6, <3>7, <3>8, <3>9
         DEF Next, WorkerStep, MainStep, Destroyed
  <2>3. Busy => OneKindWaits
    BY <2>0 DEF OneKindWaits, Waiters, Threads
  <2> HIDE DEF Busy
  <2> QED
    BY <2>1, <2>2, <2>3, Invariance, FlagExact, PTL DEF SafetySpec
<1> QED
  BY <1>0, <1>1

-----------------------------------------------------------------------------
(* The pool implements JobService. *)

\* While some worker is idle, fewer jobs run than there are workers.
LEMMA IdleWorkerLeavesRoom ==
    ASSUME IndInv, NEW w \in Workers, job[w] = NoJob
    PROVE  Cardinality(Running) < Cardinality(Workers)
<1> DEFINE Others == Workers \ {w}
           Jobs == {job[v] : v \in Others}
<1>1. /\ IsFiniteSet(Others)
      /\ Cardinality(Others) = Cardinality(Workers) - 1
      /\ Cardinality(Workers) \in Nat
  BY PoolAssumption, FS_RemoveElement, FS_CardinalityType
<1>2. IsFiniteSet(Jobs) /\ Cardinality(Jobs) <= Cardinality(Others)
  <2> DEFINE f == [v \in Others |-> job[v]]
  <2>1. f \in Surjection(Others, Jobs)
    BY DEF Surjection
  <2> QED
    BY <2>1, <1>1, FS_Surjection
<1>3. Running \subseteq Jobs
  BY DEF Running
<1>4. Cardinality(Running) <= Cardinality(Jobs)
  BY <1>2, <1>3, FS_Subset
<1>5. Cardinality(Running) \in Nat /\ Cardinality(Jobs) \in Nat
      /\ Cardinality(Others) \in Nat
  BY <1>1, <1>2, <1>3, FS_Subset, FS_CardinalityType
<1> QED
  BY <1>1, <1>2, <1>4, <1>5

\* The pool implements the job service of JobService: whatever the threads do,
\* jobs start once, in order, at most one per worker, none after the pool was
\* stopped, and only the jobs nobody started are dropped.
THEOREM Refinement == SafetySpec => ImplementsService
<1>1. Init => Service!Init
  BY PoolAssumption DEF Init, Service!Init, Running
<1>2. IndInv /\ [Next]_vars => [Service!Next]_(Service!vars)
  <2> SUFFICES ASSUME IndInv, [Next]_vars
               PROVE  Service!Next \/ UNCHANGED Service!vars
    OBVIOUS
  <2> USE PoolAssumption
  <2>0. /\ TypeOK
        /\ StopInv
        /\ OrderInv
        /\ job \in [Workers -> Nat]
    BY DEF IndInv, TypeOK
  <2>1. ASSUME NEW w \in Workers, Dequeue(w) PROVE Service!Start
    <3>1. ~stop /\ job[w] = NoJob /\ queue # <<>>
      BY <2>0, <2>1 DEF Dequeue, StopInv, OrderInv
    <3>2. Cardinality(Running) < Cardinality(Workers)
      BY <3>1, IdleWorkerLeavesRoom
    <3>3. Head(queue) # NoJob
      <4>1. /\ Len(queue) \in Nat \ {0}
            /\ Head(queue) = queue[1]
        BY <2>0, <3>1, TailFacts DEF TypeOK
      <4>2. queue[1] = submitted - Len(queue) + 1 /\ Len(queue) <= submitted
        BY <2>0, <4>1 DEF OrderInv
      <4> QED
        BY <2>0, <4>1, <4>2 DEF TypeOK, NoJob
    <3>4. job' = [job EXCEPT ![w] = Head(queue)]
      BY <2>1 DEF Dequeue
    <3>5. Running' = Running \cup {Head(queue)}
      <4>1. ASSUME NEW j \in Running PROVE j \in Running'
        <5>1. PICK v \in Workers : job[v] = j /\ j # NoJob
          BY DEF Running
        <5>2. job'[v] = j
          BY <2>0, <3>1, <3>4, <5>1
        <5> QED
          BY <5>1, <5>2 DEF Running
      <4>2. Head(queue) \in Running'
        BY <2>0, <3>3, <3>4 DEF Running
      <4>3. ASSUME NEW j \in Running' PROVE j \in Running \cup {Head(queue)}
        <5>1. PICK v \in Workers : job'[v] = j /\ j # NoJob
          BY DEF Running
        <5>2. job'[v] = IF v = w THEN Head(queue) ELSE job[v]
          BY <2>0, <3>4
        <5> QED
          BY <5>1, <5>2 DEF Running
      <4> QED
        BY <4>1, <4>2, <4>3
    <3>6. queue' = Tail(queue) /\ UNCHANGED <<submitted, finished, stop>>
      BY <2>1 DEF Dequeue
    <3>7. (~stop)' = ~stop
      BY <3>6
    <3> HIDE DEF Running
    <3> QED
      BY <3>1, <3>2, <3>5, <3>6, <3>7
         DEF Service!Start, Service!Cardinality, Cardinality,
             Service!IsFiniteSet, IsFiniteSet
  <2>2. ASSUME NEW w \in Workers, Return(w)
        PROVE  job[w] \in Running /\ Service!Complete(job[w])
    <3>1. job[w] # NoJob
      BY <2>0, <2>2 DEF Return, OrderInv
    <3>2. job' = [job EXCEPT ![w] = NoJob]
      BY <2>2 DEF Return
    <3>3. \A v \in Workers : v # w => job[v] # job[w]
      BY <2>0, <3>1 DEF OrderInv
    <3>4. job[w] \in Running
      BY <3>1 DEF Running
    <3>5. Running' = Running \ {job[w]}
      <4>1. ASSUME NEW j \in Running, j # job[w] PROVE j \in Running'
        <5>1. PICK v \in Workers : job[v] = j /\ j # NoJob
          BY DEF Running
        <5>2. job'[v] = j
          BY <2>0, <3>2, <4>1, <5>1
        <5> QED
          BY <5>1, <5>2 DEF Running
      <4>2. ASSUME NEW j \in Running' PROVE j \in Running /\ j # job[w]
        <5>1. PICK v \in Workers : job'[v] = j /\ j # NoJob
          BY DEF Running
        <5>2. v # w /\ job[v] = j
          BY <2>0, <3>2, <5>1
        <5> QED
          BY <3>3, <5>1, <5>2 DEF Running
      <4> QED
        BY <4>1, <4>2
    <3> QED
      BY <2>2, <3>4, <3>5 DEF Return, Service!Complete
  <2>3. ASSUME Enqueue PROVE Service!Add
    BY <2>0, <2>3 DEF Enqueue, Service!Add, StopInv, Running
  <2>4. ASSUME Destroy PROVE Service!Close
    BY <2>0, <2>4 DEF Destroy, Service!Close, StopInv, Running
  <2>5. ASSUME Drain, queue # <<>> PROVE Service!Drop
    <3>1. stop /\ Running = {}
      BY <2>0, <2>5 DEF Drain, StopInv, OrderInv, Running
    <3>2. Running' = {}
      BY <2>5, <3>1 DEF Drain, Running
    <3> QED
      BY <2>5, <3>1, <3>2 DEF Drain, Service!Drop
  <2>6. ASSUME UNCHANGED <<queue, job, submitted, finished, stop>>
        PROVE  UNCHANGED Service!vars
    BY <2>6 DEF Service!vars, Running
  <2>7. ASSUME Drain, queue = <<>>
        PROVE  UNCHANGED <<queue, job, submitted, finished, stop>>
    BY <2>7 DEF Drain
  <2>8. CASE \E w \in Workers : WorkerStep(w)
    <3>1. \/ \E w \in Workers : Dequeue(w) \/ Return(w)
          \/ UNCHANGED <<queue, job, submitted, finished, stop>>
      BY <2>8 DEF WorkerStep, Lock, FindNothing, Doze, Exit, FindJob, Finish
    <3> QED
      BY <3>1, <2>1, <2>2, <2>6 DEF Service!Next
  <2>9. CASE \/ Gate
             \/ SignalJob
             \/ Join
             \/ AddJob
             \/ Spurious
             \/ UNCHANGED vars
    <3>1. UNCHANGED <<queue, job, submitted, finished, stop>>
      BY <2>9 DEF Gate, SignalJob, Join, AddJob, Spurious, vars
    <3> QED
      BY <3>1, <2>6
  <2> QED
    BY <2>3, <2>4, <2>5, <2>6, <2>7, <2>8, <2>9
       DEF Next, MainStep, Destroyed, Service!Next
<1> QED
  BY <1>1, <1>2, Invariance, PTL
     DEF SafetySpec, ImplementsService, Service!Spec
=============================================================================
