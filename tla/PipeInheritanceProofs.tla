----------------------- MODULE PipeInheritanceProofs -----------------------
(***************************************************************************)
(* What build_and_run guarantees about the pipes whatever the number of    *)
(* workers and of programs: a program holds ends of its own pipes and of   *)
(* the pipes of runs that were built at the same time, and of no others.   *)
(***************************************************************************)
EXTENDS PipeInheritance, TLAPS

\* Nothing is open and nobody builds: the invariant holds initially.
LEMMA InitInv == Init => LeakInv
BY DEF Init, LeakInv, TypeOK, BuilderInv, UnmarkedInv, OverlapInv, InheritInv,
       ChildInv, Labels, Ends, Names, None

\* What is being built are runs.
LEMMA BuildingType == ASSUME BuilderInv PROVE Building \subseteq Runs
BY DEF Building, BuilderInv

\* Every step keeps every variable in its type.
LEMMA TypeStep == TypeOK /\ BuilderInv /\ [Next]_vars => TypeOK'
<1> SUFFICES ASSUME TypeOK, BuilderInv, [Next]_vars
             PROVE  TypeOK'
  OBVIOUS
<1> USE DEF TypeOK, Labels, Ends, Names
<1>1. ASSUME NEW t \in Threads, PipeFrom(t) PROVE TypeOK'
  <2> PICK k \in Runs \ Building : PipeFrom(t)!2!(k)
    BY <1>1 DEF PipeFrom
  <2>1. Building \subseteq Runs
    BY BuildingType
  <2>2. overlap' \in [Runs -> SUBSET Runs]
    BY <2>1
  <2> QED
    BY <1>1, <2>2 DEF PipeFrom, Step
<1>2. ASSUME NEW t \in Threads, BuildStep(t) PROVE TypeOK'
  <2>1. run[t] \in Runs
    BY <1>2 DEF BuilderInv, BuildStep, PipeTo, Fork, CloseTo, CloseFrom, CloexecTo,
                CloexecFrom, Step
  <2> QED
    BY <1>2, <2>1 DEF BuildStep, PipeTo, Fork, CloseTo, CloseFrom, CloexecTo,
                      CloexecFrom, Step
<1>3. ASSUME NEW k \in Runs, Exec(k) \/ Exit(k) \/ Reclaim(k) \/ Stop(k) PROVE TypeOK'
  BY <1>3 DEF Exec, Exit, Reclaim, Stop, Cleanup
<1>4. CASE UNCHANGED vars
  BY <1>4 DEF vars
<1> QED
  BY <1>1, <1>2, <1>3, <1>4 DEF Next

\* PipeFrom: the new run is nobody's, its ends are not marked, and every run
\* that is being built learns of it.
LEMMA PipeFromStep ==
    ASSUME LeakInv, TypeOK', NEW t \in Threads, PipeFrom(t)
    PROVE  LeakInv'
<1> PICK k \in Runs \ Building : PipeFrom(t)!2!(k)
  BY DEF PipeFrom
<1> USE DEF LeakInv
<1>1. /\ pc[t] = "idle"
      /\ pc' = [pc EXCEPT ![t] = "pipe_to"]
      /\ UNCHANGED <<cloexec, child, holds, flagged>>
  BY DEF PipeFrom, Step
<1>2. \A u \in Threads \ {t} : pc'[u] = pc[u] /\ run'[u] = run[u]
  BY <1>1 DEF TypeOK
<1>3. pc'[t] = "pipe_to" /\ run'[t] = k
  BY <1>1 DEF TypeOK
<1>4. \A u \in Threads : pc[u] # "idle" => u # t /\ run[u] # k /\ run[u] \in Building
  BY <1>1 DEF Building
<1>5. BuilderInv'
  <2> SUFFICES ASSUME NEW u \in Threads, pc'[u] # "idle"
               PROVE  BuilderInv!(u)!2'
    BY DEF BuilderInv
  <2>1. CASE u = t
    BY <2>1, <1>2, <1>3, <1>4
  <2>2. CASE u # t
    BY <2>2, <1>1, <1>2, <1>3, <1>4 DEF BuilderInv
  <2> QED
    BY <2>1, <2>2
<1>6. UnmarkedInv'
  <2> SUFFICES ASSUME NEW e \in (server \ cloexec)'
               PROVE  \E u \in Threads : Owner(u, e[1])'
    BY DEF UnmarkedInv
  <2>1. CASE e \in server
    <3> PICK u \in Threads : Owner(u, e[1])
      BY <2>1, <1>1 DEF UnmarkedInv
    <3> QED
      BY <1>2, <1>4 DEF Owner
  <2>2. CASE e \notin server
    <3>1. e[1] = k
      BY <2>2
    <3> QED
      BY <3>1, <1>3 DEF Owner
  <2> QED
    BY <2>1, <2>2
<1>7. OverlapInv'
  <2> SUFFICES ASSUME NEW u \in Threads, NEW v \in Threads, u # v,
                      pc'[u] # "idle", pc'[v] # "idle"
               PROVE  run'[v] \in overlap'[run'[u]]
    BY DEF OverlapInv
  <2>1. CASE u = t
    BY <2>1, <1>2, <1>3, <1>4
  <2>2. CASE u # t
    <3>1. run[u] \in Runs /\ run[u] \in Building /\ run[u] # k
      BY <2>2, <1>2, <1>4 DEF BuilderInv
    <3>2. overlap'[run[u]] = overlap[run[u]] \cup {k}
      BY <3>1
    <3> QED
      BY <2>2, <3>2, <1>2, <1>3 DEF OverlapInv
  <2> QED
    BY <2>1, <2>2
<1>8. InheritInv'
  <2> SUFFICES ASSUME NEW j \in Runs, NEW e \in holds[j] \ flagged[j]
               PROVE  e[1] = j \/ e[1] \in overlap'[j]
    BY <1>1 DEF InheritInv
  <2>1. CASE j = k
    BY <2>1 DEF ChildInv
  <2>2. CASE j # k
    BY <2>2 DEF InheritInv
  <2> QED
    BY <2>1, <2>2
<1>9. ChildInv'
  BY <1>1 DEF ChildInv
<1> QED
  BY <1>5, <1>6, <1>7, <1>8, <1>9

\* The other steps of build_and_run change neither who builds what nor what
\* the runs know of each other.
LEMMA StaysBuilding ==
    ASSUME LeakInv, NEW t \in Threads, pc[t] # "idle",
           NEW l \in Labels \ {"idle"}, pc' = [pc EXCEPT ![t] = l],
           UNCHANGED <<run, overlap>>
    PROVE  /\ OverlapInv'
           /\ \A u \in Threads : \A k : Owner(u, k) => Owner(u, k)'
BY DEF LeakInv, TypeOK, OverlapInv, Owner

\* The steps before the return, one by one.
LEMMA BuildStepInv ==
    ASSUME LeakInv, TypeOK', NEW t \in Threads,
           \/ PipeTo(t) \/ Fork(t) \/ CloseTo(t) \/ CloseFrom(t) \/ CloexecTo(t)
    PROVE  LeakInv'
<1> USE DEF LeakInv
<1> DEFINE k == run[t]
<1>1. k \in Runs /\ pc[t] # "idle" /\ UNCHANGED <<run, overlap>>
  BY DEF BuilderInv, PipeTo, Fork, CloseTo, CloseFrom, CloexecTo, Step
<1>2. PICK l \in Labels \ {"idle"} : pc' = [pc EXCEPT ![t] = l]
  BY DEF Labels, PipeTo, Fork, CloseTo, CloseFrom, CloexecTo, Step
<1>3. OverlapInv' /\ \A u \in Threads : \A j : Owner(u, j) => Owner(u, j)'
  BY <1>1, <1>2, StaysBuilding
<1>4. \A u \in Threads \ {t} : pc'[u] = pc[u]
  BY <1>2 DEF TypeOK
<1>5. BuilderInv'
  <2> SUFFICES ASSUME NEW u \in Threads, pc'[u] # "idle"
               PROVE  BuilderInv!(u)!2'
    BY DEF BuilderInv
  <2>1. run[u] \in Runs /\ \A v \in Threads \ {u} : pc'[v] # "idle" => run'[v] # run'[u]
    BY <1>1, <1>4 DEF BuilderInv
  <2>2. CASE u = t
    <3>1. CASE PipeTo(t)
      BY <2>1, <2>2, <3>1, <1>1 DEF PipeTo, Step, TypeOK
    <3>2. CASE Fork(t)
      BY <2>1, <2>2, <3>2, <1>1 DEF Fork, Step, TypeOK
    <3>3. CASE CloseTo(t)
      BY <2>1, <2>2, <3>3, <1>1 DEF CloseTo, Step, TypeOK
    <3>4. CASE CloseFrom(t)
      BY <2>1, <2>2, <3>4, <1>1 DEF CloseFrom, Step, TypeOK, BuilderInv
    <3>5. CASE CloexecTo(t)
      BY <2>1, <2>2, <3>5, <1>1 DEF CloexecTo, Step, TypeOK, BuilderInv
    <3> QED
      BY <3>1, <3>2, <3>3, <3>4, <3>5
  <2>3. CASE u # t
    <3>1. pc'[u] = pc[u] /\ run[u] # k
      BY <2>3, <1>1, <1>4 DEF BuilderInv
    <3>2. \A n \in Names : <<run[u], n>> \in server' => <<run[u], n>> \in server
      BY <3>1 DEF PipeTo, Fork, CloseTo, CloseFrom, CloexecTo
    <3>3. cloexec \subseteq cloexec'
      BY DEF PipeTo, Fork, CloseTo, CloseFrom, CloexecTo
    <3> QED
      BY <2>1, <3>1, <3>2, <3>3, <1>1 DEF BuilderInv, Names
  <2> QED
    BY <2>2, <2>3
<1>6. UnmarkedInv'
  <2> SUFFICES ASSUME NEW e \in (server \ cloexec)'
               PROVE  \E u \in Threads : Owner(u, e[1])'
    BY DEF UnmarkedInv
  <2>1. e \in server \ cloexec \/ e[1] = k
    BY DEF PipeTo, Fork, CloseTo, CloseFrom, CloexecTo
  <2>2. Owner(t, k)
    BY <1>1 DEF Owner
  <2> QED
    BY <2>1, <2>2, <1>3 DEF UnmarkedInv
<1>7. InheritInv'
  <2> SUFFICES ASSUME NEW j \in Runs, NEW e \in (holds[j] \ flagged[j])'
               PROVE  e[1] = j \/ e[1] \in overlap[j]
    BY <1>1 DEF InheritInv
  <2>1. CASE Fork(t) /\ j = k
    <3>1. e \in server \ cloexec
      BY <2>1, <1>1 DEF Fork, TypeOK
    <3>2. PICK u \in Threads : Owner(u, e[1])
      BY <3>1 DEF UnmarkedInv
    <3> QED
      BY <2>1, <3>2, <1>1 DEF Owner, OverlapInv
  <2>2. CASE ~(Fork(t) /\ j = k)
    <3>1. holds'[j] = holds[j] /\ flagged'[j] = flagged[j]
      BY <2>2, <1>1 DEF PipeTo, Fork, CloseTo, CloseFrom, CloexecTo, TypeOK
    <3> QED
      BY <3>1 DEF InheritInv
  <2> QED
    BY <2>1, <2>2
<1>8. ChildInv'
  BY <1>1 DEF PipeTo, Fork, CloseTo, CloseFrom, CloexecTo, ChildInv, TypeOK
<1> QED
  BY <1>3, <1>5, <1>6, <1>7, <1>8

\* When build_and_run returns, no unmarked end of its run is left.
LEMMA CloexecFromStep ==
    ASSUME LeakInv, TypeOK', NEW t \in Threads, CloexecFrom(t)
    PROVE  LeakInv'
<1> USE DEF LeakInv
<1> DEFINE k == run[t]
<1>1. /\ pc[t] = "cloexec_from" /\ pc' = [pc EXCEPT ![t] = "idle"]
      /\ run' = [run EXCEPT ![t] = None]
      /\ cloexec' = cloexec \cup {<<k, "from_r">>}
      /\ UNCHANGED <<server, child, holds, flagged, overlap>>
  BY DEF CloexecFrom, Step
<1>2. \A u \in Threads : IF u = t THEN pc'[u] = "idle"
                                  ELSE pc'[u] = pc[u] /\ run'[u] = run[u]
  BY <1>1 DEF TypeOK
<1>3. BuilderInv' /\ OverlapInv'
  BY <1>1, <1>2 DEF BuilderInv, OverlapInv
<1>4. UnmarkedInv'
  <2> SUFFICES ASSUME NEW e \in (server \ cloexec)'
               PROVE  \E u \in Threads : Owner(u, e[1])'
    BY DEF UnmarkedInv
  <2>1. e \in server \ cloexec
    BY <1>1
  <2>2. PICK u \in Threads : Owner(u, e[1])
    BY <2>1 DEF UnmarkedInv
  <2>3. u # t
    <3> SUFFICES ASSUME u = t PROVE FALSE
      OBVIOUS
    <3>1. e[1] = k /\ e = <<e[1], e[2]>> /\ e[2] \in Names
      BY <2>1, <2>2 DEF Owner, TypeOK, Ends
    <3>2. /\ <<k, "to_r">> \notin server /\ <<k, "from_w">> \notin server
          /\ <<k, "to_w">> \in cloexec
      BY <1>1 DEF BuilderInv
    <3>3. e # <<k, "from_r">>
      BY <1>1
    <3> QED
      BY <2>1, <3>1, <3>2, <3>3 DEF Names
  <2> QED
    BY <2>2, <2>3, <1>2 DEF Owner
<1>5. InheritInv' /\ ChildInv'
  BY <1>1 DEF InheritInv, ChildInv
<1> QED
  BY <1>3, <1>4, <1>5

\* A child drops ends, and a clean-up those of a run that nobody builds.
LEMMA ChildStep ==
    ASSUME LeakInv, TypeOK', NEW k \in Runs,
           Exec(k) \/ Exit(k) \/ Reclaim(k) \/ Stop(k)
    PROVE  LeakInv'
<1> USE DEF LeakInv
<1>1. UNCHANGED <<pc, run, overlap>>
  BY DEF Exec, Exit, Reclaim, Stop
<1>2. \/ UNCHANGED <<server, cloexec>>
      \/ /\ k \notin Building
         /\ server' = server \ EndsOf(k)
         /\ cloexec' = cloexec \ EndsOf(k)
  BY DEF Exec, Exit, Reclaim, Stop, Cleanup
<1>3. BuilderInv'
  <2> SUFFICES ASSUME NEW u \in Threads, pc[u] # "idle"
               PROVE  BuilderInv!(u)!2'
    BY <1>1 DEF BuilderInv
  <2>1. CASE UNCHANGED <<server, cloexec>>
    BY <1>1, <2>1 DEF BuilderInv
  <2>2. CASE /\ k \notin Building
             /\ server' = server \ EndsOf(k)
             /\ cloexec' = cloexec \ EndsOf(k)
    <3>1. run[u] # k
      BY <2>2 DEF Building
    <3>2. \A n : <<run[u], n>> \notin EndsOf(k)
      BY <3>1 DEF EndsOf
    <3> QED
      BY <1>1, <2>2, <3>2 DEF BuilderInv
  <2> QED
    BY <1>2, <2>1, <2>2
<1>4. UnmarkedInv'
  <2>1. (server \ cloexec)' \subseteq server \ cloexec
    BY <1>2
  <2> QED
    BY <2>1, <1>1 DEF UnmarkedInv, Owner
<1>5. OverlapInv'
  BY <1>1 DEF OverlapInv
<1>6. InheritInv'
  <2> SUFFICES ASSUME NEW j \in Runs, NEW e \in (holds[j] \ flagged[j])'
               PROVE  e[1] = j \/ e[1] \in overlap[j]
    BY <1>1 DEF InheritInv
  <2>1. e \in holds[j] \ flagged[j]
    BY DEF Exec, Exit, Reclaim, Stop, TypeOK
  <2> QED
    BY <2>1 DEF InheritInv
<1>7. ChildInv'
  BY DEF Exec, Exit, Reclaim, Stop, Cleanup, ChildInv, TypeOK
<1> QED
  BY <1>3, <1>4, <1>5, <1>6, <1>7

\* The invariant is inductive.
LEMMA NextInv == LeakInv /\ [Next]_vars => LeakInv'
<1> SUFFICES ASSUME LeakInv, [Next]_vars
             PROVE  LeakInv'
  OBVIOUS
<1>1. TypeOK'
  BY TypeStep DEF LeakInv
<1>2. CASE UNCHANGED vars
  BY <1>2 DEF vars, LeakInv, TypeOK, BuilderInv, UnmarkedInv, Owner, OverlapInv,
              InheritInv, ChildInv
<1>3. ASSUME NEW t \in Threads, PipeFrom(t) \/ BuildStep(t) PROVE LeakInv'
  BY <1>1, <1>3, PipeFromStep, BuildStepInv, CloexecFromStep DEF BuildStep
<1>4. ASSUME NEW k \in Runs, Exec(k) \/ Exit(k) \/ Reclaim(k) \/ Stop(k)
      PROVE LeakInv'
  BY <1>1, <1>4, ChildStep
<1> QED
  BY <1>2, <1>3, <1>4 DEF Next

\* Who holds which end of a pipe, in every reachable state.
THEOREM LeakInvariance == SafetySpec => []LeakInv
<1> QED
  BY InitInv, NextInv, PTL DEF SafetySpec

\* A program holds ends of another run's pipes only if build_and_run was at
\* work for both at the same time: fork in the one, FD_CLOEXEC not yet set in
\* the other.
THEOREM LeaksNeedOverlap == SafetySpec => []LeakNeedsOverlap
<1>1. LeakInv => LeakNeedsOverlap
  BY DEF LeakInv, InheritInv, ChildInv, LeakNeedsOverlap
<1> QED
  BY <1>1, LeakInvariance, PTL

\* With one worker what the comment in service.c promises is true: nobody forks
\* between its pipe() and its FD_CLOEXEC, and a program's pipes are its own.
THEOREM OneBuilderIsPrivate ==
    ASSUME NEW only, Threads = {only}
    PROVE  SafetySpec => []PipesPrivate
<1> DEFINE Alone == \A k \in Runs : overlap[k] = {}
<1>1. Init => Alone
  BY DEF Init
<1>2. Alone /\ [Next]_vars => Alone'
  <2> SUFFICES ASSUME Alone, [Next]_vars
               PROVE  Alone'
    OBVIOUS
  <2>1. CASE UNCHANGED overlap
    BY <2>1
  <2>2. ASSUME NEW t \in Threads, PipeFrom(t) PROVE Alone'
    <3>1. Building = {}
      BY <2>2 DEF PipeFrom, Step, Building
    <3> QED
      BY <2>2, <3>1 DEF PipeFrom
  <2> QED
    BY <2>1, <2>2 DEF Next, BuildStep, PipeTo, Fork, CloseTo, CloseFrom, CloexecTo,
                      CloexecFrom, Exec, Exit, Reclaim, Stop, vars
<1>3. LeakInv /\ Alone => PipesPrivate
  <2> SUFFICES ASSUME LeakInv, Alone, NEW k \in Runs, child[k] = "running",
                      NEW e \in holds[k]
               PROVE  e \in EndsOf(k)
    BY DEF PipesPrivate
  <2>1. e \in Ends
    BY DEF LeakInv, TypeOK
  <2>2. e[1] = k
    BY DEF LeakInv, InheritInv, ChildInv
  <2> QED
    BY <2>1, <2>2 DEF Ends, EndsOf
<1> QED
  BY <1>1, <1>2, <1>3, LeakInvariance, PTL DEF SafetySpec
=============================================================================
