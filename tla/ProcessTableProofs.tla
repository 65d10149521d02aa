------------------------- MODULE ProcessTableProofs -------------------------
(***************************************************************************)
(* What the table of processes guarantees for any number of workers, slots *)
(* and runs.  First, whatever ids the clients name and whether or not pipe *)
(* and fork fail: an entry that is being built belongs to one              *)
(* build_and_run.                                                          *)
(*                                                                         *)
(* Then, when the clients are polite: they send complete requests, use an  *)
(* id they were given, and make one call at a time with it.  The code has  *)
(* no lock: a slot changes hands only through is_running and through what  *)
(* the clients know, and PoliteInv says who holds it in between.  pipe and *)
(* fork may fail, except where SlotHasOwner is concerned.                  *)
(***************************************************************************)
EXTENDS ProcessTable, TLAPS

\* The bounds of the table.
LEMMA Bounds ==
    /\ MaxProcess \in Nat /\ MaxProcess # 0 /\ MaxRuns \in Nat
    /\ 0 \in Slots /\ None \notin Runs /\ Dangling \notin Runs
BY TableAssumption DEF Slots, Runs, None, Dangling

\* The zeroed table satisfies the invariants.
LEMMA InitInv == Init => TypeOK /\ EntryInv
<1> SUFFICES ASSUME Init
             PROVE  TypeOK /\ EntryInv
  OBVIOUS
<1>1. TypeOK
  BY Bounds DEF Init, TypeOK, Labels, Faults
<1>2. EntryInv
  BY Bounds DEF Init, EntryInv, Building, Ending
<1> QED
  BY <1>1, <1>2

\* Returning from a call keeps the types of what it changes.
LEMMA ReturnType ==
    ASSUME TypeOK, NEW t \in Threads, NEW forget \in BOOLEAN,
           Return(t, forget) \/ ReturnRefused(t)
    PROVE  /\ pc' \in [Threads -> Labels]
           /\ call' \in [Threads -> {"none", "run", "stop", "input", "program"}]
           /\ arg' \in [Threads -> Slots]
           /\ mine' \in [Threads -> Runs \cup {None}]
           /\ known' \in [Slots -> Runs \cup {None}]
<1> USE DEF TypeOK
<1>1. pc' = [pc EXCEPT ![t] = "idle"] /\ call' = [call EXCEPT ![t] = "none"]
  BY DEF Return, ReturnRefused
<1>2. arg' = [arg EXCEPT ![t] = 0] /\ mine' = [mine EXCEPT ![t] = None]
  BY DEF Return, ReturnRefused
<1>3. known' \in [Slots -> Runs \cup {None}]
  <2>1. CASE ReturnRefused(t)
    BY <2>1 DEF ReturnRefused
  <2>2. CASE Return(t, forget)
    <3>1. \/ known' = [known EXCEPT ![arg[t]] = mine[t]]
          \/ known' = [known EXCEPT ![arg[t]] = None]
          \/ known' = known
      BY <2>2 DEF Return
    <3>2. arg[t] \in Slots /\ mine[t] \in Runs \cup {None}
      OBVIOUS
    <3> QED
      BY <3>1, <3>2
  <2> QED
    BY <2>1, <2>2
<1> QED
  BY <1>1, <1>2, <1>3, Bounds DEF Labels

\* Requests keep the types.
LEMMA RequestType ==
    ASSUME TypeOK, NEW t \in Threads, Request(t)
    PROVE  TypeOK'
<1> USE Bounds DEF TypeOK, Labels, Goto, entries, world, threads
<1>1. CASE RunRequest(t)
  BY <1>1 DEF RunRequest, Slots
<1>2. CASE RunRejected(t)
  BY <1>2 DEF RunRejected
<1>3. CASE RunMalformed(t)
  BY <1>3 DEF RunMalformed, Fail, Faults
<1>4. CASE StopRequest(t)
  BY <1>4 DEF StopRequest, Names
<1>5. CASE InputRequest(t)
  BY <1>5 DEF InputRequest, Names
<1>6. CASE ProgramRequest(t)
  BY <1>6 DEF ProgramRequest, Names
<1> QED
  BY <1>1, <1>2, <1>3, <1>4, <1>5, <1>6 DEF Request

\* So do the steps of build_and_run.
LEMMA BuildType ==
    ASSUME TypeOK, NEW t \in Threads,
           \/ NullSlot0(t) \/ ClaimTaken(t) \/ ClaimFree(t) \/ Fill(t)
           \/ BuildError(t) \/ Fork(t) \/ Open(t)
    PROVE  TypeOK'
<1> USE Bounds DEF TypeOK, Labels, Goto, entries, world
<1>1. CASE NullSlot0(t)
  BY <1>1 DEF NullSlot0
<1>2. CASE ClaimTaken(t)
  <2>1. CASE ReturnRefused(t)
    <3>1. refused' \in BOOLEAN
      BY <1>2 DEF ClaimTaken
    <3> QED
      BY <1>2, <2>1, <3>1, ReturnType DEF ClaimTaken
  <2>2. CASE /\ arg[t] < MaxProcess - 1
             /\ arg' = [arg EXCEPT ![t] = @ + 1]
             /\ UNCHANGED <<pc, call, mine, known, refused>>
    <3>1. arg[t] + 1 \in Slots
      BY <2>2 DEF Slots
    <3> QED
      BY <1>2, <2>2, <3>1 DEF ClaimTaken
  <2> QED
    BY <1>2, <2>1, <2>2 DEF ClaimTaken
<1>3. CASE ClaimFree(t)
  BY <1>3 DEF ClaimFree
<1>4. CASE Fill(t)
  BY <1>4 DEF Fill
<1>5. CASE BuildError(t)
  <2>1. fault' \in Faults
    BY <1>5 DEF BuildError, Faults
  <2> QED
    BY <1>5, <2>1, ReturnType DEF BuildError
<1>6. CASE Fork(t)
  BY <1>6 DEF Fork
<1>7. CASE Open(t)
  BY <1>7 DEF Open
<1> QED
  BY <1>1, <1>2, <1>3, <1>4, <1>5, <1>6, <1>7

\* So do the steps of the calls about an id.
LEMMA CallType ==
    ASSUME TypeOK, NEW t \in Threads,
           \/ Check(t) \/ Kill(t) \/ Probe(t) \/ Write(t) \/ WriteBroken(t) \/ Stall(t)
           \/ ReadSome(t) \/ ReadEof(t) \/ ReadBad(t) \/ StdinMissing(t)
           \/ ReadInput(t) \/ AbandonInput(t)
    PROVE  TypeOK'
<1> USE Bounds DEF TypeOK, Labels, Faults, Goto, Fail, BadStream, entries, world
<1>1. CASE Check(t)
  BY <1>1, ReturnType DEF Check, AfterCheck
<1>2. CASE Kill(t)
  BY <1>2, ReturnType DEF Kill
<1>3. CASE Probe(t)
  BY <1>3, ReturnType DEF Probe
<1>4. CASE Write(t)
  BY <1>4, ReturnType DEF Write
<1>5. CASE WriteBroken(t)
  BY <1>5 DEF WriteBroken
<1>6. CASE ReadSome(t)
  BY <1>6, ReturnType DEF ReadSome
<1>7. CASE ReadEof(t)
  BY <1>7 DEF ReadEof
<1>8. CASE ReadBad(t)
  BY <1>8 DEF ReadBad
<1>9. CASE StdinMissing(t)
  BY <1>9 DEF StdinMissing
<1>10. CASE Stall(t)
  BY <1>10 DEF Stall
<1>11. CASE ReadInput(t)
  BY <1>11, ReturnType DEF ReadInput
<1>12. CASE AbandonInput(t)
  BY <1>12 DEF AbandonInput
<1> QED
  BY <1>1, <1>2, <1>3, <1>4, <1>5, <1>6, <1>7, <1>8, <1>9, <1>10, <1>11, <1>12

\* So do the steps of cleanup_child_process.
LEMMA CleanupType ==
    ASSUME TypeOK, NEW t \in Threads,
           AssertRunning(t) \/ Wait(t) \/ Close(t) \/ Remove(t) \/ Clear(t)
    PROVE  TypeOK'
<1> USE Bounds DEF TypeOK, Labels, Faults, Goto, Fail, BadStream, entries, world
<1>1. CASE AssertRunning(t)
  BY <1>1 DEF AssertRunning
<1>2. CASE Wait(t)
  BY <1>2 DEF Wait
<1>3. CASE Close(t)
  BY <1>3 DEF Close
<1>4. CASE Remove(t)
  BY <1>4 DEF Remove
<1>5. CASE Clear(t)
  BY <1>5, ReturnType DEF Clear
<1> QED
  BY <1>1, <1>2, <1>3, <1>4, <1>5

\* The types are kept by every step of a worker.
LEMMA StepType == ASSUME TypeOK, NEW t \in Threads, Step(t) PROVE TypeOK'
BY BuildType, CallType, CleanupType DEF Step

\* A user's program changes the state of its child only.
LEMMA ProgramType ==
    ASSUME TypeOK, NEW k \in Runs, Mute(k) \/ End(k)
    PROVE  TypeOK' /\ UNCHANGED <<entries, threads>>
BY DEF TypeOK, Mute, End, entries, threads

-----------------------------------------------------------------------------
(* The invariant of the entries *)

Inside(t) == Building(t) \/ Ending(t)

\* A step that leaves the flags and the streams alone and moves one thread,
\* which was not inside, somewhere not inside, keeps the invariant.
LEMMA OutsideStep ==
    ASSUME TypeOK, EntryInv, NEW t \in Threads, UNCHANGED <<is_running, stream>>,
           \A u \in Threads \ {t} : pc'[u] = pc[u] /\ arg'[u] = arg[u],
           Inside(t)' => Inside(t) /\ arg'[t] = arg[t]
    PROVE  EntryInv'
<1> USE DEF EntryInv, Inside
<1>1. \A u \in Threads : Inside(u)' => Inside(u) /\ arg'[u] = arg[u]
  BY DEF Building, Ending
<1> QED
  BY <1>1

\* Returning takes a thread out of an entry and touches no other thread.
LEMMA ReturnFrame ==
    ASSUME TypeOK, NEW t \in Threads, NEW forget \in BOOLEAN,
           Return(t, forget) \/ ReturnRefused(t)
    PROVE  /\ ~Inside(t)'
           /\ \A u \in Threads \ {t} : pc'[u] = pc[u] /\ arg'[u] = arg[u]
BY DEF Return, ReturnRefused, TypeOK, Inside, Building, Ending

\* Nobody is inside an entry whose flag is clear or whose streams are open.
LEMMA Outsiders ==
    ASSUME EntryInv, NEW i \in Slots, ~is_running[i] \/ stream[i] \in Runs,
           NEW u \in Threads, Inside(u)
    PROVE  arg[u] # i
BY DEF EntryInv, Inside

\* Claiming a free entry: nobody is inside, and its streams are not open.
LEMMA ClaimInv ==
    ASSUME TypeOK, EntryInv, NEW t \in Threads, ClaimFree(t)
    PROVE  EntryInv'
<1> DEFINE i == arg[t]
<1>1. /\ i \in Slots /\ ~is_running[i] /\ pc[t] = "claim"
      /\ is_running' = [is_running EXCEPT ![i] = TRUE]
      /\ pc' = [pc EXCEPT ![t] = "fill"] /\ UNCHANGED <<stream, arg>>
  BY DEF ClaimFree, Goto, TypeOK
<1>2. stream[i] \notin Runs
  BY <1>1 DEF EntryInv
<1>3. \A u \in Threads \ {t} : Inside(u)' => Inside(u) /\ arg[u] # i
  BY <1>1, Outsiders DEF TypeOK, Inside, Building, Ending
<1>4. Inside(t)' /\ is_running'[i]
  BY <1>1 DEF TypeOK, Inside, Building
<1> HIDE DEF i
<1>5. \A j \in Slots : stream'[j] \in Runs => is_running'[j]
  BY <1>1 DEF TypeOK, EntryInv
<1>6. ASSUME NEW u \in Threads, Inside(u)'
      PROVE  /\ is_running'[arg'[u]] /\ stream'[arg'[u]] \notin Runs
             /\ \A v \in Threads \ {u} : Inside(v)' => arg'[v] # arg'[u]
  <2>1. CASE u = t
    BY <2>1, <1>1, <1>2, <1>3, <1>4 DEF i
  <2>2. CASE u # t
    <3>1. Inside(u) /\ arg[u] # i /\ arg[u] \in Slots
      BY <1>6, <2>2, <1>3 DEF TypeOK
    <3>2. is_running[arg[u]] /\ stream[arg[u]] \notin Runs
      BY <3>1 DEF EntryInv, Inside
    <3>3. \A v \in Threads \ {u} : Inside(v)' => arg[v] # arg[u]
      BY <3>1, <1>3 DEF EntryInv, Inside, i
    <3> QED
      BY <1>1, <3>1, <3>2, <3>3 DEF TypeOK
  <2> QED
    BY <2>1, <2>2
<1> QED
  BY <1>5, <1>6 DEF EntryInv, Inside

\* Filling in a claimed entry: its streams become null.
LEMMA FillInv ==
    ASSUME TypeOK, EntryInv, NEW t \in Threads, Fill(t)
    PROVE  EntryInv'
<1> DEFINE i == arg[t]
<1>1. /\ i \in Slots /\ pc[t] = "fill" /\ Inside(t)
      /\ is_running' = [is_running EXCEPT ![i] = TRUE]
      /\ stream' = [stream EXCEPT ![i] = None]
      /\ pc' = [pc EXCEPT ![t] = "fork"] /\ UNCHANGED arg
  BY DEF Fill, Goto, TypeOK, Inside, Building
<1>2. \A u \in Threads : Inside(u)' => Inside(u)
  BY <1>1 DEF TypeOK, Inside, Building, Ending
<1> HIDE DEF i
<1>3. \A j \in Slots : is_running[j] => is_running'[j]
  BY <1>1 DEF TypeOK
<1>4. \A j \in Slots : stream'[j] \in Runs => stream[j] \in Runs
  BY <1>1, Bounds DEF TypeOK
<1> QED
  BY <1>1, <1>2, <1>3, <1>4 DEF EntryInv, Inside, TypeOK

\* Opening the streams takes the thread out of its entry, and nobody else is
\* inside.
LEMMA OpenInv ==
    ASSUME TypeOK, EntryInv, NEW t \in Threads, Open(t)
    PROVE  EntryInv'
<1> DEFINE i == arg[t]
<1>1. /\ i \in Slots /\ pc[t] = "open" /\ Inside(t)
      /\ stream' = [stream EXCEPT ![i] = mine[t]]
      /\ pc' = [pc EXCEPT ![t] = "check"] /\ UNCHANGED <<is_running, arg>>
  BY DEF Open, Goto, TypeOK, Inside, Building
<1>2. is_running[i] /\ \A u \in Threads \ {t} : Inside(u) => arg[u] # i
  BY <1>1 DEF EntryInv, Inside
<1>3. \A u \in Threads : Inside(u)' => Inside(u) /\ u # t
  BY <1>1 DEF TypeOK, Inside, Building, Ending
<1> HIDE DEF i
<1>4. \A j \in Slots \ {i} : stream'[j] = stream[j]
  BY <1>1 DEF TypeOK
<1> QED
  BY <1>1, <1>2, <1>3, <1>4 DEF EntryInv, Inside, TypeOK

\* Closing open streams: the entry is marked running and nobody is inside.
LEMMA CloseInv ==
    ASSUME TypeOK, EntryInv, NEW t \in Threads, Close(t), stream[arg[t]] \in Runs
    PROVE  EntryInv'
<1> DEFINE i == arg[t]
<1>1. /\ i \in Slots
      /\ stream' = [stream EXCEPT ![i] = Dangling]
      /\ pc' = [pc EXCEPT ![t] = "remove"] /\ UNCHANGED <<is_running, arg>>
  BY DEF Close, Goto, TypeOK
<1>2. is_running[i] /\ \A u \in Threads : Inside(u) => arg[u] # i
  BY Outsiders, <1>1 DEF EntryInv
<1>3. \A u \in Threads \ {t} : Inside(u)' => Inside(u)
  BY <1>1 DEF TypeOK, Inside, Building, Ending
<1> HIDE DEF i
<1>4. stream'[i] \notin Runs /\ \A j \in Slots \ {i} : stream'[j] = stream[j]
  BY <1>1, Bounds DEF TypeOK
<1>5. \A j \in Slots : stream'[j] \in Runs => is_running'[j]
  BY <1>1, <1>4 DEF EntryInv
<1>6. ASSUME NEW u \in Threads, Inside(u)'
      PROVE  /\ is_running'[arg'[u]] /\ stream'[arg'[u]] \notin Runs
             /\ \A v \in Threads \ {u} : Inside(v)' => arg'[v] # arg'[u]
  <2>1. CASE u = t
    BY <2>1, <1>1, <1>2, <1>3, <1>4 DEF i
  <2>2. CASE u # t
    BY <2>2, <1>6, <1>1, <1>2, <1>3, <1>4 DEF i, EntryInv, Inside, TypeOK
  <2> QED
    BY <2>1, <2>2
<1> QED
  BY <1>5, <1>6 DEF EntryInv, Inside

\* Releasing an entry: the thread that does it was alone inside.
LEMMA ClearInv ==
    ASSUME TypeOK, EntryInv, NEW t \in Threads, Clear(t)
    PROVE  EntryInv'
<1> DEFINE i == arg[t]
<1>1. /\ i \in Slots /\ pc[t] = "clear" /\ Inside(t)
      /\ is_running' = [is_running EXCEPT ![i] = FALSE]
      /\ UNCHANGED stream
  BY DEF Clear, TypeOK, Inside, Ending
<1>2. ~Inside(t)' /\ \A u \in Threads \ {t} : pc'[u] = pc[u] /\ arg'[u] = arg[u]
  BY ReturnFrame DEF Clear
<1>3. stream[i] \notin Runs /\ \A u \in Threads \ {t} : Inside(u) => arg[u] # i
  BY <1>1 DEF EntryInv, Inside
<1>4. \A u \in Threads : Inside(u)' => u # t /\ Inside(u) /\ arg'[u] = arg[u]
  BY <1>2 DEF Inside, Building, Ending
<1> HIDE DEF i
<1>5. \A j \in Slots \ {i} : is_running'[j] = is_running[j]
  BY <1>1 DEF TypeOK
<1> QED
  BY <1>1, <1>3, <1>4, <1>5 DEF EntryInv, Inside, TypeOK

\* Every other step of a worker leaves flags and streams alone.
LEMMA OtherInv ==
    ASSUME TypeOK, EntryInv, NEW t \in Threads, Step(t) \/ ReadInput(t) \/ AbandonInput(t),
           ~ClaimFree(t), ~Fill(t), ~Open(t), ~Clear(t),
           Close(t) => stream[arg[t]] \notin Runs
    PROVE  EntryInv'
<1>1. UNCHANGED <<is_running, stream>>
  BY DEF Step, NullSlot0, ClaimTaken, BuildError, Fork, Check, Kill, Probe, Write,
         WriteBroken, Stall, ReadInput, AbandonInput, ReadSome, ReadEof, ReadBad,
         StdinMissing, AssertRunning, Wait, Close, Remove, entries
<1>2. \/ Return(t, TRUE) \/ Return(t, FALSE) \/ ReturnRefused(t)
      \/ /\ \A u \in Threads \ {t} : pc'[u] = pc[u] /\ arg'[u] = arg[u]
         /\ Inside(t)' => Inside(t) /\ arg'[t] = arg[t]
  <2> USE DEF TypeOK, Goto, Fail, Inside, Building, Ending
  <2>1. CASE NullSlot0(t) \/ ClaimTaken(t) \/ BuildError(t) \/ Fork(t)
    BY <2>1 DEF NullSlot0, ClaimTaken, BuildError, Fork
  <2>2. CASE Check(t)
    <3>1. /\ pc[t] = "check"
          /\ \/ Return(t, TRUE)
             \/ UNCHANGED <<pc, arg>>
             \/ pc' = [pc EXCEPT ![t] = AfterCheck(call[t])] /\ UNCHANGED arg
      BY <2>2 DEF Check
    <3>2. AfterCheck(call[t]) \in {"kill", "read", "probe"}
      BY DEF AfterCheck
    <3> QED
      BY <3>1, <3>2
  <2>3. CASE Kill(t) \/ Probe(t)
    BY <2>3 DEF Kill, Probe
  <2>4. CASE \/ Write(t) \/ WriteBroken(t) \/ ReadSome(t) \/ ReadEof(t)
             \/ ReadBad(t) \/ StdinMissing(t)
    BY <2>4 DEF Write, WriteBroken, ReadSome, ReadEof, ReadBad, StdinMissing
  <2>5. CASE AssertRunning(t) \/ Wait(t) \/ Close(t) \/ Remove(t)
    BY <2>5 DEF AssertRunning, Wait, Close, Remove
  <2>6. CASE Stall(t) \/ ReadInput(t) \/ AbandonInput(t)
    BY <2>6 DEF Stall, ReadInput, AbandonInput
  <2> QED
    BY <2>1, <2>2, <2>3, <2>4, <2>5, <2>6 DEF Step
<1> QED
  BY <1>1, <1>2, ReturnFrame, OutsideStep

\* The invariant is inductive.
LEMMA NextInv == TypeOK /\ EntryInv /\ [Next]_vars => TypeOK' /\ EntryInv'
<1> SUFFICES ASSUME TypeOK, EntryInv, [Next]_vars
             PROVE  TypeOK' /\ EntryInv'
  OBVIOUS
<1>1. CASE UNCHANGED vars
  BY <1>1 DEF vars, entries, world, threads, TypeOK, EntryInv, Building, Ending
<1>2. ASSUME NEW t \in Threads, Step(t) PROVE TypeOK' /\ EntryInv'
  <2>1. TypeOK'
    BY <1>2, StepType
  <2>2. EntryInv'
    BY <1>2, ClaimInv, FillInv, OpenInv, CloseInv, ClearInv, OtherInv
  <2> QED
    BY <2>1, <2>2
<1>3. ASSUME NEW t \in Threads, Request(t) PROVE TypeOK' /\ EntryInv'
  <2>1. /\ UNCHANGED <<is_running, stream>> /\ ~Inside(t)'
        /\ \A u \in Threads \ {t} : pc'[u] = pc[u] /\ arg'[u] = arg[u]
    BY <1>3 DEF Request, RunRequest, RunRejected, RunMalformed, StopRequest,
                InputRequest, ProgramRequest, Names, Goto, Fail, entries, threads,
                TypeOK, Inside, Building, Ending
  <2> QED
    BY <1>3, <2>1, RequestType, OutsideStep
<1>4. ASSUME NEW k \in Runs, Mute(k) \/ End(k) PROVE TypeOK' /\ EntryInv'
  BY <1>4, ProgramType DEF entries, threads, EntryInv, Building, Ending
<1>5. ASSUME NEW t \in Threads, ReadInput(t) \/ AbandonInput(t) PROVE TypeOK' /\ EntryInv'
  <2>1. pc[t] = "flush"
    BY <1>5 DEF ReadInput, AbandonInput
  <2>2. ~ClaimFree(t) /\ ~Fill(t) /\ ~Open(t) /\ ~Clear(t) /\ ~Close(t)
    BY <2>1 DEF ClaimFree, Fill, Open, Clear, Close
  <2> QED
    BY <1>5, <2>2, CallType, OtherInv
<1> QED
  BY <1>1, <1>2, <1>3, <1>4, <1>5 DEF Next, Stopped

\* Every variable of the table has its type, in every reachable state.
THEOREM TypeCorrect == SafetySpec => []TypeOK
<1> QED
  BY InitInv, NextInv, PTL DEF SafetySpec

\* A free slot has no open streams; building and what follows fclose exclude
\* each other in an entry.
THEOREM EntryInvariance == SafetySpec => []EntryInv
<1> QED
  BY InitInv, NextInv, PTL DEF SafetySpec

\* Between compare_exchange and fdopen an entry belongs to one build_and_run, and
\* no clean-up is past its fclose there.
THEOREM EntriesExclusive == SafetySpec => []ClaimExclusive
<1>1. EntryInv => ClaimExclusive
  BY DEF EntryInv, ClaimExclusive
<1> QED
  BY <1>1, EntryInvariance, PTL

-----------------------------------------------------------------------------
(* Polite clients                                                          *)

\* Who is at work: a thread in execute_program, one that has its slot, and one
\* in a call about an id.
Runner(t) == call[t] = "run"
Claimed(t) == Runner(t) /\ pc[t] \notin {"null0", "claim"}
Caller(t) == call[t] \in {"stop", "input", "program"}

\* Run k has a child that was not reaped.
Lives(k) == child[k] \in {"alive", "mute", "zombie"}

\* The paths of slot i are those of run k; only those of slot 0 may be lost.
PathsOf(i, k) == paths[i] = k \/ (i = 0 /\ paths[i] = None)

\* Entry i is that of run k, complete, and the child is there.
Whole(i, k) == pid[i] = k /\ stream[i] = k /\ PathsOf(i, k) /\ Lives(k)

\* Which places belong to which operation.
PlaceInv ==
    \A t \in Threads :
        /\ call[t] = "none" => pc[t] = "idle"
        /\ Runner(t) => pc[t] \in {"null0", "claim", "fill", "fork", "open", "check",
                                   "probe", "write", "flush"}
        /\ Caller(t) => pc[t] \in {"check", "kill", "probe", "write", "flush", "read",
                                   "assert", "wait", "close", "remove", "clear"}

\* What execute_program has done with its run so far, at each place.
RunnerInv ==
    \A t \in Threads : Runner(t) =>
        /\ mine[t] \in files
        /\ ~Claimed(t) => child[mine[t]] = "unborn" /\ slot[mine[t]] = Dangling
        /\ Claimed(t) => /\ is_running[arg[t]] /\ slot[mine[t]] = arg[t]
                         /\ known[arg[t]] = None
        /\ pc[t] \in {"fill", "fork"} => child[mine[t]] = "unborn"
        /\ pc[t] = "fill" => \A k \in Runs : Lives(k) => pid[arg[t]] # k
        /\ pc[t] = "fork" => pid[arg[t]] = None /\ PathsOf(arg[t], mine[t])
        /\ pc[t] = "open" => /\ pid[arg[t]] = mine[t] /\ Lives(mine[t])
                             /\ PathsOf(arg[t], mine[t])
        /\ pc[t] \in {"check", "probe", "write", "flush"} => Whole(arg[t], mine[t])

\* What a call about an id finds in the entry, at each place.
CallerInv ==
    \A t \in Threads : Caller(t) =>
        /\ mine[t] # None /\ known[arg[t]] = mine[t]
        /\ pc[t] \in {"check", "kill", "probe", "write", "flush", "read", "assert", "wait"} =>
               Whole(arg[t], mine[t])
        /\ pc[t] \in {"close", "remove", "clear"} => child[mine[t]] = "reaped"
        /\ pc[t] \in {"close", "remove"} => PathsOf(arg[t], mine[t])
        /\ pc[t] = "close" => stream[arg[t]] = mine[t]
        /\ pc[t] = "clear" => arg[t] = 0 \/ mine[t] \notin files

\* No two threads work on one run or on one entry.
DistinctInv ==
    \A t, u \in Threads : t # u =>
        /\ Runner(t) /\ Runner(u) => mine[t] # mine[u]
        /\ Claimed(t) /\ Claimed(u) => arg[t] # arg[u]
        /\ Caller(t) /\ Caller(u) => arg[t] # arg[u]

\* An id that a client knows names the entry of its run, and the child is
\* there unless a call is about to release the entry.
KnownInv ==
    \A i \in Slots : known[i] # None =>
        /\ is_running[i] /\ slot[known[i]] = i /\ pid[i] = known[i]
        /\ \/ Whole(i, known[i])
           \/ \E t \in Threads : /\ Caller(t) /\ arg[t] = i
                                 /\ pc[t] \in {"close", "remove", "clear"}

\* A child lives in its own slot, and the files of a reaped one wait for the
\* call that reaped it.
ChildInv ==
    /\ \A k \in Runs :
           /\ child[k] # "unborn" => slot[k] \in Slots
           /\ Lives(k) => is_running[slot[k]] /\ pid[slot[k]] = k
           /\ child[k] = "reaped" /\ k \in files =>
                  \/ slot[k] = 0
                  \/ \E t \in Threads : /\ Caller(t) /\ mine[t] = k
                                        /\ pc[t] \in {"close", "remove"}
    /\ \A i \in Slots : pid[i] \in Runs => slot[pid[i]] = i

\* The inductive invariant of polite clients.
PoliteInv ==
    /\ TypeOK
    /\ PlaceInv
    /\ RunnerInv
    /\ CallerInv
    /\ DistinctInv
    /\ KnownInv
    /\ ChildInv
    /\ OnlySigpipe

\* A slot marked running is known to a client, or some build_and_run has it.
OwnedInv ==
    \A i \in Slots : is_running[i] =>
        known[i] # None \/ \E t \in Threads : Claimed(t) /\ arg[t] = i

\* Going on in a call that finds the entry of its own run complete.
LEMMA WholeMove ==
    ASSUME PoliteInv, TypeOK', NEW t \in Threads,
           pc[t] \in {"check", "probe", "write", "read", "kill", "assert"},
           Whole(arg[t], mine[t]),
           \E l \in {"probe", "write", "flush", "read", "kill", "assert", "wait"} :
               /\ pc' = [pc EXCEPT ![t] = l]
               /\ Runner(t) => l \in {"probe", "write", "flush"},
           UNCHANGED <<entries, world, known, call, arg, mine, refused, fault>>
    PROVE  PoliteInv'
<1> USE Bounds DEF PoliteInv, TypeOK, Runner, Claimed, Caller, Lives, PathsOf, Whole,
                    None, Dangling, entries, world
<1>3. PlaceInv'
  BY DEF PlaceInv
<1>4. RunnerInv'
  BY DEF RunnerInv
<1>5. CallerInv'
  BY DEF CallerInv
<1>6. DistinctInv'
  BY DEF DistinctInv
<1>7. KnownInv'
  BY DEF KnownInv
<1>8. ChildInv'
  BY DEF ChildInv
<1>9. OnlySigpipe'
  BY DEF OnlySigpipe
<1> QED
  BY <1>3, <1>4, <1>5, <1>6, <1>7, <1>8, <1>9

\* Returning from a call that leaves the entry of its run complete: the id of a
\* new run becomes known.
LEMMA WholeReturn ==
    ASSUME PoliteInv, TypeOK', NEW t \in Threads,
           pc[t] \in {"probe", "write", "flush", "read"}, Whole(arg[t], mine[t]),
           Return(t, FALSE), UNCHANGED <<entries, world, refused, fault>>
    PROVE  PoliteInv'
<1> USE Bounds DEF PoliteInv, TypeOK, Runner, Claimed, Caller, Lives, PathsOf, Whole,
                    None, Dangling, entries, world
<1>3. PlaceInv'
  BY DEF PlaceInv, Return
<1>4. RunnerInv'
  BY DEF RunnerInv, DistinctInv, Return
<1>5. CallerInv'
  BY DEF RunnerInv, CallerInv, Return
<1>6. DistinctInv'
  BY DEF DistinctInv, Return
<1>7. KnownInv'
  BY DEF RunnerInv, KnownInv, Return
<1>8. ChildInv'
  BY DEF ChildInv, Return
<1>9. OnlySigpipe'
  BY DEF OnlySigpipe
<1> QED
  BY <1>3, <1>4, <1>5, <1>6, <1>7, <1>8, <1>9

\* In every place from check_pidx to waitpid a call finds the entry of its own
\* run complete.
LEMMA FindsWhole ==
    ASSUME PoliteInv, NEW t \in Threads,
           pc[t] \in {"check", "kill", "probe", "write", "flush", "read", "assert", "wait"}
    PROVE  /\ Runner(t) \/ Caller(t)
           /\ Runner(t) => pc[t] \in {"check", "probe", "write", "flush"}
           /\ mine[t] \in Runs /\ arg[t] \in Slots
           /\ Whole(arg[t], mine[t]) /\ is_running[arg[t]]
<1> USE DEF PoliteInv, TypeOK, Runner, Caller, Claimed
<1>1. Runner(t) \/ Caller(t)
  BY DEF PlaceInv
<1>2. CASE Runner(t)
  BY <1>2 DEF PlaceInv, RunnerInv
<1>3. CASE Caller(t)
  BY <1>3 DEF CallerInv, KnownInv
<1> QED
  BY <1>1, <1>2, <1>3

\* waitpid is behind it: the call alone still knows the id.
LEMMA FindsReaped ==
    ASSUME PoliteInv, NEW t \in Threads, pc[t] \in {"close", "remove", "clear"}
    PROVE  /\ Caller(t) /\ mine[t] \in Runs /\ arg[t] \in Slots
           /\ known[arg[t]] = mine[t] /\ child[mine[t]] = "reaped"
           /\ pc[t] # "clear" => PathsOf(arg[t], mine[t])
           /\ pc[t] = "close" => stream[arg[t]] = mine[t]
<1> USE DEF PoliteInv, TypeOK, Runner, Caller
<1>1. Caller(t)
  BY DEF PlaceInv
<1> QED
  BY <1>1 DEF CallerInv

\* Clearing the paths of slot 0 disturbs nothing: they are allowed to be lost.
LEMMA NullSlot0Polite ==
    ASSUME PoliteInv, TypeOK', NEW t \in Threads,
           NullSlot0(t)
    PROVE  PoliteInv'
<1> USE Bounds DEF PoliteInv, TypeOK, Runner, Claimed, Caller, Lives, PathsOf, Whole,
                    None, Dangling, entries, world
<1>3. PlaceInv'
  BY DEF NullSlot0, Goto, PlaceInv
<1>4. RunnerInv'
  BY DEF NullSlot0, Goto, RunnerInv
<1>5. CallerInv'
  BY DEF NullSlot0, Goto, CallerInv
<1>6. DistinctInv'
  BY DEF NullSlot0, Goto, DistinctInv
<1>7. KnownInv'
  BY DEF NullSlot0, Goto, KnownInv
<1>8. ChildInv'
  BY DEF NullSlot0, Goto, ChildInv
<1>9. OnlySigpipe'
  BY DEF NullSlot0, OnlySigpipe
<1> QED
  BY <1>3, <1>4, <1>5, <1>6, <1>7, <1>8, <1>9

\* A taken slot: on to the next one, or the answer that there is none.
LEMMA ClaimTakenPolite ==
    ASSUME PoliteInv, TypeOK', NEW t \in Threads,
           ClaimTaken(t)
    PROVE  PoliteInv'
<1> USE Bounds DEF PoliteInv, TypeOK, Runner, Claimed, Caller, Lives, PathsOf, Whole,
                    None, Dangling, entries, world
<1>3. PlaceInv'
  BY DEF ClaimTaken, ReturnRefused, PlaceInv
<1>4. RunnerInv'
  BY DEF ClaimTaken, ReturnRefused, RunnerInv
<1>5. CallerInv'
  BY DEF ClaimTaken, ReturnRefused, PlaceInv, CallerInv
<1>6. DistinctInv'
  BY DEF ClaimTaken, ReturnRefused, PlaceInv, DistinctInv
<1>7. KnownInv'
  BY DEF ClaimTaken, ReturnRefused, KnownInv
<1>8. ChildInv'
  BY DEF ClaimTaken, ReturnRefused, ChildInv
<1>9. OnlySigpipe'
  BY DEF ClaimTaken, OnlySigpipe
<1> QED
  BY <1>3, <1>4, <1>5, <1>6, <1>7, <1>8, <1>9

\* A free slot is nobody's and no child lives in it.
LEMMA ClaimFreePolite ==
    ASSUME PoliteInv, TypeOK', NEW t \in Threads,
           ClaimFree(t)
    PROVE  PoliteInv'
<1> USE Bounds DEF PoliteInv, TypeOK, Runner, Claimed, Caller, Lives, PathsOf, Whole,
                    None, Dangling, entries, world
<1>1. /\ pc[t] = "claim" /\ Runner(t) /\ mine[t] \in Runs /\ arg[t] \in Slots
      /\ slot[mine[t]] = Dangling /\ child[mine[t]] = "unborn" /\ ~is_running[arg[t]]
  BY DEF ClaimFree, PlaceInv, RunnerInv
<1>3. PlaceInv'
  BY DEF ClaimFree, Goto, PlaceInv
<1>4. RunnerInv'
  BY DEF ClaimFree, Goto, PlaceInv, RunnerInv, DistinctInv, KnownInv, ChildInv
<1>5. CallerInv'
  BY DEF ClaimFree, Goto, CallerInv
<1>6. DistinctInv'
  BY DEF ClaimFree, Goto, RunnerInv, DistinctInv
<1>7. KnownInv'
  BY DEF ClaimFree, Goto, PlaceInv, RunnerInv, CallerInv, KnownInv
<1>8. ChildInv'
  <2>1. \A k \in Runs : k # mine[t] => slot'[k] = slot[k]
    BY <1>1 DEF ClaimFree
  <2>2. \A i \in Slots : i # arg[t] => is_running'[i] = is_running[i]
    BY <1>1 DEF ClaimFree
  <2>3. \A i \in Slots : pid[i] # mine[t]
    BY <1>1, Bounds DEF ChildInv, Slots
  <2>4. /\ slot'[mine[t]] = arg[t] /\ is_running'[arg[t]]
        /\ UNCHANGED <<pid, child, files, call, mine>>
        /\ \A u \in Threads : pc[u] \in {"close", "remove"} => pc'[u] = pc[u]
    BY <1>1 DEF ClaimFree, Goto
  <2>5. \A k \in Runs : child[k] # "unborn" => k # mine[t] /\ slot[k] \in Slots
    BY <1>1 DEF ChildInv
  <2> QED
    BY <1>1, <2>1, <2>2, <2>3, <2>4, <2>5 DEF ChildInv
<1>9. OnlySigpipe'
  BY DEF ClaimFree, OnlySigpipe
<1> QED
  BY <1>3, <1>4, <1>5, <1>6, <1>7, <1>8, <1>9

\* Zeroing the entry loses no child.
LEMMA FillPolite ==
    ASSUME PoliteInv, TypeOK', NEW t \in Threads,
           Fill(t)
    PROVE  PoliteInv'
<1> USE Bounds DEF PoliteInv, TypeOK, Runner, Claimed, Caller, Lives, PathsOf, Whole,
                    None, Dangling, entries, world
<1>3. PlaceInv'
  BY DEF Fill, Goto, PlaceInv
<1>4. RunnerInv'
  BY DEF Fill, Goto, PlaceInv, RunnerInv, DistinctInv
<1>5. CallerInv'
  BY DEF Fill, Goto, PlaceInv, RunnerInv, CallerInv
<1>6. DistinctInv'
  BY DEF Fill, Goto, DistinctInv
<1>7. KnownInv'
  BY DEF Fill, Goto, PlaceInv, RunnerInv, KnownInv
<1>8. ChildInv'
  BY DEF Fill, Goto, PlaceInv, RunnerInv, ChildInv
<1>9. OnlySigpipe'
  BY DEF Fill, OnlySigpipe
<1> QED
  BY <1>3, <1>4, <1>5, <1>6, <1>7, <1>8, <1>9

\* pipe or fork fails: the slot stays marked running, and nobody has it.
LEMMA BuildErrorPolite ==
    ASSUME PoliteInv, TypeOK', NEW t \in Threads,
           BuildError(t)
    PROVE  PoliteInv'
<1> USE Bounds DEF PoliteInv, TypeOK, Runner, Claimed, Caller, Lives, PathsOf, Whole,
                    None, Dangling, entries, world
<1>1. pc[t] = "fork" /\ Runner(t)
  BY DEF BuildError, PlaceInv
<1>a. /\ Claimed(t) /\ PathsOf(arg[t], mine[t]) /\ pid[arg[t]] = None
      /\ child[mine[t]] = "unborn" /\ mine[t] \in Runs
  BY <1>1 DEF RunnerInv
<1>b. /\ pc' = [pc EXCEPT ![t] = "idle"]
      /\ call' = [call EXCEPT ![t] = "none"] /\ arg' = [arg EXCEPT ![t] = 0]
      /\ mine' = [mine EXCEPT ![t] = None]
  BY DEF BuildError, ReturnRefused
<1>c. /\ \A i \in Slots : i # arg[t] => paths'[i] = paths[i] /\ pid'[i] = pid[i]
      /\ pid'[arg[t]] \in {None, Dangling}
  BY <1>a DEF BuildError
<1>d. paths[arg[t]] # Dangling
  BY <1>a
<1>2. UNCHANGED <<is_running, stream, world, known, refused, fault>>
  BY <1>d DEF BuildError, ReturnRefused
<1>3. PlaceInv'
  BY <1>1, <1>a, <1>b, <1>c, <1>2 DEF PlaceInv
<1>4. RunnerInv'
  BY <1>1, <1>a, <1>b, <1>c, <1>2 DEF RunnerInv, DistinctInv
<1>5. CallerInv'
  BY <1>1, <1>a, <1>b, <1>c, <1>2 DEF RunnerInv, CallerInv
<1>6. DistinctInv'
  BY <1>1, <1>a, <1>b, <1>c, <1>2 DEF DistinctInv
<1>7. KnownInv'
  BY <1>1, <1>a, <1>b, <1>c, <1>2 DEF KnownInv
<1>8. ChildInv'
  BY <1>1, <1>a, <1>b, <1>c, <1>2 DEF ChildInv
<1>9. OnlySigpipe'
  BY <1>1, <1>a, <1>b, <1>c, <1>2 DEF OnlySigpipe
<1> QED
  BY <1>3, <1>4, <1>5, <1>6, <1>7, <1>8, <1>9

\* The child is born in the slot of its run.
LEMMA ForkPolite ==
    ASSUME PoliteInv, TypeOK', NEW t \in Threads,
           Fork(t)
    PROVE  PoliteInv'
<1> USE Bounds DEF PoliteInv, TypeOK, Runner, Claimed, Caller, Lives, PathsOf, Whole,
                    None, Dangling, entries, world
<1>3. PlaceInv'
  BY DEF Fork, Goto, PlaceInv
<1>4. RunnerInv'
  BY DEF Fork, Goto, PlaceInv, RunnerInv, DistinctInv, ChildInv
<1>5. CallerInv'
  BY DEF Fork, Goto, PlaceInv, RunnerInv, CallerInv
<1>6. DistinctInv'
  BY DEF Fork, Goto, DistinctInv
<1>7. KnownInv'
  BY DEF Fork, Goto, PlaceInv, RunnerInv, KnownInv
<1>8. ChildInv'
  BY DEF Fork, Goto, PlaceInv, RunnerInv, ChildInv
<1>9. OnlySigpipe'
  BY DEF Fork, OnlySigpipe
<1> QED
  BY <1>3, <1>4, <1>5, <1>6, <1>7, <1>8, <1>9

\* With its streams the entry is complete.
LEMMA OpenPolite ==
    ASSUME PoliteInv, TypeOK', NEW t \in Threads,
           Open(t)
    PROVE  PoliteInv'
<1> USE Bounds DEF PoliteInv, TypeOK, Runner, Claimed, Caller, Lives, PathsOf, Whole,
                    None, Dangling, entries, world
<1>3. PlaceInv'
  BY DEF Open, Goto, PlaceInv
<1>4. RunnerInv'
  BY DEF Open, Goto, PlaceInv, RunnerInv
<1>5. CallerInv'
  BY DEF Open, Goto, PlaceInv, RunnerInv, CallerInv
<1>6. DistinctInv'
  BY DEF Open, Goto, DistinctInv
<1>7. KnownInv'
  BY DEF Open, Goto, PlaceInv, RunnerInv, KnownInv
<1>8. ChildInv'
  BY DEF Open, Goto, ChildInv
<1>9. OnlySigpipe'
  BY DEF Open, OnlySigpipe
<1> QED
  BY <1>3, <1>4, <1>5, <1>6, <1>7, <1>8, <1>9

\* The signal goes to the own child, which becomes a zombie.
LEMMA KillPolite ==
    ASSUME PoliteInv, TypeOK', NEW t \in Threads,
           Kill(t)
    PROVE  PoliteInv'
<1> USE Bounds DEF PoliteInv, TypeOK, Runner, Claimed, Caller, Lives, PathsOf, Whole,
                    None, Dangling, entries, world
<1>1. /\ pc[t] = "kill" /\ Caller(t) /\ mine[t] \in Runs /\ arg[t] \in Slots
      /\ Whole(arg[t], mine[t])
  BY FindsWhole DEF Kill
<1>a. pid[arg[t]] = mine[t] /\ mine[t] \notin {None, Dangling} /\ child[mine[t]] # "reaped"
  BY <1>1
<1>2. /\ pc' = [pc EXCEPT ![t] = "assert"]
      /\ child' = [child EXCEPT ![mine[t]] = "zombie"]
      /\ UNCHANGED <<entries, files, slot, known, call, arg, mine, refused, fault>>
  BY <1>a DEF Kill, Goto
<1>3. PlaceInv'
  BY <1>1, <1>2 DEF PlaceInv
<1>4. RunnerInv'
  BY <1>1, <1>2 DEF RunnerInv
<1>5. CallerInv'
  BY <1>1, <1>2 DEF CallerInv
<1>6. DistinctInv'
  BY <1>1, <1>2 DEF DistinctInv
<1>7. KnownInv'
  BY <1>1, <1>2 DEF KnownInv
<1>8. ChildInv'
  BY <1>1, <1>2 DEF ChildInv
<1>9. OnlySigpipe'
  BY <1>1, <1>2 DEF OnlySigpipe
<1> QED
  BY <1>3, <1>4, <1>5, <1>6, <1>7, <1>8, <1>9

\* waitpid is called for the own child, and reaps it once it is a zombie.
LEMMA WaitPolite ==
    ASSUME PoliteInv, TypeOK', NEW t \in Threads,
           Wait(t)
    PROVE  PoliteInv'
<1> USE Bounds DEF PoliteInv, TypeOK, Runner, Claimed, Caller, Lives, PathsOf, Whole,
                    None, Dangling, entries, world
<1>1. /\ pc[t] = "wait" /\ Caller(t) /\ mine[t] \in Runs /\ arg[t] \in Slots
      /\ Whole(arg[t], mine[t])
  BY FindsWhole DEF Wait
<1>a. pid[arg[t]] \in Runs /\ {pid[arg[t]]} \cap Unreaped = {mine[t]}
  BY <1>1 DEF Unreaped
<1>2. /\ pc' = [pc EXCEPT ![t] = "close"]
      /\ child[mine[t]] = "zombie" /\ child' = [child EXCEPT ![mine[t]] = "reaped"]
      /\ UNCHANGED <<entries, files, slot, known, call, arg, mine, refused, fault>>
  BY <1>a DEF Wait, Goto
<1>3. PlaceInv'
  BY <1>1, <1>2 DEF PlaceInv
<1>4. RunnerInv'
  BY <1>1, <1>2 DEF RunnerInv, CallerInv, KnownInv
<1>5. CallerInv'
  BY <1>1, <1>2 DEF CallerInv, DistinctInv, KnownInv
<1>6. DistinctInv'
  BY <1>1, <1>2 DEF DistinctInv
<1>7. KnownInv'
  BY <1>1, <1>2 DEF CallerInv, KnownInv
<1>8. ChildInv'
  BY <1>1, <1>2 DEF ChildInv
<1>9. OnlySigpipe'
  BY <1>1, <1>2 DEF OnlySigpipe
<1> QED
  BY <1>3, <1>4, <1>5, <1>6, <1>7, <1>8, <1>9

\* The streams that are closed are the own ones, and they are open.
LEMMA ClosePolite ==
    ASSUME PoliteInv, TypeOK', NEW t \in Threads,
           Close(t)
    PROVE  PoliteInv'
<1> USE Bounds DEF PoliteInv, TypeOK, Runner, Claimed, Caller, Lives, PathsOf, Whole,
                    None, Dangling, entries, world
<1>1. /\ pc[t] = "close" /\ Caller(t) /\ mine[t] \in Runs /\ arg[t] \in Slots
      /\ stream[arg[t]] = mine[t] /\ known[arg[t]] = mine[t]
  BY FindsReaped DEF Close
<1>2. /\ pc' = [pc EXCEPT ![t] = "remove"]
      /\ stream' = [stream EXCEPT ![arg[t]] = Dangling]
      /\ UNCHANGED <<is_running, pid, paths, world, known, call, arg, mine, refused, fault>>
  BY <1>1 DEF Close, Goto
<1>3. PlaceInv'
  BY <1>1, <1>2 DEF PlaceInv
<1>4. RunnerInv'
  BY <1>1, <1>2 DEF RunnerInv
<1>5. CallerInv'
  BY <1>1, <1>2 DEF CallerInv, DistinctInv
<1>6. DistinctInv'
  BY <1>1, <1>2 DEF DistinctInv
<1>7. KnownInv'
  BY <1>1, <1>2 DEF KnownInv
<1>8. ChildInv'
  BY <1>1, <1>2 DEF ChildInv
<1>9. OnlySigpipe'
  BY <1>1, <1>2 DEF OnlySigpipe
<1> QED
  BY <1>3, <1>4, <1>5, <1>6, <1>7, <1>8, <1>9

\* The paths are not freed twice, and beyond slot 0 the own files go.
LEMMA RemovePolite ==
    ASSUME PoliteInv, TypeOK', NEW t \in Threads,
           Remove(t)
    PROVE  PoliteInv'
<1> USE Bounds DEF PoliteInv, TypeOK, Runner, Claimed, Caller, Lives, PathsOf, Whole,
                    None, Dangling, entries, world
<1>1. /\ pc[t] = "remove" /\ Caller(t) /\ mine[t] \in Runs /\ arg[t] \in Slots
      /\ PathsOf(arg[t], mine[t]) /\ known[arg[t]] = mine[t]
  BY FindsReaped DEF Remove
<1>a. paths[arg[t]] # Dangling
  BY <1>1
<1>b. /\ pc' = [pc EXCEPT ![t] = "clear"]
      /\ files' = files \ {paths[arg[t]]}
      /\ paths' = [paths EXCEPT ![arg[t]] = IF @ = None THEN None ELSE Dangling]
      /\ UNCHANGED <<is_running, pid, stream, child, slot, known, call, arg, mine,
                     refused, fault>>
  BY <1>a DEF Remove, Goto
<1>2. /\ files' \subseteq files /\ files \ {mine[t]} \subseteq files'
      /\ arg[t] = 0 \/ mine[t] \notin files'
      /\ \A i \in Slots : i # arg[t] => paths'[i] = paths[i]
  BY <1>1, <1>b
<1>3. PlaceInv'
  BY <1>1, <1>b, <1>2 DEF PlaceInv
<1>4. RunnerInv'
  BY <1>1, <1>b, <1>2 DEF PlaceInv, RunnerInv, CallerInv
<1>5. CallerInv'
  BY <1>1, <1>b, <1>2 DEF CallerInv, DistinctInv
<1>6. DistinctInv'
  BY <1>1, <1>b, <1>2 DEF DistinctInv
<1>7. KnownInv'
  BY <1>1, <1>b, <1>2 DEF KnownInv
<1>8. ChildInv'
  BY <1>1, <1>b, <1>2 DEF KnownInv, ChildInv
<1>9. OnlySigpipe'
  BY <1>1, <1>b, <1>2 DEF OnlySigpipe
<1> QED
  BY <1>3, <1>4, <1>5, <1>6, <1>7, <1>8, <1>9

\* The slot becomes free, and nobody knows its id any more.
LEMMA ClearPolite ==
    ASSUME PoliteInv, TypeOK', NEW t \in Threads,
           Clear(t)
    PROVE  PoliteInv'
<1> USE Bounds DEF PoliteInv, TypeOK, Runner, Claimed, Caller, Lives, PathsOf, Whole,
                    None, Dangling, entries, world
<1>3. PlaceInv'
  BY DEF Clear, Return, PlaceInv
<1>4. RunnerInv'
  BY DEF Clear, Return, PlaceInv, RunnerInv, CallerInv
<1>5. CallerInv'
  BY DEF Clear, Return, PlaceInv, CallerInv, DistinctInv
<1>6. DistinctInv'
  BY DEF Clear, Return, DistinctInv
<1>7. KnownInv'
  BY DEF Clear, Return, PlaceInv, KnownInv
<1>8. ChildInv'
  BY DEF Clear, Return, PlaceInv, CallerInv, KnownInv, ChildInv
<1>9. OnlySigpipe'
  BY DEF Clear, OnlySigpipe
<1> QED
  BY <1>3, <1>4, <1>5, <1>6, <1>7, <1>8, <1>9

\* The only thing that ends the server: the reader of the own input is gone.
LEMMA WriteBrokenPolite ==
    ASSUME PoliteInv, TypeOK', NEW t \in Threads,
           WriteBroken(t) \/ AbandonInput(t)
    PROVE  PoliteInv'
<1> USE Bounds DEF PoliteInv, TypeOK, Runner, Claimed, Caller, Lives, PathsOf, Whole,
                    None, Dangling, entries, world
<1>1. stream[arg[t]] = mine[t] /\ mine[t] \in Runs
  BY FindsWhole DEF WriteBroken, AbandonInput
<1>2. /\ fault' = "sigpipe"
      /\ UNCHANGED <<entries, world, known, pc, call, arg, mine, refused>>
  BY <1>1 DEF WriteBroken, AbandonInput, Fail
<1>3. PlaceInv'
  BY <1>2 DEF PlaceInv
<1>4. RunnerInv'
  BY <1>2 DEF RunnerInv
<1>5. CallerInv'
  BY <1>2 DEF CallerInv
<1>6. DistinctInv'
  BY <1>2 DEF DistinctInv
<1>7. KnownInv'
  BY <1>2 DEF KnownInv
<1>8. ChildInv'
  BY <1>2 DEF ChildInv
<1>9. OnlySigpipe'
  BY <1>2 DEF OnlySigpipe
<1> QED
  BY <1>3, <1>4, <1>5, <1>6, <1>7, <1>8, <1>9

\* check_pidx, check_pid_alive, the assertion of cleanup_child_process and what
\* is read from and written to the streams: the entry stays as it is.
LEMMA CallPolite ==
    ASSUME PoliteInv, TypeOK', NEW t \in Threads,
           \/ Check(t) \/ Probe(t) \/ Write(t) \/ ReadSome(t) \/ ReadEof(t)
           \/ ReadBad(t) \/ AssertRunning(t) \/ Stall(t) \/ ReadInput(t)
    PROVE  PoliteInv'
<1>1. /\ Runner(t) \/ Caller(t)
      /\ Runner(t) => pc[t] \in {"check", "probe", "write", "flush"}
      /\ mine[t] \in Runs /\ arg[t] \in Slots
      /\ Whole(arg[t], mine[t]) /\ is_running[arg[t]]
  BY FindsWhole DEF Check, Probe, Write, ReadSome, ReadEof, ReadBad, AssertRunning,
                    Stall, ReadInput
<1>2. CASE Check(t)
  <2>1. /\ pc[t] = "check" /\ pc' = [pc EXCEPT ![t] = AfterCheck(call[t])]
        /\ UNCHANGED <<entries, world, known, call, arg, mine, refused, fault>>
    BY <1>1, <1>2 DEF Check, Goto
  <2>2. /\ AfterCheck(call[t]) \in {"probe", "read", "kill"}
        /\ Runner(t) => AfterCheck(call[t]) = "probe"
    BY DEF AfterCheck, Runner
  <2> QED
    BY <1>1, <2>1, <2>2, WholeMove
<1>3. CASE Probe(t)
  <2>1. pid[arg[t]] # None /\ ~(pid[arg[t]] \in Runs /\ child[pid[arg[t]]] = "reaped")
    BY <1>1, Bounds DEF Whole, Lives
  <2>2. /\ pc[t] = "probe" /\ pc' = [pc EXCEPT ![t] = "write"]
        /\ UNCHANGED <<entries, world, known, call, arg, mine, refused, fault>>
    BY <2>1, <1>3 DEF Probe, Goto
  <2> QED
    BY <1>1, <2>2, WholeMove
<1>4. CASE Write(t) \/ ReadSome(t) \/ ReadInput(t)
  BY <1>1, <1>4, WholeReturn DEF Write, ReadSome, ReadInput
<1>5. CASE ReadEof(t)
  <2>1. pc[t] = "read" /\ ~Runner(t)
    BY <1>1, <1>5 DEF ReadEof
  <2> QED
    BY <1>1, <1>5, <2>1, WholeMove DEF ReadEof, Goto
<1>6. CASE ReadBad(t)
  BY <1>1, <1>6 DEF ReadBad, Whole
<1>7. CASE AssertRunning(t)
  <2>1. /\ pc[t] = "assert" /\ pc' = [pc EXCEPT ![t] = "wait"]
        /\ UNCHANGED <<entries, world, known, call, arg, mine, refused, fault>>
    BY <1>1, <1>7 DEF AssertRunning, Goto
  <2> QED
    BY <1>1, <2>1, WholeMove
<1>8. CASE Stall(t)
  <2>1. /\ pc[t] = "write" /\ pc' = [pc EXCEPT ![t] = "flush"]
        /\ UNCHANGED <<entries, world, known, call, arg, mine, refused, fault>>
    BY <1>8 DEF Stall, Goto
  <2> QED
    BY <1>1, <2>1, WholeMove
<1> QED
  BY <1>2, <1>3, <1>4, <1>5, <1>6, <1>7, <1>8

\* A new run gets a number that no thread, slot or client uses.
LEMMA RunRequestPolite ==
    ASSUME PoliteInv, TypeOK', NEW t \in Threads,
           RunRequest(t)
    PROVE  PoliteInv'
<1> USE Bounds DEF PoliteInv, TypeOK, Runner, Claimed, Caller, Lives, PathsOf, Whole,
                    None, Dangling, entries, world
<1>3. PlaceInv'
  BY DEF RunRequest, Goto, PlaceInv
<1>4. RunnerInv'
  BY DEF RunRequest, Fresh, Goto, RunnerInv
<1>5. CallerInv'
  BY DEF RunRequest, Fresh, Goto, CallerInv
<1>6. DistinctInv'
  BY DEF RunRequest, Fresh, Goto, RunnerInv, DistinctInv
<1>7. KnownInv'
  BY DEF RunRequest, Goto, KnownInv
<1>8. ChildInv'
  BY DEF RunRequest, Fresh, Goto, ChildInv
<1>9. OnlySigpipe'
  BY DEF RunRequest, OnlySigpipe
<1> QED
  BY <1>3, <1>4, <1>5, <1>6, <1>7, <1>8, <1>9

\* A rejected run leaves a file and nothing else.
LEMMA RunRejectedPolite ==
    ASSUME PoliteInv, TypeOK', NEW t \in Threads,
           RunRejected(t)
    PROVE  PoliteInv'
<1> USE Bounds DEF PoliteInv, TypeOK, Runner, Claimed, Caller, Lives, PathsOf, Whole,
                    None, Dangling, entries, world
<1>3. PlaceInv'
  BY DEF RunRejected, threads, PlaceInv
<1>4. RunnerInv'
  BY DEF RunRejected, threads, RunnerInv
<1>5. CallerInv'
  BY DEF RunRejected, Fresh, threads, CallerInv
<1>6. DistinctInv'
  BY DEF RunRejected, threads, DistinctInv
<1>7. KnownInv'
  BY DEF RunRejected, threads, KnownInv
<1>8. ChildInv'
  BY DEF RunRejected, Fresh, threads, ChildInv
<1>9. OnlySigpipe'
  BY DEF RunRejected, OnlySigpipe
<1> QED
  BY <1>3, <1>4, <1>5, <1>6, <1>7, <1>8, <1>9


\* A polite client names an id it knows, and no other call is about it.
LEMMA NamesPolite ==
    ASSUME PoliteInv, TypeOK', NEW t \in Threads,
           Polite, NEW i \in Slots, NEW op \in {"stop", "input", "program"}, Names(t, op, i)
    PROVE  PoliteInv'
<1> USE Bounds DEF PoliteInv, TypeOK, Runner, Claimed, Caller, Lives, PathsOf, Whole,
                    None, Dangling, entries, world
<1>3. PlaceInv'
  BY DEF Names, Goto, PlaceInv
<1>4. RunnerInv'
  BY DEF Names, Goto, RunnerInv
<1>5. CallerInv'
  BY DEF Names, Goto, CallerInv, KnownInv
<1>6. DistinctInv'
  BY DEF Names, Goto, DistinctInv
<1>7. KnownInv'
  BY DEF Names, Goto, KnownInv
<1>8. ChildInv'
  BY DEF Names, Goto, ChildInv
<1>9. OnlySigpipe'
  BY DEF Names, OnlySigpipe
<1> QED
  BY <1>3, <1>4, <1>5, <1>6, <1>7, <1>8, <1>9

\* A user's program that closes its output or ends still waits for waitpid.
LEMMA ProgramPolite ==
    ASSUME PoliteInv, TypeOK', NEW k \in Runs, Mute(k) \/ End(k)
    PROVE  PoliteInv'
<1> USE Bounds DEF PoliteInv, TypeOK, Runner, Claimed, Caller, Lives, PathsOf, Whole,
                    None, Dangling, entries, world
<1>1. /\ Lives(k) /\ \E s \in {"mute", "zombie"} : child' = [child EXCEPT ![k] = s]
      /\ UNCHANGED <<entries, files, slot, known, pc, call, arg, mine, refused, fault>>
  BY DEF Mute, End, threads
<1>3. PlaceInv'
  BY <1>1 DEF PlaceInv
<1>4. RunnerInv'
  BY <1>1 DEF RunnerInv
<1>5. CallerInv'
  BY <1>1 DEF CallerInv
<1>6. DistinctInv'
  BY <1>1 DEF DistinctInv
<1>7. KnownInv'
  BY <1>1 DEF KnownInv
<1>8. ChildInv'
  BY <1>1 DEF ChildInv
<1>9. OnlySigpipe'
  BY <1>1 DEF OnlySigpipe
<1> QED
  BY <1>3, <1>4, <1>5, <1>6, <1>7, <1>8, <1>9

-----------------------------------------------------------------------------
(* The invariant, and what follows from it *)

\* The zeroed table is nobody's.
LEMMA InitPolite == Init => PoliteInv /\ OwnedInv
<1> SUFFICES ASSUME Init
             PROVE  PoliteInv /\ OwnedInv
  OBVIOUS
<1> USE Bounds DEF Init
<1>1. TypeOK
  BY InitInv
<1>2. PlaceInv /\ RunnerInv /\ CallerInv /\ DistinctInv
  BY DEF PlaceInv, RunnerInv, CallerInv, DistinctInv, Runner, Claimed, Caller
<1>3. KnownInv /\ ChildInv /\ OnlySigpipe /\ OwnedInv
  BY DEF KnownInv, ChildInv, OnlySigpipe, OwnedInv, Lives
<1> QED
  BY <1>1, <1>2, <1>3 DEF PoliteInv

\* A worker's step keeps it.
LEMMA StepPolite ==
    ASSUME Polite, PoliteInv, NEW t \in Threads, Step(t)
    PROVE  PoliteInv'
<1>1. TypeOK'
  BY StepType DEF PoliteInv
<1>2. ~StdinMissing(t)
  BY DEF StdinMissing
<1> QED
  BY <1>1, <1>2, NullSlot0Polite, ClaimTakenPolite, ClaimFreePolite, FillPolite,
     BuildErrorPolite, ForkPolite, OpenPolite, KillPolite, WaitPolite, ClosePolite,
     RemovePolite, ClearPolite, WriteBrokenPolite, CallPolite DEF Step

\* So does a request of a polite client.
LEMMA RequestPolite ==
    ASSUME Polite, PoliteInv, NEW t \in Threads, Request(t)
    PROVE  PoliteInv'
<1>1. TypeOK'
  BY RequestType DEF PoliteInv
<1>2. ~RunMalformed(t)
  BY DEF RunMalformed
<1>3. CASE StopRequest(t) \/ InputRequest(t) \/ ProgramRequest(t)
  <2>1. PICK i \in Slots, op \in {"stop", "input", "program"} : Names(t, op, i)
    BY <1>3 DEF StopRequest, InputRequest, ProgramRequest
  <2> QED
    BY <1>1, <2>1, NamesPolite
<1> QED
  BY <1>1, <1>2, <1>3, RunRequestPolite, RunRejectedPolite DEF Request

\* So does every step of the system.
LEMMA NextPolite ==
    ASSUME Polite
    PROVE  PoliteInv /\ [Next]_vars => PoliteInv'
<1> SUFFICES ASSUME PoliteInv, [Next]_vars
             PROVE  PoliteInv'
  OBVIOUS
<1>1. CASE UNCHANGED vars
  BY <1>1 DEF vars, entries, world, threads, PoliteInv, TypeOK, PlaceInv, RunnerInv,
              CallerInv, DistinctInv, KnownInv, ChildInv, OnlySigpipe, Runner, Claimed,
              Caller, Lives, PathsOf, Whole
<1>2. ASSUME NEW k \in Runs, Mute(k) \/ End(k) PROVE PoliteInv'
  BY <1>2, ProgramType, ProgramPolite DEF PoliteInv
<1>3. ASSUME NEW t \in Threads, ReadInput(t) \/ AbandonInput(t) PROVE PoliteInv'
  BY <1>3, CallType, CallPolite, WriteBrokenPolite DEF PoliteInv
<1> QED
  BY <1>1, <1>2, <1>3, StepPolite, RequestPolite DEF Next, Stopped

\* A step of one thread loses no slot if it marks none but its own, takes no id
\* of a slot that stays marked from the clients, and gives up its own slot only
\* for a client that learns the id.
LEMMA OwnedFrame ==
    ASSUME OwnedInv, NEW t \in Threads,
           \A u \in Threads \ {t} : Claimed(u) => Claimed(u)' /\ arg'[u] = arg[u],
           \A i \in Slots : is_running'[i] =>
               \/ is_running[i] /\ (known[i] # None => known'[i] # None)
               \/ Claimed(t)' /\ arg'[t] = i,
           Claimed(t) => \/ Claimed(t)' /\ arg'[t] = arg[t]
                         \/ known'[arg[t]] # None
    PROVE  OwnedInv'
<1> SUFFICES ASSUME NEW i \in Slots, is_running'[i]
             PROVE  known'[i] # None \/ \E u \in Threads : Claimed(u)' /\ arg'[u] = i
  BY DEF OwnedInv
<1>1. CASE is_running[i] /\ known[i] # None
  BY <1>1
<1>2. CASE is_running[i] /\ \E u \in Threads : Claimed(u) /\ arg[u] = i
  BY <1>2
<1> QED
  BY <1>1, <1>2 DEF OwnedInv

\* Unless pipe or fork fails, no step loses a slot.
LEMMA StepOwned ==
    ASSUME Failing = {}, PoliteInv, OwnedInv, NEW t \in Threads,
           Step(t) \/ ReadInput(t) \/ AbandonInput(t)
    PROVE  OwnedInv'
<1> USE DEF PoliteInv, TypeOK, Runner, Claimed, entries, world, Goto, Fail
<1>1. CASE NullSlot0(t) \/ ClaimTaken(t) \/ Wait(t)
  BY <1>1, OwnedFrame DEF NullSlot0, ClaimTaken, ReturnRefused, Wait
<1>2. CASE ClaimFree(t)
  <2>1. /\ pc' = [pc EXCEPT ![t] = "fill"] /\ UNCHANGED <<known, call, arg>>
        /\ is_running' = [is_running EXCEPT ![arg[t]] = TRUE]
        /\ call[t] = "run" /\ pc[t] = "claim"
    BY <1>2 DEF ClaimFree, PlaceInv, Caller
  <2>2. \A i \in Slots : i # arg[t] => is_running'[i] = is_running[i]
    BY <2>1
  <2>3. Claimed(t)' /\ arg'[t] = arg[t] /\ ~Claimed(t)
    BY <2>1
  <2>4. \A u \in Threads \ {t} : Claimed(u) => Claimed(u)' /\ arg'[u] = arg[u]
    BY <2>1
  <2> QED
    BY <2>1, <2>2, <2>3, <2>4, OwnedFrame
<1>3. CASE Fill(t) \/ Fork(t) \/ Open(t)
  <2>1. /\ \E l \in {"fork", "open", "check"} : pc' = [pc EXCEPT ![t] = l]
        /\ UNCHANGED <<known, call, arg>>
        /\ call[t] = "run" /\ is_running[arg[t]] /\ pc[t] \in {"fill", "fork", "open"}
        /\ \/ is_running' = is_running
           \/ is_running' = [is_running EXCEPT ![arg[t]] = TRUE]
    BY <1>3 DEF Fill, Fork, Open, PlaceInv, Caller, RunnerInv
  <2>2. \A i \in Slots : is_running'[i] = is_running[i]
    BY <2>1
  <2> QED
    BY <2>1, <2>2, OwnedFrame
<1>4. CASE BuildError(t)
  BY <1>4 DEF BuildError
<1>5. CASE Check(t) \/ Kill(t) \/ Probe(t)
  <2>1. /\ mine[t] \in Runs /\ arg[t] \in Slots
        /\ Whole(arg[t], mine[t]) /\ is_running[arg[t]]
    BY <1>5, FindsWhole DEF Check, Kill, Probe
  <2>2. /\ UNCHANGED <<is_running, known, call, arg>>
        /\ \E l \in {"probe", "read", "kill", "assert", "write"} : pc' = [pc EXCEPT ![t] = l]
    <3>1. AfterCheck(call[t]) \in {"probe", "read", "kill"}
      BY DEF AfterCheck
    <3>2. CASE Check(t)
      BY <2>1, <3>1, <3>2 DEF Check
    <3>3. CASE Kill(t)
      BY <2>1, <3>3, Bounds DEF Kill, Whole, Lives
    <3>4. CASE Probe(t)
      <4>1. pid[arg[t]] # None /\ ~(pid[arg[t]] \in Runs /\ child[pid[arg[t]]] = "reaped")
        BY <2>1, Bounds DEF Whole, Lives
      <4> QED
        BY <4>1, <3>4 DEF Probe
    <3> QED
      BY <1>5, <3>2, <3>3, <3>4
  <2> QED
    BY <2>2, OwnedFrame
<1>6. CASE Write(t) \/ ReadSome(t) \/ ReadInput(t)
  <2>1. Return(t, FALSE) /\ UNCHANGED is_running
    BY <1>6 DEF Write, ReadSome, ReadInput
  <2>2. mine[t] \in Runs /\ arg[t] \in Slots
    BY <1>6, FindsWhole DEF Write, ReadSome, ReadInput
  <2> QED
    BY <2>1, <2>2, Bounds, OwnedFrame DEF Return
<1>7. CASE \/ StdinMissing(t) \/ WriteBroken(t) \/ AbandonInput(t) \/ ReadEof(t)
           \/ ReadBad(t) \/ AssertRunning(t) \/ Stall(t)
  <2>1. /\ UNCHANGED <<is_running, known, call, arg>>
        /\ pc' = pc \/ \E l \in {"assert", "wait", "flush"} : pc' = [pc EXCEPT ![t] = l]
    BY <1>7 DEF StdinMissing, WriteBroken, AbandonInput, ReadEof, ReadBad, AssertRunning,
                Stall
  <2> QED
    BY <2>1, OwnedFrame
<1>8. CASE Close(t) \/ Remove(t)
  <2>1. /\ UNCHANGED <<is_running, known, call, arg>>
        /\ pc' = pc \/ \E l \in {"remove", "clear"} : pc' = [pc EXCEPT ![t] = l]
    BY <1>8 DEF Close, Remove
  <2> QED
    BY <2>1, OwnedFrame
<1>9. CASE Clear(t)
  <2>1. Caller(t)
    BY <1>9, FindsReaped DEF Clear
  <2> QED
    BY <2>1, <1>9, OwnedFrame DEF Clear, Return, Caller
<1> QED
  BY <1>1, <1>2, <1>3, <1>4, <1>5, <1>6, <1>7, <1>8, <1>9 DEF Step

\* Nor does any other step of the system.
LEMMA NextOwned ==
    ASSUME Failing = {}
    PROVE  PoliteInv /\ OwnedInv /\ [Next]_vars => OwnedInv'
<1> SUFFICES ASSUME PoliteInv, OwnedInv, [Next]_vars
             PROVE  OwnedInv'
  OBVIOUS
<1> USE DEF Runner, Claimed, entries, world, threads
<1>1. CASE UNCHANGED vars
  BY <1>1 DEF vars, OwnedInv
<1>2. ASSUME NEW t \in Threads, Request(t) PROVE OwnedInv'
  <2>1. /\ UNCHANGED <<is_running, known>> /\ call[t] = "none"
        /\ \A u \in Threads \ {t} : pc'[u] = pc[u] /\ call'[u] = call[u] /\ arg'[u] = arg[u]
    <3>1. pc[t] = "idle"
      BY <1>2 DEF Request, RunRequest, RunRejected, RunMalformed, StopRequest, InputRequest,
                  ProgramRequest, Names
    <3>2. /\ call[t] = "none"
          /\ DOMAIN pc = Threads /\ DOMAIN call = Threads /\ DOMAIN arg = Threads
      BY <3>1 DEF PoliteInv, PlaceInv, Caller, TypeOK
    <3>3. CASE RunRequest(t) \/ RunRejected(t) \/ RunMalformed(t)
      BY <3>2, <3>3 DEF RunRequest, RunRejected, RunMalformed, Goto, Fail
    <3>4. CASE StopRequest(t) \/ InputRequest(t) \/ ProgramRequest(t)
      BY <3>2, <3>4 DEF StopRequest, InputRequest, ProgramRequest, Names, Goto
    <3> QED
      BY <1>2, <3>3, <3>4 DEF Request
  <2> QED
    BY <2>1, OwnedFrame
<1>3. ASSUME NEW k \in Runs, Mute(k) \/ End(k) PROVE OwnedInv'
  BY <1>3 DEF Mute, End, OwnedInv
<1> QED
  BY <1>1, <1>2, <1>3, StepOwned DEF Next, Stopped

\* Who holds which run and which slot, when all clients are polite.
THEOREM PoliteInvariance == ASSUME Polite PROVE SafetySpec => []PoliteInv
<1>1. Init => PoliteInv
  BY InitPolite
<1>2. PoliteInv /\ [Next]_vars => PoliteInv'
  BY NextPolite
<1> QED
  BY <1>1, <1>2, PTL DEF SafetySpec

\* The server never loses track of a program, whatever pipe and fork do.
THEOREM ChildrenHaveSlots == ASSUME Polite PROVE SafetySpec => []ChildHasSlot
<1>1. PoliteInv => ChildHasSlot
  BY DEF PoliteInv, ChildInv, ChildHasSlot, Unreaped, Lives
<1> QED
  BY <1>1, PoliteInvariance, PTL

\* Every access of a request is to the program its client got the id for.
THEOREM ActsOnOwn == ASSUME Polite PROVE SafetySpec => []ActsOnOwnProcess
<1>1. PoliteInv => ActsOnOwnProcess
  <2> SUFFICES ASSUME PoliteInv, NEW t \in Threads, call[t] # "none",
                      pc[t] \in {"kill", "probe", "write", "flush", "read", "assert",
                                 "wait", "close"}
               PROVE  pid[arg[t]] = mine[t] /\ stream[arg[t]] = mine[t]
    BY DEF ActsOnOwnProcess
  <2>1. CASE pc[t] # "close"
    BY <2>1, FindsWhole DEF Whole
  <2>2. CASE pc[t] = "close"
    BY <2>2, FindsReaped, Bounds DEF PoliteInv, KnownInv
  <2> QED
    BY <2>1, <2>2
<1> QED
  BY <1>1, PoliteInvariance, PTL

\* The files of a program that was cleaned up are gone, except in slot 0.
THEOREM FilesRemoved == ASSUME Polite PROVE SafetySpec => []FilesRemovedBeyondSlot0
<1>1. PoliteInv => FilesRemovedBeyondSlot0
  <2> SUFFICES ASSUME PoliteInv, NEW k \in files, child[k] = "reaped", slot[k] # 0
               PROVE  \E t \in Threads : Cleaning(t) /\ arg[t] = slot[k]
    BY DEF FilesRemovedBeyondSlot0
  <2>1. PICK t \in Threads : Caller(t) /\ mine[t] = k /\ pc[t] \in {"close", "remove"}
    BY DEF PoliteInv, TypeOK, ChildInv
  <2>2. known[arg[t]] = k /\ k # None /\ arg[t] \in Slots
    BY <2>1 DEF PoliteInv, TypeOK, CallerInv
  <2>3. slot[k] = arg[t]
    BY <2>2 DEF PoliteInv, KnownInv
  <2> QED
    BY <2>1, <2>3 DEF Cleaning
<1> QED
  BY <1>1, PoliteInvariance, PTL

\* Polite clients end the server in one way only, by input that nobody reads any
\* more: the program has ended, or has closed its input.
THEOREM SigpipeOnly == ASSUME Polite PROVE SafetySpec => []OnlySigpipe
<1>1. PoliteInv => OnlySigpipe
  BY DEF PoliteInv
<1> QED
  BY <1>1, PoliteInvariance, PTL

\* If pipe and fork succeed, no slot is lost: one that is marked running is being
\* built, has a child, or is being cleaned up.
THEOREM SlotsHaveOwners ==
    ASSUME Polite, Failing = {}
    PROVE  SafetySpec => []SlotHasOwner
<1>1. Init => OwnedInv
  BY InitPolite
<1>2. PoliteInv /\ OwnedInv /\ [Next]_vars => OwnedInv'
  BY NextOwned
<1>3. PoliteInv /\ OwnedInv => SlotHasOwner
  <2> SUFFICES ASSUME PoliteInv, OwnedInv, NEW i \in Slots, is_running[i]
               PROVE  \/ pid[i] \in Unreaped
                      \/ \E t \in Threads : arg[t] = i /\ (Building(t) \/ Cleaning(t))
    BY DEF SlotHasOwner
  <2>1. CASE known[i] # None
    <3>1. /\ pid[i] = known[i] /\ known[i] \in Runs
          /\ \/ Lives(known[i])
             \/ \E t \in Threads : arg[t] = i /\ pc[t] \in {"close", "remove", "clear"}
      BY <2>1 DEF PoliteInv, TypeOK, KnownInv, Whole
    <3> QED
      BY <3>1 DEF Unreaped, Lives, Cleaning
  <2>2. CASE \E t \in Threads : Claimed(t) /\ arg[t] = i
    <3>1. PICK t \in Threads : Claimed(t) /\ arg[t] = i
      BY <2>2
    <3>2. pc[t] \in {"fill", "fork", "open", "check", "probe", "write", "flush"}
      BY <3>1 DEF PoliteInv, PlaceInv, Claimed
    <3>3. CASE pc[t] \in {"check", "probe", "write", "flush"}
      BY <3>1, <3>3, FindsWhole DEF Whole, Lives, Unreaped
    <3> QED
      BY <3>1, <3>2, <3>3 DEF Building
  <2> QED
    BY <2>1, <2>2 DEF OwnedInv
<1> QED
  BY <1>1, <1>2, <1>3, PoliteInvariance, PTL DEF SafetySpec
=============================================================================
