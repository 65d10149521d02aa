---------------------------- MODULE ProcessTable ----------------------------
(***************************************************************************)
(* gdbc/src/service.c: the table PROCESSES of the programs that users run, *)
(* and its four operations build_and_run, stop_process, pass_input_to_child*)
(* and get_output_from_child, as the request handlers of gdbc/src/main.c   *)
(* call them from the worker threads of the web server.  Only is_running   *)
(* is atomic, and no lock protects an entry: a step is one access to a     *)
(* field of an entry, or one system call.                                  *)
(*                                                                         *)
(* Runs are numbered; the child of run k has the process id k.  What a     *)
(* program prints or reads is left out.  fault names the first thing that  *)
(* ends the server or is undefined behaviour; nothing happens after it.    *)
(***************************************************************************)
EXTENDS Integers, FiniteSets

CONSTANTS Threads,              \* worker threads
          MaxProcess,           \* MAX_PROCESS
          MaxRuns,              \* bound: how many run requests come
          Polite,               \* clients send complete requests, use an id they
                                \* got, and make one call at a time with it
          Failing               \* system calls that may fail, of {"pipe", "fork"}

ASSUME TableAssumption ==
    /\ IsFiniteSet(Threads)
    /\ MaxProcess \in Nat \ {0}
    /\ MaxRuns \in Nat
    /\ Polite \in BOOLEAN
    /\ Failing \subseteq {"pipe", "fork"}

Slots == 0..(MaxProcess - 1)
Runs == 1..MaxRuns
None == 0                       \* no run; a null pointer; pid of a zeroed entry
Dangling == -1                  \* pointer to freed memory; pid after a failed fork

VARIABLES is_running,           \* PROCESSES[i].is_running
          pid,                  \* PROCESSES[i].pid
          stream,               \* PROCESSES[i].to_child and from_child
          paths,                \* PROCESSES[i]'s two paths
          child,                \* state of the child of each run
          files,                \* runs whose source or executable exists
          slot,                 \* slot each run was given (history)
          known,                \* run a client knows each id as, None if none
          pc, call, arg,        \* each thread's place, operation and pidx
          mine,                 \* run each thread's call is about
          refused,              \* TRUE once a run was refused before time
          fault                 \* "none", or what went wrong

entries == <<is_running, pid, stream, paths>>
world == <<child, files, slot>>
threads == <<pc, call, arg, mine>>
vars == <<entries, world, known, threads, refused, fault>>

Init ==
    /\ is_running = [i \in Slots |-> FALSE]
    /\ pid = [i \in Slots |-> None]
    /\ stream = [i \in Slots |-> None]
    /\ paths = [i \in Slots |-> None]
    /\ child = [k \in Runs |-> "unborn"]
    /\ files = {}
    /\ slot = [k \in Runs |-> Dangling]
    /\ known = [i \in Slots |-> None]
    /\ pc = [t \in Threads |-> "idle"]
    /\ call = [t \in Threads |-> "none"]
    /\ arg = [t \in Threads |-> 0]
    /\ mine = [t \in Threads |-> None]
    /\ refused = FALSE
    /\ fault = "none"

Goto(t, l) == pc' = [pc EXCEPT ![t] = l]
Fail(what) == fault' = what /\ UNCHANGED pc

\* The call returns.  A polite client forgets the id of a process it stopped
\* or was told is dead; the id of a run that succeeded becomes known.
Return(t, forget) ==
    /\ pc' = [pc EXCEPT ![t] = "idle"]
    /\ call' = [call EXCEPT ![t] = "none"]
    /\ arg' = [arg EXCEPT ![t] = 0]
    /\ mine' = [mine EXCEPT ![t] = None]
    /\ known' = IF call[t] = "run" THEN [known EXCEPT ![arg[t]] = mine[t]]
                ELSE IF forget THEN [known EXCEPT ![arg[t]] = None]
                ELSE known

ReturnRefused(t) ==
    /\ pc' = [pc EXCEPT ![t] = "idle"]
    /\ call' = [call EXCEPT ![t] = "none"]
    /\ arg' = [arg EXCEPT ![t] = 0]
    /\ mine' = [mine EXCEPT ![t] = None]
    /\ UNCHANGED known

-----------------------------------------------------------------------------
(* Requests *)

\* The next run for which no source file was written yet.
Fresh(k) ==
    /\ child[k] = "unborn" /\ k \notin files /\ slot[k] = Dangling
    /\ \A j \in Runs : j < k => child[j] # "unborn" \/ j \in files

\* execute_program writes the source file, then calls build_and_run.
RunRequest(t) ==
    /\ pc[t] = "idle"
    /\ \E k \in Runs : /\ Fresh(k)
                       /\ mine' = [mine EXCEPT ![t] = k]
                       /\ files' = files \cup {k}
    /\ call' = [call EXCEPT ![t] = "run"]
    /\ arg' = [arg EXCEPT ![t] = 0]
    /\ Goto(t, "null0")
    /\ UNCHANGED <<entries, child, slot, known, refused, fault>>

\* The compiler is neither gcc nor clang: the answer is 400, after the source
\* file was written, and nobody removes it.
RunRejected(t) ==
    /\ pc[t] = "idle"
    /\ \E k \in Runs : Fresh(k) /\ files' = files \cup {k}
    /\ UNCHANGED <<entries, child, slot, known, threads, refused, fault>>

\* validate_run_request tests the headers, the query and that the body is JSON,
\* but not that the body has a source_code, nor which language is named:
\* execute_program asserts that it is c or cpp.
RunMalformed(t) ==
    /\ pc[t] = "idle"
    /\ ~Polite
    /\ Fail("null element") \/ Fail("assert language")
    /\ UNCHANGED <<entries, world, known, call, arg, mine, refused>>

\* The callbacks pass on whatever number the client names as pid; the function
\* of service.c that each of them calls begins with check_pidx.
Names(t, op, i) ==
    /\ pc[t] = "idle"
    /\ Polite => /\ known[i] # None
                 /\ \A u \in Threads : call[u] = "none" \/ call[u] = "run" \/ arg[u] # i
    /\ call' = [call EXCEPT ![t] = op]
    /\ arg' = [arg EXCEPT ![t] = i]
    /\ mine' = [mine EXCEPT ![t] = known[i]]
    /\ Goto(t, "check")
    /\ UNCHANGED <<entries, world, known, refused, fault>>

StopRequest(t) == \E i \in Slots : Names(t, "stop", i)
InputRequest(t) == \E i \in Slots : Names(t, "input", i)
ProgramRequest(t) == \E i \in Slots : Names(t, "program", i)

Request(t) ==
    \/ RunRequest(t)
    \/ RunRejected(t)
    \/ RunMalformed(t)
    \/ StopRequest(t)
    \/ InputRequest(t)
    \/ ProgramRequest(t)

-----------------------------------------------------------------------------
(* build_and_run *)

\* Before it looks for a slot the function clears the paths of slot 0, whoever
\* has it.
NullSlot0(t) ==
    /\ pc[t] = "null0"
    /\ paths' = [paths EXCEPT ![0] = None]
    /\ Goto(t, "claim")
    /\ UNCHANGED <<is_running, pid, stream, world, known, call, arg, mine,
                   refused, fault>>

Unreaped == {k \in Runs : child[k] \in {"alive", "mute", "zombie"}}

\* Mutant: one slot too far.
ClaimTakenPast(t) ==
    /\ pc[t] = "claim"
    /\ is_running[arg[t]]
    /\ arg' = [arg EXCEPT ![t] = @ + 1]
    /\ UNCHANGED <<entries, world, known, pc, call, mine, refused, fault>>

\* compare_exchange fails: on to the next slot; behind the last one, give up.
ClaimTaken(t) ==
    /\ pc[t] = "claim"
    /\ is_running[arg[t]]
    /\ \/ /\ arg[t] < MaxProcess - 1
          /\ arg' = [arg EXCEPT ![t] = @ + 1]
          /\ UNCHANGED <<pc, call, mine, known, refused>>
       \/ /\ arg[t] = MaxProcess - 1
          /\ ReturnRefused(t)
          /\ refused' = (refused \/ Cardinality(Unreaped) < MaxProcess)
    /\ UNCHANGED <<entries, world, fault>>

\* Mutant: whether the exchange succeeded is not looked at.
ClaimUnchecked(t) ==
    /\ pc[t] = "claim"
    /\ is_running' = [is_running EXCEPT ![arg[t]] = TRUE]
    /\ slot' = [slot EXCEPT ![mine[t]] = arg[t]]
    /\ Goto(t, "fill")
    /\ UNCHANGED <<pid, stream, paths, child, files, known, call, arg, mine,
                   refused, fault>>

\* compare_exchange succeeds.
ClaimFree(t) ==
    /\ pc[t] = "claim"
    /\ ~is_running[arg[t]]
    /\ is_running' = [is_running EXCEPT ![arg[t]] = TRUE]
    /\ slot' = [slot EXCEPT ![mine[t]] = arg[t]]
    /\ Goto(t, "fill")
    /\ UNCHANGED <<pid, stream, paths, child, files, known, call, arg, mine,
                   refused, fault>>

\* PROCESSES[pidx] = (struct process_running) { ... }: pid and streams are zero.
Fill(t) ==
    /\ pc[t] = "fill"
    /\ is_running' = [is_running EXCEPT ![arg[t]] = TRUE]
    /\ pid' = [pid EXCEPT ![arg[t]] = None]
    /\ stream' = [stream EXCEPT ![arg[t]] = None]
    /\ paths' = [paths EXCEPT ![arg[t]] = mine[t]]
    /\ Goto(t, "fork")
    /\ UNCHANGED <<world, known, call, arg, mine, refused, fault>>

\* build_and_run_error: the paths are freed, is_running stays set.
BuildError(t) ==
    /\ pc[t] = "fork"
    /\ \/ "pipe" \in Failing /\ UNCHANGED pid
       \/ "fork" \in Failing /\ pid' = [pid EXCEPT ![arg[t]] = Dangling]
    /\ paths' = [paths EXCEPT ![arg[t]] = IF @ = None THEN None ELSE Dangling]
    /\ fault' = IF paths[arg[t]] = Dangling THEN "double free" ELSE fault
    /\ ReturnRefused(t)
    /\ UNCHANGED <<is_running, stream, world, refused>>

\* Mutant: the pid stays in a local variable.
ForkUnrecorded(t) ==
    /\ pc[t] = "fork"
    /\ child' = [child EXCEPT ![mine[t]] = "alive"]
    /\ Goto(t, "open")
    /\ UNCHANGED <<entries, files, slot, known, call, arg, mine, refused, fault>>

Fork(t) ==
    /\ pc[t] = "fork"
    /\ child' = [child EXCEPT ![mine[t]] = "alive"]
    /\ pid' = [pid EXCEPT ![arg[t]] = mine[t]]
    /\ Goto(t, "open")
    /\ UNCHANGED <<is_running, stream, paths, files, slot, known, call, arg,
                   mine, refused, fault>>

\* fdopen of both pipes; then execute_program passes the request's stdin on.
Open(t) ==
    /\ pc[t] = "open"
    /\ stream' = [stream EXCEPT ![arg[t]] = mine[t]]
    /\ Goto(t, "check")
    /\ UNCHANGED <<is_running, pid, paths, world, known, call, arg, mine,
                   refused, fault>>

-----------------------------------------------------------------------------
(* stop_process, pass_input_to_child, get_output_from_child *)

AfterCheck(op) == CASE op = "stop"    -> "kill"
                    [] op = "program" -> "read"
                    [] OTHER          -> "probe"

\* check_pidx.  execute_program asserts that its own id is still valid.
Check(t) ==
    /\ pc[t] = "check"
    /\ IF is_running[arg[t]]
       THEN /\ Goto(t, AfterCheck(call[t]))
            /\ UNCHANGED <<call, arg, mine, known, fault>>
       ELSE IF call[t] = "run"
       THEN Fail("assert result") /\ UNCHANGED <<call, arg, mine, known>>
       ELSE Return(t, TRUE) /\ UNCHANGED fault
    /\ UNCHANGED <<entries, world, refused>>

\* execute_program and input_callback take the value of the element stdin,
\* whether the body has one or not.
StdinMissing(t) ==
    /\ pc[t] = "check"
    /\ call[t] \in {"run", "input"}
    /\ ~Polite
    /\ Fail("null element")
    /\ UNCHANGED <<entries, world, known, call, arg, mine, refused>>

\* Mutant: a signal that the program may ignore.
KillGently(t) ==
    /\ pc[t] = "kill"
    /\ Goto(t, "assert")
    /\ UNCHANGED <<entries, world, known, call, arg, mine, refused, fault>>

\* kill(pid, SIGKILL): 0 is the server's own process group, -1 is everybody.
\* A zombie can be killed; a child that was reaped cannot.
Kill(t) ==
    /\ pc[t] = "kill"
    /\ LET p == pid[arg[t]]
       IN  \/ /\ p \in {None, Dangling}
              /\ Fail("kill group")
              /\ UNCHANGED <<child, call, arg, mine, known>>
           \/ /\ p \in Runs
              /\ child[p] = "reaped"
              /\ Return(t, TRUE)
              /\ UNCHANGED <<child, fault>>
           \/ /\ p \in Runs
              /\ child[p] # "reaped"
              /\ child' = [child EXCEPT ![p] = "zombie"]
              /\ Goto(t, "assert")
              /\ UNCHANGED <<call, arg, mine, known, fault>>
    /\ UNCHANGED <<entries, files, slot, refused>>

\* check_pid_alive: kill(pid, 0) succeeds for a zombie too, and what comes
\* back is the pid, so 0 counts as dead and -1 as alive.
Probe(t) ==
    /\ pc[t] = "probe"
    /\ LET p == pid[arg[t]]
       IN  IF p = None \/ (p \in Runs /\ child[p] = "reaped")
           THEN Return(t, FALSE)
           ELSE Goto(t, "write") /\ UNCHANGED <<call, arg, mine, known>>
    /\ UNCHANGED <<entries, world, refused, fault>>

BadStream(s) == IF s = None THEN "null stream" ELSE "closed stream"

\* A blocked fflush keeps the stream's lock, which fprintf and fclose take.
Unlocked(t) == \A u \in Threads : pc[u] = "flush" => arg[u] # arg[t]

\* fprintf and fflush.  The pipe takes the input while somebody holds its
\* reading end: the child, or another child that inherited it (PipeInheritance).
Write(t) ==
    /\ pc[t] = "write"
    /\ stream[arg[t]] \in Runs
    /\ Unlocked(t)
    /\ Return(t, FALSE)
    /\ UNCHANGED <<entries, world, refused, fault>>

\* If nobody holds it, SIGPIPE, which is neither ignored nor handled.  A program
\* gives it up by ending, but also by closing its input while it runs, which
\* nothing here sees.
WriteBroken(t) ==
    /\ pc[t] = "write"
    /\ Unlocked(t)
    /\ Fail(IF stream[arg[t]] \in Runs THEN "sigpipe" ELSE BadStream(stream[arg[t]]))
    /\ UNCHANGED <<entries, world, known, call, arg, mine, refused>>

\* If the pipe is full, fflush blocks until its reader makes room.
Stall(t) ==
    /\ pc[t] = "write"
    /\ stream[arg[t]] \in Runs
    /\ Unlocked(t)
    /\ Goto(t, "flush")
    /\ UNCHANGED <<entries, world, known, call, arg, mine, refused, fault>>

\* A read that returns output, also what an ended child left in the pipe, or
\* EAGAIN ends the call.
ReadSome(t) ==
    /\ pc[t] = "read"
    /\ stream[arg[t]] \in Runs
    /\ Return(t, FALSE)
    /\ UNCHANGED <<entries, world, refused, fault>>

\* End of file: the child has exited, or has closed its output.
ReadEof(t) ==
    /\ pc[t] = "read"
    /\ stream[arg[t]] \in Runs
    /\ child[stream[arg[t]]] # "alive"
    /\ Goto(t, "assert")
    /\ UNCHANGED <<entries, world, known, call, arg, mine, refused, fault>>

ReadBad(t) ==
    /\ pc[t] = "read"
    /\ stream[arg[t]] \notin Runs
    /\ Fail(BadStream(stream[arg[t]]))
    /\ UNCHANGED <<entries, world, known, call, arg, mine, refused>>

-----------------------------------------------------------------------------
(* cleanup_child_process *)

\* Mutant: the slot is released before it is cleaned up.
AssertReleasing(t) ==
    /\ pc[t] = "assert"
    /\ is_running' = [is_running EXCEPT ![arg[t]] = FALSE]
    /\ Goto(t, "wait")
    /\ UNCHANGED <<pid, stream, paths, world, known, call, arg, mine, refused, fault>>

AssertRunning(t) ==
    /\ pc[t] = "assert"
    /\ IF is_running[arg[t]]
       THEN Goto(t, "wait") /\ UNCHANGED fault
       ELSE Fail("assert is_running")
    /\ UNCHANGED <<entries, world, known, call, arg, mine, refused>>

\* waitpid blocks while the child lives.  For 0 and -1 it takes any child.
Wait(t) ==
    /\ pc[t] = "wait"
    /\ LET p == pid[arg[t]]
           waitable == IF p \in Runs THEN {p} \cap Unreaped ELSE Unreaped
       IN  \/ waitable = {} /\ UNCHANGED child
           \/ \E k \in waitable : /\ child[k] = "zombie"
                                  /\ child' = [child EXCEPT ![k] = "reaped"]
    /\ Goto(t, "close")
    /\ UNCHANGED <<entries, files, slot, known, call, arg, mine, refused, fault>>

Close(t) ==
    /\ pc[t] = "close"
    /\ Unlocked(t)
    /\ IF stream[arg[t]] \in Runs
       THEN /\ stream' = [stream EXCEPT ![arg[t]] = Dangling]
            /\ Goto(t, "remove")
            /\ UNCHANGED fault
       ELSE Fail(BadStream(stream[arg[t]])) /\ UNCHANGED stream
    /\ UNCHANGED <<is_running, pid, paths, world, known, call, arg, mine, refused>>

\* Mutant: the paths are freed, the files stay.
RemoveNothing(t) ==
    /\ pc[t] = "remove"
    /\ paths' = [paths EXCEPT ![arg[t]] = IF @ = None THEN None ELSE Dangling]
    /\ Goto(t, "clear")
    /\ UNCHANGED <<is_running, pid, stream, world, known, call, arg, mine,
                   refused, fault>>

\* remove and free of both paths, if they are not null; they stay dangling.
Remove(t) ==
    /\ pc[t] = "remove"
    /\ LET p == paths[arg[t]]
       IN  IF p = Dangling
           THEN Fail("double free") /\ UNCHANGED <<paths, files>>
           ELSE /\ files' = files \ {p}
                /\ paths' = [paths EXCEPT ![arg[t]] = IF @ = None THEN None ELSE Dangling]
                /\ Goto(t, "clear")
                /\ UNCHANGED fault
    /\ UNCHANGED <<is_running, pid, stream, child, slot, known, call, arg, mine,
                   refused>>

\* Mutant: the slot stays marked running.
ClearForgotten(t) ==
    /\ pc[t] = "clear"
    /\ Return(t, TRUE)
    /\ UNCHANGED <<entries, world, refused, fault>>

Clear(t) ==
    /\ pc[t] = "clear"
    /\ is_running' = [is_running EXCEPT ![arg[t]] = FALSE]
    /\ Return(t, TRUE)
    /\ UNCHANGED <<pid, stream, paths, world, refused, fault>>

-----------------------------------------------------------------------------
(* The user's program: it may close its output, and it may end.  It reads    *)
(* its input when it likes, or never.                                        *)

Mute(k) ==
    /\ child[k] = "alive"
    /\ child' = [child EXCEPT ![k] = "mute"]
    /\ UNCHANGED <<entries, files, slot, known, threads, refused, fault>>

End(k) ==
    /\ child[k] \in {"alive", "mute"}
    /\ child' = [child EXCEPT ![k] = "zombie"]
    /\ UNCHANGED <<entries, files, slot, known, threads, refused, fault>>

\* The program reads, and the fflush that waits for it goes on.
ReadInput(t) ==
    /\ pc[t] = "flush"
    /\ Return(t, FALSE)
    /\ UNCHANGED <<entries, world, refused, fault>>

\* It ends or closes its input instead.
AbandonInput(t) ==
    /\ pc[t] = "flush"
    /\ Fail("sigpipe")
    /\ UNCHANGED <<entries, world, known, call, arg, mine, refused>>

Step(t) ==
    \/ NullSlot0(t)
    \/ ClaimTaken(t)
    \/ ClaimFree(t)
    \/ Fill(t)
    \/ BuildError(t)
    \/ Fork(t)
    \/ Open(t)
    \/ StdinMissing(t)
    \/ Check(t)
    \/ Kill(t)
    \/ Probe(t)
    \/ Write(t)
    \/ WriteBroken(t)
    \/ Stall(t)
    \/ ReadSome(t)
    \/ ReadEof(t)
    \/ ReadBad(t)
    \/ AssertRunning(t)
    \/ Wait(t)
    \/ Close(t)
    \/ Remove(t)
    \/ Clear(t)

\* The server has crashed, or no request comes any more.
Stopped == (fault # "none" \/ \A t \in Threads : pc[t] = "idle") /\ UNCHANGED vars

Next ==
    \/ /\ fault = "none"
       /\ \/ \E t \in Threads : Step(t) \/ Request(t) \/ ReadInput(t) \/ AbandonInput(t)
          \/ \E k \in Runs : Mute(k) \/ End(k)
    \/ Stopped

SafetySpec == Init /\ [][Next]_vars

(***************************************************************************)
(* Threads in a call go on with it.  Nothing is assumed of clients, nor of *)
(* the programs: they need not end, read their input or close their output.*)
(***************************************************************************)
Spec ==
    /\ SafetySpec
    /\ \A t \in Threads : WF_vars(fault = "none" /\ Step(t))

-----------------------------------------------------------------------------
(* Properties *)

Labels == {"idle", "null0", "claim", "fill", "fork", "open", "check", "kill",
           "probe", "write", "flush", "read", "assert", "wait", "close", "remove",
           "clear"}
Faults == {"none", "kill group", "assert result", "assert is_running",
           "null stream", "closed stream", "sigpipe", "double free",
           "null element", "assert language"}

\* Every variable has its type.
TypeOK ==
    /\ is_running \in [Slots -> BOOLEAN]
    /\ pid \in [Slots -> Runs \cup {None, Dangling}]
    /\ stream \in [Slots -> Runs \cup {None, Dangling}]
    /\ paths \in [Slots -> Runs \cup {None, Dangling}]
    /\ child \in [Runs -> {"unborn", "alive", "mute", "zombie", "reaped"}]
    /\ files \subseteq Runs
    /\ slot \in [Runs -> Slots \cup {Dangling}]
    /\ known \in [Slots -> Runs \cup {None}]
    /\ pc \in [Threads -> Labels]
    /\ call \in [Threads -> {"none", "run", "stop", "input", "program"}]
    /\ arg \in [Threads -> Slots]
    /\ mine \in [Threads -> Runs \cup {None}]
    /\ refused \in BOOLEAN
    /\ fault \in Faults

Building(t) == pc[t] \in {"fill", "fork", "open"}
Ending(t) == pc[t] \in {"remove", "clear"}
Cleaning(t) == pc[t] \in {"assert", "wait", "close", "remove", "clear"}

\* A slot between compare_exchange and fdopen belongs to one build_and_run, and
\* nobody is about to release it, whatever the clients do: a clean-up may have
\* begun there (a stop between fork and fdopen), but none is past its fclose.
ClaimExclusive ==
    \A t \in Threads : Building(t) =>
        /\ is_running[arg[t]]
        /\ \A u \in Threads \ {t} : Building(u) \/ Ending(u) => arg[u] # arg[t]

\* The inductive invariant behind it: a free slot has no open streams, so of
\* several cleanups of an entry only one gets past fclose, and none gets past
\* it while the entry is being built.
EntryInv ==
    /\ \A i \in Slots : stream[i] \in Runs => is_running[i]
    /\ \A t \in Threads : Building(t) \/ Ending(t) =>
          /\ is_running[arg[t]]
          /\ stream[arg[t]] \notin Runs
          /\ \A u \in Threads \ {t} : Building(u) \/ Ending(u) => arg[u] # arg[t]

\* Every child that was not reaped is the pid of a slot marked running: the
\* server never loses track of a program.
ChildHasSlot ==
    \A k \in Unreaped : \E i \in Slots : is_running[i] /\ pid[i] = k

\* And a slot marked running is being built, has a child, or is being cleaned
\* up: no slot is lost.
SlotHasOwner ==
    \A i \in Slots : is_running[i] =>
        \/ pid[i] \in Unreaped
        \/ \E t \in Threads : arg[t] = i /\ (Building(t) \/ Cleaning(t))

\* A request reaches the program its client got the id for, at every access,
\* although slots are reused.
ActsOnOwnProcess ==
    \A t \in Threads : call[t] # "none" /\ pc[t] \in
            {"kill", "probe", "write", "flush", "read", "assert", "wait", "close"} =>
        pid[arg[t]] = mine[t] /\ stream[arg[t]] = mine[t]

\* The files of a program that was cleaned up are gone.  Slot 0 is left out:
\* any later build_and_run clears its paths.
FilesRemovedBeyondSlot0 ==
    \A k \in files : child[k] = "reaped" =>
        slot[k] = 0 \/ \E t \in Threads : Cleaning(t) /\ arg[t] = slot[k]

\* Clients that use an id they got, one call at a time, can end the server in
\* one way only, by an input that nobody reads any more.
OnlySigpipe == fault \in {"none", "sigpipe"}

\* The two places where a call waits for a user's program: fflush while the
\* program does not read its input, and waitpid after an end of file while the
\* program, which has closed its output, runs on.
WaitsForProgram(t) ==
    \/ pc[t] = "flush"
    \/ /\ call[t] = "program" /\ pc[t] = "wait"
       /\ pid[arg[t]] \in Runs /\ child[pid[arg[t]]] = "mute"

\* No call blocks a worker for ever but for a program's sake, at one of these two
\* places: no two calls wait for each other, build_and_run ends, and a program
\* that was killed is waited for no longer than it takes to die.
CallsReturn ==
    \A t \in Threads :
        []<>(pc[t] = "idle" \/ fault # "none") \/ <>[]WaitsForProgram(t)

(***************************************************************************)
(* What comments and assertions promise.                                   *)
(***************************************************************************)

\* service.h: stop_process stops "the process by given id", no other.
StopsOneProcess == fault # "kill group"

\* service.c, assert(p_info->is_running != 0).
CleanupOfRunning == fault # "assert is_running"

\* main.c, assert(pass_input_res != -2).
ResultStillValid == fault # "assert result"

\* service.h: pass_input_to_child returns "-1 error to write or process is
\* unavailable".
WriteErrorReturned == fault # "sigpipe"

\* README: MAX_PROCESS programs can be running, so a run is refused only when
\* there are as many.
CapacityUsable == ~refused

\* service.h: get_output_from_child reclaims a process that "has no more
\* output and exited".
ReclaimsExited ==
    \A t \in Threads :
        call[t] = "program" /\ pc[t] = "wait" /\ pid[arg[t]] \in Runs =>
            child[pid[arg[t]]] \in {"zombie", "reaped"}
=============================================================================
