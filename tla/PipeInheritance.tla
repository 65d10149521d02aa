--------------------------- MODULE PipeInheritance ---------------------------
(***************************************************************************)
(* gdbc/src/service.c, build_and_run: who holds which end of the pipes     *)
(* between the server and the programs it starts.  fork copies every       *)
(* descriptor of the server, and exec closes those that were marked        *)
(* close-on-exec at the time of the fork; the server makes its two ends    *)
(* close-on-exec only after its own fork, while other workers may fork at  *)
(* any moment.                                                             *)
(*                                                                         *)
(* What goes through the pipes is left out, and so is the table of         *)
(* processes (module ProcessTable): a stop or a clean-up is one step here. *)
(***************************************************************************)
EXTENDS Integers, FiniteSets

CONSTANTS Threads,              \* worker threads
          MaxRuns               \* bound: how many programs are started

ASSUME PipeAssumption == IsFiniteSet(Threads) /\ MaxRuns \in Nat

Runs == 1..MaxRuns
None == 0

\* Reading and writing end of from_child_pipe and of to_child_pipe.
Names == {"from_r", "from_w", "to_r", "to_w"}
Ends == Runs \X Names
EndsOf(k) == {k} \X Names

VARIABLES pc, run,              \* each thread's place in build_and_run, its run
          server,               \* ends open in the server
          cloexec,              \* those of them that are close-on-exec
          child,                \* state of each run's child
          holds,                \* ends open in each child
          flagged,              \* those that its exec will close
          overlap               \* runs built at the same time (history)

vars == <<pc, run, server, cloexec, child, holds, flagged, overlap>>

Init ==
    /\ pc = [t \in Threads |-> "idle"]
    /\ run = [t \in Threads |-> None]
    /\ server = {}
    /\ cloexec = {}
    /\ child = [k \in Runs |-> "unborn"]
    /\ holds = [k \in Runs |-> {}]
    /\ flagged = [k \in Runs |-> {}]
    /\ overlap = [k \in Runs |-> {}]

Building == {run[t] : t \in {u \in Threads : pc[u] # "idle"}}

Step(t, from, to) ==
    /\ pc[t] = from
    /\ pc' = [pc EXCEPT ![t] = to]

-----------------------------------------------------------------------------
(* build_and_run *)

\* pipe(from_child_pipe)
PipeFrom(t) ==
    /\ Step(t, "idle", "pipe_to")
    /\ \E k \in Runs \ Building :
          /\ child[k] = "unborn"
          /\ run' = [run EXCEPT ![t] = k]
          /\ server' = server \cup {<<k, "from_r">>, <<k, "from_w">>}
          /\ overlap' = [j \in Runs |-> IF j = k THEN Building
                                        ELSE IF j \in Building THEN overlap[j] \cup {k}
                                        ELSE overlap[j]]
    /\ UNCHANGED <<cloexec, child, holds, flagged>>

PipeTo(t) ==
    /\ Step(t, "pipe_to", "fork")
    /\ server' = server \cup {<<run[t], "to_r">>, <<run[t], "to_w">>}
    /\ UNCHANGED <<run, cloexec, child, holds, flagged, overlap>>

Fork(t) ==
    /\ Step(t, "fork", "close_to")
    /\ child' = [child EXCEPT ![run[t]] = "forked"]
    /\ holds' = [holds EXCEPT ![run[t]] = server]
    /\ flagged' = [flagged EXCEPT ![run[t]] = cloexec]
    /\ UNCHANGED <<run, server, cloexec, overlap>>

\* close(to_child_pipe[0])
CloseTo(t) ==
    /\ Step(t, "close_to", "close_from")
    /\ server' = server \ {<<run[t], "to_r">>}
    /\ UNCHANGED <<run, cloexec, child, holds, flagged, overlap>>

\* Mutant: the server keeps the writing end of the program's output.
CloseFromForgotten(t) ==
    /\ Step(t, "close_from", "cloexec_to")
    /\ UNCHANGED <<run, server, cloexec, child, holds, flagged, overlap>>

\* close(from_child_pipe[1])
CloseFrom(t) ==
    /\ Step(t, "close_from", "cloexec_to")
    /\ server' = server \ {<<run[t], "from_w">>}
    /\ UNCHANGED <<run, cloexec, child, holds, flagged, overlap>>

\* Mutant: the writing end is not marked.
CloexecToForgotten(t) ==
    /\ Step(t, "cloexec_to", "cloexec_from")
    /\ UNCHANGED <<run, server, cloexec, child, holds, flagged, overlap>>

\* set_FD_CLOEXEC(to_child_pipe[1])
CloexecTo(t) ==
    /\ Step(t, "cloexec_to", "cloexec_from")
    /\ cloexec' = cloexec \cup {<<run[t], "to_w">>}
    /\ UNCHANGED <<run, server, child, holds, flagged, overlap>>

\* Mutant: the end that was closed is marked instead.
CloexecFromWrongEnd(t) ==
    /\ Step(t, "cloexec_from", "idle")
    /\ cloexec' = cloexec \cup {<<run[t], "from_w">>}
    /\ run' = [run EXCEPT ![t] = None]
    /\ UNCHANGED <<server, child, holds, flagged, overlap>>

\* set_FD_CLOEXEC(from_child_pipe[0]), and build_and_run returns.
CloexecFrom(t) ==
    /\ Step(t, "cloexec_from", "idle")
    /\ cloexec' = cloexec \cup {<<run[t], "from_r">>}
    /\ run' = [run EXCEPT ![t] = None]
    /\ UNCHANGED <<server, child, holds, flagged, overlap>>

-----------------------------------------------------------------------------
(* The children *)

\* The child closes the server's ends of its own pipes, compiles, and execs.
Exec(k) ==
    /\ child[k] = "forked"
    /\ child' = [child EXCEPT ![k] = "running"]
    /\ holds' = [holds EXCEPT ![k] =
                    (@ \ flagged[k]) \ {<<k, "from_r">>, <<k, "to_w">>}]
    /\ flagged' = [flagged EXCEPT ![k] = {}]
    /\ UNCHANGED <<pc, run, server, cloexec, overlap>>

\* The compiler fails, or the program ends.
Exit(k) ==
    /\ child[k] \in {"forked", "running"}
    /\ child' = [child EXCEPT ![k] = "ended"]
    /\ holds' = [holds EXCEPT ![k] = {}]
    /\ flagged' = [flagged EXCEPT ![k] = {}]
    /\ UNCHANGED <<pc, run, server, cloexec, overlap>>

-----------------------------------------------------------------------------
(* cleanup_child_process, for an id that build_and_run has returned *)

Cleanup(k) ==
    /\ child' = [child EXCEPT ![k] = "reclaimed"]
    /\ server' = server \ EndsOf(k)
    /\ cloexec' = cloexec \ EndsOf(k)

\* get_output_from_child meets end of file when nobody can write any more.
Reclaim(k) ==
    /\ k \notin Building
    /\ child[k] = "ended"
    /\ <<k, "from_w">> \notin server \cup UNION {holds[j] : j \in Runs}
    /\ Cleanup(k)
    /\ UNCHANGED <<pc, run, holds, flagged, overlap>>

\* stop_process: SIGKILL, waitpid, and the clean-up.
Stop(k) ==
    /\ k \notin Building
    /\ child[k] \in {"forked", "running", "ended"}
    /\ Cleanup(k)
    /\ holds' = [holds EXCEPT ![k] = {}]
    /\ flagged' = [flagged EXCEPT ![k] = {}]
    /\ UNCHANGED <<pc, run, overlap>>

BuildStep(t) ==
    \/ PipeTo(t)
    \/ Fork(t)
    \/ CloseTo(t)
    \/ CloseFrom(t)
    \/ CloexecTo(t)
    \/ CloexecFrom(t)

Next ==
    \/ \E t \in Threads : PipeFrom(t) \/ BuildStep(t)
    \/ \E k \in Runs : Exec(k) \/ Exit(k) \/ Reclaim(k) \/ Stop(k)

SafetySpec == Init /\ [][Next]_vars

\* A call goes on, compiling ends, the client of a program asks for its output
\* now and then.  Nothing makes a program end.
Spec ==
    /\ SafetySpec
    /\ \A t \in Threads : WF_vars(BuildStep(t))
    /\ \A k \in Runs : WF_vars(Exec(k)) /\ WF_vars(Reclaim(k))

\* The same if every program ends by itself.
EndingSpec == Spec /\ \A k \in Runs : WF_vars(Exit(k))

-----------------------------------------------------------------------------
(* Properties *)

Labels == {"idle", "pipe_to", "fork", "close_to", "close_from", "cloexec_to",
           "cloexec_from"}

\* Every variable has its type.
TypeOK ==
    /\ pc \in [Threads -> Labels]
    /\ run \in [Threads -> Runs \cup {None}]
    /\ server \subseteq Ends
    /\ cloexec \subseteq Ends
    /\ child \in [Runs -> {"unborn", "forked", "running", "ended", "reclaimed"}]
    /\ holds \in [Runs -> SUBSET Ends]
    /\ flagged \in [Runs -> SUBSET Ends]
    /\ overlap \in [Runs -> SUBSET Runs]

\* service.c: the server's ends are close-on-exec "so that other child
\* processes cannot access" them.  A program holds ends of its own pipes only.
PipesPrivate ==
    \A k \in Runs : child[k] = "running" => holds[k] \subseteq EndsOf(k)

\* What is true of it with several workers: a program holds ends of another
\* run's pipes only if the two were being built at the same time.
LeakNeedsOverlap ==
    \A k \in Runs : child[k] = "running" =>
        \A e \in holds[k] : e[1] = k \/ e[1] \in overlap[k]

\* service.h: a process that has no more output and has exited is reclaimed
\* when its client asks for its output.
EndedIsReclaimed ==
    \A k \in Runs : child[k] = "ended" ~> child[k] = "reclaimed"

-----------------------------------------------------------------------------
(* The inductive invariant behind LeakNeedsOverlap *)

Owner(t, k) == pc[t] # "idle" /\ run[t] = k

\* A thread in build_and_run has a run of its own, and has done what its place
\* says.
BuilderInv ==
    \A t \in Threads : pc[t] # "idle" =>
        /\ run[t] \in Runs
        /\ \A u \in Threads \ {t} : pc[u] # "idle" => run[u] # run[t]
        /\ pc[t] \in {"close_from", "cloexec_to", "cloexec_from"} =>
               <<run[t], "to_r">> \notin server
        /\ pc[t] \in {"cloexec_to", "cloexec_from"} => <<run[t], "from_w">> \notin server
        /\ pc[t] = "cloexec_from" => <<run[t], "to_w">> \in cloexec

\* An end that is not close-on-exec belongs to a run that is being built.
UnmarkedInv == \A e \in server \ cloexec : \E t \in Threads : Owner(t, e[1])

\* Runs that are being built at the same time know it.
OverlapInv ==
    \A t, u \in Threads : t # u /\ pc[t] # "idle" /\ pc[u] # "idle" =>
        run[u] \in overlap[run[t]]

\* What exec leaves to a child comes from overlapping runs.
InheritInv ==
    \A k \in Runs : \A e \in holds[k] \ flagged[k] : e[1] = k \/ e[1] \in overlap[k]

\* Marks matter between fork and exec only; before its fork a child has nothing.
ChildInv ==
    \A k \in Runs : /\ child[k] # "forked" => flagged[k] = {}
                    /\ child[k] = "unborn" => holds[k] = {}

LeakInv == TypeOK /\ BuilderInv /\ UnmarkedInv /\ OverlapInv /\ InheritInv /\ ChildInv
=============================================================================
