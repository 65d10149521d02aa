----------------------------- MODULE JobService -----------------------------
(***************************************************************************)
(* What a user of src/threadpool.h is promised: jobs are numbered in the   *)
(* order in which they are added, they start in that order, each at most   *)
(* once and at most Limit of them at a time, none starts after the service *)
(* is closed, and a job is dropped only once it is closed and idle.        *)
(* ThreadPool is shown to implement it.                                    *)
(***************************************************************************)
EXTENDS Naturals, Sequences, FiniteSets

CONSTANT Limit                  \* how many jobs may run at the same time

VARIABLES accepted,             \* how many jobs were added
          pending,              \* the jobs that wait, oldest first
          running,              \* the jobs being executed
          done,                 \* the jobs whose function returned
          open                  \* FALSE once the service is closed

vars == <<accepted, pending, running, done, open>>

Init ==
    /\ accepted = 0
    /\ pending = <<>>
    /\ running = {}
    /\ done = {}
    /\ open = TRUE

Add ==
    /\ open
    /\ accepted' = accepted + 1
    /\ pending' = Append(pending, accepted + 1)
    /\ UNCHANGED <<running, done, open>>

Start ==
    /\ open
    /\ pending # <<>>
    /\ Cardinality(running) < Limit
    /\ pending' = Tail(pending)
    /\ running' = running \cup {Head(pending)}
    /\ UNCHANGED <<accepted, done, open>>

Complete(j) ==
    /\ j \in running
    /\ running' = running \ {j}
    /\ done' = done \cup {j}
    /\ UNCHANGED <<accepted, pending, open>>

Close ==
    /\ open
    /\ open' = FALSE
    /\ UNCHANGED <<accepted, pending, running, done>>

Drop ==
    /\ ~open
    /\ running = {}
    /\ pending # <<>>
    /\ pending' = Tail(pending)
    /\ UNCHANGED <<accepted, running, done, open>>

Next ==
    \/ Add
    \/ Start
    \/ \E j \in running : Complete(j)
    \/ Close
    \/ Drop

Spec == Init /\ [][Next]_vars
=============================================================================
