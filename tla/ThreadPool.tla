----------------------------- MODULE ThreadPool -----------------------------
(***************************************************************************)
(* The thread pool of src/threadpool.c: worker threads that share one job  *)
(* queue, the mutex pool->lock and the condition variable pool->cond, and  *)
(* the one thread (Main) that adds jobs and may destroy the pool.          *)
(*                                                                         *)
(* A step is what a thread does between two points at which another thread *)
(* can see its effect.  A critical section of queue->lock is one step.     *)
(* Jobs are the numbers 1, 2, ... in the order in which they are enqueued; *)
(* the linked list of jobs is a sequence.  A failing malloc or             *)
(* pthread_create, whose results the code does not look at, is left out.   *)
(***************************************************************************)
EXTENDS Naturals, Sequences, FiniteSets

CONSTANTS Workers,              \* the threads that threadpool_create starts
          Main,                 \* the thread that adds jobs
          Free,                 \* value of lock while no thread holds it
          MaxJobs,              \* bound: how many jobs Main adds
          MaxSpurious           \* bound: how many spurious wake-ups happen

ASSUME PoolAssumption ==
    /\ IsFiniteSet(Workers)
    /\ Workers # {}
    /\ Main \notin Workers
    /\ Free \notin Workers
    /\ MaxJobs \in Nat
    /\ MaxSpurious \in Nat

VARIABLES pc,                   \* where each thread is
          lock,                 \* the worker that holds pool->lock, or Free
          queue,                \* pool->job_queue, front first
          active,               \* pool->active_threads, an atomic_bool
          stop,                 \* pool->stop
          job,                  \* the job each worker executes, 0 for none
          submitted,            \* how many jobs were enqueued
          finished,             \* the jobs whose function returned (history)
          spurious              \* how many spurious wake-ups happened

vars == <<pc, lock, queue, active, stop, job, submitted, finished, spurious>>

Threads == Workers \cup {Main}

NoJob == 0

WorkerPc == {"top", "check", "doze", "wait", "dequeue", "run", "finish",
             "exited"}
MainPc == {"accept", "gate", "wait", "enqueue", "signal", "join", "drain",
           "destroyed"}

Running == {job[w] : w \in Workers} \ {NoJob}

(***************************************************************************)
(* active_threads has type atomic_bool: ++ makes it true whatever it was,  *)
(* and -- negates it, since false - 1 converts back to true.  Main compares*)
(* the promoted value, 0 or 1, with max_threads.                           *)
(***************************************************************************)
Incremented(a) == TRUE
Decremented(a) == ~a
Saturated(a) == (IF a THEN 1 ELSE 0) = Cardinality(Workers)

(***************************************************************************)
(* pool->cond.  Workers and Main wait on the same condition variable, and  *)
(* a signal wakes any one of the waiters.  A woken thread goes back to the *)
(* place where it takes pool->lock and looks at its condition again.       *)
(***************************************************************************)
Waiters == {t \in Threads : pc[t] = "wait"}

Woken(t) == IF t = Main THEN "gate" ELSE "top"

Signalled(p) ==
    IF Waiters = {} THEN {p} ELSE {[p EXCEPT ![t] = Woken(t)] : t \in Waiters}

AllWoken(p) ==
    [t \in Threads |-> IF t \in Waiters THEN Woken(t) ELSE p[t]]

Init ==
    /\ pc = [t \in Threads |-> IF t = Main THEN "accept" ELSE "top"]
    /\ lock = Free
    /\ queue = <<>>
    /\ active = FALSE
    /\ stop = FALSE
    /\ job = [w \in Workers |-> NoJob]
    /\ submitted = 0
    /\ finished = {}
    /\ spurious = 0

-----------------------------------------------------------------------------
(* worker_thread *)

Lock(w) ==
    /\ pc[w] = "top"
    /\ lock = Free
    /\ lock' = w
    /\ pc' = [pc EXCEPT ![w] = "check"]
    /\ UNCHANGED <<queue, active, stop, job, submitted, finished, spurious>>

\* The loop condition reads front under pool->lock, but job_enqueue writes it
\* under queue->lock only: what is read may be stale when Doze is reached.
FindNothing(w) ==
    /\ pc[w] = "check"
    /\ queue = <<>>
    /\ ~stop
    /\ pc' = [pc EXCEPT ![w] = "doze"]
    /\ UNCHANGED <<lock, queue, active, stop, job, submitted, finished, spurious>>

Doze(w) ==
    /\ pc[w] = "doze"
    /\ pc' = [pc EXCEPT ![w] = "wait"]
    /\ lock' = Free
    /\ UNCHANGED <<queue, active, stop, job, submitted, finished, spurious>>

\* Mutant: a worker that leaves its loop without pthread_mutex_unlock.
ExitHoldingLock(w) ==
    /\ pc[w] = "check"
    /\ stop
    /\ pc' = [pc EXCEPT ![w] = "exited"]
    /\ UNCHANGED <<lock, queue, active, stop, job, submitted, finished, spurious>>

Exit(w) ==
    /\ pc[w] = "check"
    /\ stop
    /\ pc' = [pc EXCEPT ![w] = "exited"]
    /\ lock' = Free
    /\ UNCHANGED <<queue, active, stop, job, submitted, finished, spurious>>

\* Mutants of the worker loop.
FindJobUnlocking(w) ==
    /\ pc[w] = "check"
    /\ queue # <<>>
    /\ ~stop
    /\ pc' = [pc EXCEPT ![w] = "dequeue"]
    /\ lock' = Free
    /\ UNCHANGED <<queue, active, stop, job, submitted, finished, spurious>>
FindJobWhileStopping(w) ==
    /\ pc[w] = "check"
    /\ queue # <<>>
    /\ pc' = [pc EXCEPT ![w] = "dequeue"]
    /\ UNCHANGED <<lock, queue, active, stop, job, submitted, finished, spurious>>
DequeueKeepsFront(w) ==
    /\ pc[w] = "dequeue"
    /\ queue # <<>>
    /\ job' = [job EXCEPT ![w] = Head(queue)]
    /\ active' = Incremented(active)
    /\ pc' = [pc EXCEPT ![w] = "run"]
    /\ lock' = Free
    /\ UNCHANGED <<queue, stop, submitted, finished, spurious>>

FindJob(w) ==
    /\ pc[w] = "check"
    /\ queue # <<>>
    /\ ~stop
    /\ pc' = [pc EXCEPT ![w] = "dequeue"]
    /\ UNCHANGED <<lock, queue, active, stop, job, submitted, finished, spurious>>

\* job_dequeue would wait on queue->cond, pool->lock held, if front were NULL.
Dequeue(w) ==
    /\ pc[w] = "dequeue"
    /\ queue # <<>>
    /\ job' = [job EXCEPT ![w] = Head(queue)]
    /\ queue' = Tail(queue)
    /\ active' = Incremented(active)
    /\ pc' = [pc EXCEPT ![w] = "run"]
    /\ lock' = Free
    /\ UNCHANGED <<stop, submitted, finished, spurious>>

Return(w) ==
    /\ pc[w] = "run"
    /\ finished' = finished \cup {job[w]}
    /\ job' = [job EXCEPT ![w] = NoJob]
    /\ pc' = [pc EXCEPT ![w] = "finish"]
    /\ UNCHANGED <<lock, queue, active, stop, submitted, spurious>>

Finish(w) ==
    /\ pc[w] = "finish"
    /\ lock = Free
    /\ active' = Decremented(active)
    /\ pc' \in Signalled([pc EXCEPT ![w] = "top"])
    /\ UNCHANGED <<lock, queue, stop, job, submitted, finished, spurious>>

-----------------------------------------------------------------------------
(* threadpool_add_job, and its caller's loop *)

AddJob ==
    /\ pc[Main] = "accept"
    /\ submitted < MaxJobs
    /\ pc' = [pc EXCEPT ![Main] = "gate"]
    /\ UNCHANGED <<lock, queue, active, stop, job, submitted, finished, spurious>>

Gate ==
    /\ pc[Main] = "gate"
    /\ lock = Free
    /\ pc' = [pc EXCEPT ![Main] = IF Saturated(active) THEN "wait" ELSE "enqueue"]
    /\ UNCHANGED <<lock, queue, active, stop, job, submitted, finished, spurious>>

Enqueue ==
    /\ pc[Main] = "enqueue"
    /\ submitted' = submitted + 1
    /\ queue' = Append(queue, submitted + 1)
    /\ pc' = [pc EXCEPT ![Main] = "signal"]
    /\ UNCHANGED <<lock, active, stop, job, finished, spurious>>

\* Mutant: an adder that tells nobody.
SignalJobOmitted ==
    /\ pc[Main] = "signal"
    /\ pc' = [pc EXCEPT ![Main] = "accept"]
    /\ UNCHANGED <<lock, queue, active, stop, job, submitted, finished, spurious>>

\* The signal is sent without pool->lock: it can fall between a worker's
\* FindNothing and its Doze.
SignalJob ==
    /\ pc[Main] = "signal"
    /\ pc' \in Signalled([pc EXCEPT ![Main] = "accept"])
    /\ UNCHANGED <<lock, queue, active, stop, job, submitted, finished, spurious>>

(* threadpool_destroy *)

\* Mutants: a destroy that wakes one thread only, or does not wait for the workers.
DestroySignal ==
    /\ pc[Main] = "accept"
    /\ lock = Free
    /\ stop' = TRUE
    /\ pc' \in Signalled([pc EXCEPT ![Main] = "join"])
    /\ UNCHANGED <<lock, queue, active, job, submitted, finished, spurious>>
JoinNobody ==
    /\ pc[Main] = "join"
    /\ pc' = [pc EXCEPT ![Main] = "drain"]
    /\ UNCHANGED <<lock, queue, active, stop, job, submitted, finished, spurious>>

Destroy ==
    /\ pc[Main] = "accept"
    /\ lock = Free
    /\ stop' = TRUE
    /\ pc' = AllWoken([pc EXCEPT ![Main] = "join"])
    /\ UNCHANGED <<lock, queue, active, job, submitted, finished, spurious>>

Join ==
    /\ pc[Main] = "join"
    /\ \A w \in Workers : pc[w] = "exited"
    /\ pc' = [pc EXCEPT ![Main] = "drain"]
    /\ UNCHANGED <<lock, queue, active, stop, job, submitted, finished, spurious>>

Drain ==
    /\ pc[Main] = "drain"
    /\ IF queue = <<>>
       THEN /\ pc' = [pc EXCEPT ![Main] = "destroyed"]
            /\ UNCHANGED queue
       ELSE /\ queue' = Tail(queue)
            /\ UNCHANGED pc
    /\ UNCHANGED <<lock, active, stop, job, submitted, finished, spurious>>

-----------------------------------------------------------------------------
(* POSIX lets a thread return from pthread_cond_wait without a signal. *)

Spurious ==
    /\ spurious < MaxSpurious
    /\ spurious' = spurious + 1
    /\ \E t \in Waiters : pc' = [pc EXCEPT ![t] = Woken(t)]
    /\ UNCHANGED <<lock, queue, active, stop, job, submitted, finished>>

Destroyed ==
    /\ pc[Main] = "destroyed"
    /\ UNCHANGED vars

WorkerStep(w) ==
    \/ Lock(w)
    \/ FindNothing(w)
    \/ Doze(w)
    \/ Exit(w)
    \/ FindJob(w)
    \/ Dequeue(w)
    \/ Return(w)
    \/ Finish(w)

\* What Main does once a call of the pool's functions is under way.
MainStep ==
    \/ Gate
    \/ Enqueue
    \/ SignalJob
    \/ Join
    \/ Drain

Next ==
    \/ \E w \in Workers : WorkerStep(w)
    \/ MainStep
    \/ AddJob
    \/ Destroy
    \/ Spurious
    \/ Destroyed

SafetySpec == Init /\ [][Next]_vars

(***************************************************************************)
(* The scheduler runs every thread that can run.  No fairness for AddJob   *)
(* and Destroy (a client or an operator decides) nor for Spurious.  Spec   *)
(* also has every job function return; BlockingSpec does not: the function *)
(* of this program reads from a socket, without a timeout.                 *)
(***************************************************************************)
PoolFairness ==
    /\ \A w \in Workers : WF_vars(WorkerStep(w) /\ pc[w] # "run")
    /\ WF_vars(MainStep)

JobsReturn == \A w \in Workers : WF_vars(Return(w))

Spec == SafetySpec /\ PoolFairness /\ JobsReturn

BlockingSpec == SafetySpec /\ PoolFairness

-----------------------------------------------------------------------------
(* Properties *)

\* Every thread is at a statement of its function, and the shared variables
\* of struct threadpool hold values of their types.
TypeOK ==
    /\ pc \in [Threads -> WorkerPc \cup MainPc]
    /\ pc[Main] \in MainPc
    /\ \A w \in Workers : pc[w] \in WorkerPc
    /\ lock \in Workers \cup {Free}
    /\ queue \in Seq(Nat)
    /\ active \in BOOLEAN
    /\ stop \in BOOLEAN
    /\ job \in [Workers -> Nat]
    /\ submitted \in Nat
    /\ finished \in SUBSET Nat
    /\ spurious \in Nat

\* A worker that is about to call job_dequeue finds a job: front was read
\* under pool->lock while enqueuers only append, so the wait on queue->cond,
\* which would keep pool->lock, never happens.
DequeueFindsJob ==
    \A w \in Workers : pc[w] = "dequeue" => queue # <<>>

\* Until the pool is destroyed every job that was added is in exactly one
\* place: in the queue, with one worker, or finished.
EveryJobAccounted ==
    /\ ~stop => 1..submitted = {queue[i] : i \in 1..Len(queue)} \cup Running \cup finished
    /\ \A v, w \in Workers : v # w /\ job[v] = job[w] => job[v] = NoJob
    /\ Running \cap finished = {}
    /\ {queue[i] : i \in 1..Len(queue)} \cap (Running \cup finished) = {}

\* Jobs start in the order in which they were added: a job that a worker
\* takes is younger than every job that was ever started.
StartsInOrder ==
    [][\A w \in Workers : job'[w] # job[w] /\ job'[w] # NoJob =>
          \A j \in Running \cup finished : j < job'[w]]_vars

\* Once threadpool_destroy has set stop, no worker takes another job, and the
\* jobs left in the queue are freed only after every worker has left its loop.
NoStartAfterStop ==
    [][stop => /\ \A w \in Workers : job'[w] \in {job[w], NoJob}
               /\ queue' # queue => \A w \in Workers : pc[w] = "exited"]_vars

\* In a pool of one worker, the one size at which an atomic_bool can equal
\* max_threads, active_threads is exact: it is set while the worker is between
\* job_dequeue and the end of its round, and -- never meets a flag that is not set.
ActiveExact ==
    Cardinality(Workers) = 1 =>
        (active <=> \E w \in Workers : pc[w] \in {"run", "finish"})

\* Workers and the adder sleep on one condition variable, where pthread_cond_signal
\* wakes any one, but never at the same time: the wake-up meant for an adder
\* does not go to a worker, nor the other way round.
OneKindWaits == Main \in Waiters => Waiters = {Main}

\* threadpool_destroy ends once it has set stop: no worker misses it.
ShutdownCompletes == stop ~> pc[Main] = "destroyed"

\* An adder that found the pool saturated, which takes a pool of one worker, is
\* let through again, although worker and adder wait on one condition variable
\* and the worker may have taken another job before the adder looks again.
AdderReleased == pc[Main] = "wait" ~> pc[Main] = "enqueue"

\* In a pool of two or more workers whose jobs return, a queued job is taken:
\* a signal that finds nobody waiting is made up for by a worker that has yet
\* to come back to the queue.  (With one worker it is not.)
QueuedJobStarts ==
    \A j \in 1..MaxJobs :
        (\E i \in 1..Len(queue) : queue[i] = j)
            ~> (stop \/ ~ \E i \in 1..Len(queue) : queue[i] = j)

\* README.md: the thread pool waits until a new job enters the queue.  So it
\* does not go on waiting, a job in the queue and a worker without one.
IdleWorkerServes ==
    []<>(queue = <<>> \/ stop \/ \A w \in Workers : pc[w] = "run")

-----------------------------------------------------------------------------
(* The inductive invariant behind the safety properties. *)

\* pool->lock is held by the worker that is between taking it and giving it
\* up, or by nobody (Main's critical sections are single steps).
LockInv ==
    \A w \in Workers : pc[w] \in {"check", "doze", "dequeue"} <=> lock = w

\* stop is set once and found by every worker: none sleeps or takes a job.
StopInv ==
    /\ stop <=> pc[Main] \in {"join", "drain", "destroyed"}
    /\ \A w \in Workers : pc[w] \in {"doze", "wait", "dequeue"} => ~stop
    /\ \A w \in Workers : pc[w] = "exited" => stop
    /\ pc[Main] \in {"drain", "destroyed"} => \A w \in Workers : pc[w] = "exited"

\* The queue holds the youngest jobs without a gap, and every other job was
\* started: it is with the one worker that executes it, or finished.
OrderInv ==
    /\ Len(queue) <= submitted
    /\ \A i \in 1..Len(queue) : queue[i] = submitted - Len(queue) + i
    /\ \A w \in Workers : job[w] # NoJob <=> pc[w] = "run"
    /\ \A w \in Workers : job[w] <= submitted - Len(queue) /\ job[w] \notin finished
    /\ \A v, w \in Workers : v # w /\ job[v] = job[w] => job[v] = NoJob
    /\ \A j \in finished : 0 < j /\ j <= submitted - Len(queue)
    /\ ~stop => \A j \in 1..(submitted - Len(queue)) :
                    j \in finished \/ \E w \in Workers : job[w] = j

\* Whatever the threads do: pool->lock is with the worker that is between taking
\* it and giving it up, nobody sleeps or takes a job once stop is set, and every
\* job is in one place, in order.  Each conjunct speaks of a step that another
\* thread can disturb.
IndInv == TypeOK /\ LockInv /\ StopInv /\ DequeueFindsJob /\ OrderInv

-----------------------------------------------------------------------------
(* The pool implements the job service. *)

Service == INSTANCE JobService WITH
    Limit    <- Cardinality(Workers),
    accepted <- submitted,
    pending  <- queue,
    running  <- Running,
    done     <- finished,
    open     <- ~stop

\* Every behaviour of the pool is one of the job service: jobs start once, in
\* order, at most one per worker, and are dropped only by threadpool_destroy.
ImplementsService == Service!Spec
=============================================================================
