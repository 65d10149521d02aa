--------------------------- MODULE RequestHandler ---------------------------
(***************************************************************************)
(* src/runner.c: the accept loop of run_web_server and handle_http_request,*)
(* which every worker of the pool executes for one connection at a time.   *)
(* The module follows two resources that requests share:                   *)
(*                                                                         *)
(*  - the list of request buffers, one per worker, of which a handler      *)
(*    claims the first free one by compare-and-swap;                       *)
(*  - the file descriptors of the sockets, which the kernel hands out      *)
(*    again as soon as they are closed.                                    *)
(*                                                                         *)
(* A step is one system call or one atomic operation with the local work   *)
(* that follows it.  Bytes are told apart by the connection they came from *)
(* only, a buffer is a few cells, and a response is Chunks chunks.  The    *)
(* thread pool is the queue of the jobs it promises to execute.            *)
(***************************************************************************)
EXTENDS Naturals, Sequences, FiniteSets

CONSTANTS Workers,              \* the threads of the pool
          MaxConns,             \* bound: how many clients connect
          MaxFd,                \* bound: the highest descriptor of a socket
          BufLen,               \* cells of a buffer, the last is never read into
          Chunks,               \* chunks of a response
          Impolite              \* what clients do beside waiting for an answer

N == Cardinality(Workers)       \* pool->max_threads
Slots == 1..N                   \* buffer_list and buffer_used
Conns == 1..MaxConns
Fds == 1..MaxFd
Nobody == 0                     \* no connection, no descriptor
Nul == 0                        \* a cell that holds '\0'
Garbage == MaxConns + 1         \* a cell of a fresh malloc

ASSUME HandlerAssumption ==
    /\ IsFiniteSet(Workers)
    /\ MaxConns \in Nat
    /\ MaxFd \in Nat
    /\ BufLen \in Nat \ {0, 1}
    /\ Chunks \in Nat \ {0}
    /\ Impolite \subseteq {"disconnect", "reset", "quit"}

VARIABLES pc,                   \* where each worker is in handle_http_request
          at,                   \* slot each worker tries or holds (buffer_idx)
          used,                 \* buffer_used
          freed,                \* how often each buffer was passed to free
          cells,                \* contents of the buffers
          sock,                 \* client_socket of each worker
          owner,                \* connection the worker was called for (history)
          from,                 \* connection its bytes came from (history)
          request,              \* connections whose bytes the request holds
          written,              \* total_written, in chunks
          fdtab,                \* connection behind each descriptor
          jobs,                 \* accepted sockets that wait for a worker
          client,               \* what each client has done
          size,                 \* cells each client's request takes
          received,             \* chunks each client got, by who they were for
          fin,                  \* connections shut down for writing
          killed                \* TRUE once SIGPIPE has ended the server

local == <<pc, at, sock, owner, from, request, written>>
buffers == <<used, freed, cells>>
sockets == <<fdtab, received, fin>>
clients == <<client, size>>
vars == <<local, buffers, sockets, clients, jobs, killed>>

Init ==
    /\ pc = [w \in Workers |-> "idle"]
    /\ at = [w \in Workers |-> 0]
    /\ used = [i \in Slots |-> FALSE]
    /\ freed = [i \in Slots |-> 0]
    /\ \E g \in {Nul, Garbage} : cells = [i \in Slots |-> [k \in 1..BufLen |-> g]]
    /\ sock = [w \in Workers |-> Nobody]
    /\ owner = [w \in Workers |-> Nobody]
    /\ from = [w \in Workers |-> Nobody]
    /\ request = [w \in Workers |-> {}]
    /\ written = [w \in Workers |-> 0]
    /\ fdtab = [f \in Fds |-> Nobody]
    /\ jobs = <<>>
    /\ client = [c \in Conns |-> "away"]
    /\ size = [c \in Conns |-> 1]
    /\ received = [c \in Conns |-> <<>>]
    /\ fin = {}
    /\ killed = FALSE

-----------------------------------------------------------------------------
(* Clients send a request in one piece and wait for the answer, or else    *)
(* disconnect before they send, reset the connection, or quit after they   *)
(* sent.  A connection exists for the server once it is accepted.  What a  *)
(* client has done: "connected", it sent nothing; "waiting", its request   *)
(* is to be read; "served", it was read; "quit", it was sent but nobody is *)
(* there any more; "disconnected" and "reset", nothing is left to read.    *)

Send(c) ==
    /\ client[c] = "connected"
    /\ client' = [client EXCEPT ![c] = "waiting"]
    /\ \E n \in 1..(BufLen - 1) : size' = [size EXCEPT ![c] = n]
    /\ UNCHANGED <<local, buffers, sockets, jobs, killed>>

Misbehave(c) ==
    /\ \/ /\ "disconnect" \in Impolite
          /\ client[c] = "connected"
          /\ client' = [client EXCEPT ![c] = "disconnected"]
       \/ /\ "reset" \in Impolite
          /\ client[c] \in {"connected", "waiting", "served"}
          /\ client' = [client EXCEPT ![c] = "reset"]
       \/ /\ "quit" \in Impolite
          /\ client[c] \in {"waiting", "served"}
          /\ client' = [client EXCEPT ![c] = IF @ = "waiting" THEN "quit" ELSE "disconnected"]
    /\ UNCHANGED <<local, buffers, sockets, size, jobs, killed>>

-----------------------------------------------------------------------------
(* run_web_server: the kernel gives accept the lowest free descriptor, and *)
(* the accepted socket becomes a job.                                      *)

LowestFree == CHOOSE f \in Fds : /\ fdtab[f] = Nobody
                                 /\ \A e \in Fds : fdtab[e] = Nobody => f <= e

Accept(c) ==
    /\ client[c] = "away"
    /\ \A b \in Conns : b < c => client[b] # "away"
    /\ \E f \in Fds : fdtab[f] = Nobody
    /\ client' = [client EXCEPT ![c] = "connected"]
    /\ fdtab' = [fdtab EXCEPT ![LowestFree] = c]
    /\ jobs' = Append(jobs, [fd |-> LowestFree, conn |-> c])
    /\ UNCHANGED <<local, buffers, received, fin, size, killed>>

-----------------------------------------------------------------------------
(* handle_http_request *)

Begin(w) ==
    /\ pc[w] = "idle"
    /\ jobs # <<>>
    /\ sock' = [sock EXCEPT ![w] = Head(jobs).fd]
    /\ owner' = [owner EXCEPT ![w] = Head(jobs).conn]
    /\ jobs' = Tail(jobs)
    /\ at' = [at EXCEPT ![w] = 1]
    /\ pc' = [pc EXCEPT ![w] = "scan"]
    /\ UNCHANGED <<from, request, written, buffers, sockets, clients, killed>>

\* Mutant: the flag is tested but not set.
ClaimUnmarked(w) ==
    /\ pc[w] = "scan"
    /\ IF used[at[w]]
       THEN /\ at' = [at EXCEPT ![w] = @ + 1]
            /\ pc' = [pc EXCEPT ![w] = IF at[w] = N THEN "noslot" ELSE "scan"]
       ELSE /\ pc' = [pc EXCEPT ![w] = "read"]
            /\ UNCHANGED at
    /\ UNCHANGED <<sock, owner, from, request, written, buffers, sockets,
                   clients, jobs, killed>>

\* One atomic_compare_exchange_strong.  After the last slot the handler goes
\* to label_send_response with no buffer and buffer_idx uninitialised: pc
\* "noslot", of which no step is given, since it is proved unreachable.
Claim(w) ==
    /\ pc[w] = "scan"
    /\ IF used[at[w]]
       THEN /\ at' = [at EXCEPT ![w] = @ + 1]
            /\ pc' = [pc EXCEPT ![w] = IF at[w] = N THEN "noslot" ELSE "scan"]
            /\ UNCHANGED used
       ELSE /\ used' = [used EXCEPT ![at[w]] = TRUE]
            /\ pc' = [pc EXCEPT ![w] = "read"]
            /\ UNCHANGED at
    /\ UNCHANGED <<sock, owner, from, request, written, freed, cells, sockets,
                   clients, jobs, killed>>

\* The connection a worker's descriptor now refers to: not always its own.
Peer(w) == fdtab[sock[w]]

\* read returns what the client sent: the head of the buffer is overwritten,
\* the rest keeps what it held.
Read(w) ==
    /\ pc[w] = "read"
    /\ Peer(w) # Nobody
    /\ client[Peer(w)] \in {"waiting", "quit"}
    /\ from' = [from EXCEPT ![w] = Peer(w)]
    /\ cells' = [cells EXCEPT ![at[w]] =
                    [k \in 1..BufLen |-> IF k <= size[Peer(w)] THEN Peer(w) ELSE @[k]]]
    /\ client' = [client EXCEPT ![Peer(w)] = IF @ = "waiting" THEN "served" ELSE "disconnected"]
    /\ pc' = [pc EXCEPT ![w] = "parse"]
    /\ UNCHANGED <<at, sock, owner, request, written, used, freed, sockets,
                   size, jobs, killed>>

\* read returns 0: close, then a 500 is sent to the closed descriptor.
ReadEof(w) ==
    /\ pc[w] = "read"
    /\ Peer(w) # Nobody
    /\ client[Peer(w)] = "disconnected"
    /\ fdtab' = [fdtab EXCEPT ![sock[w]] = Nobody]
    /\ pc' = [pc EXCEPT ![w] = "send"]
    /\ UNCHANGED <<at, sock, owner, from, request, written, buffers, received,
                   fin, clients, jobs, killed>>

\* read fails: close (which fails on a descriptor that is closed), and free
\* the buffer, which stays in buffer_list and is claimed again after release.
ReadError(w) ==
    /\ pc[w] = "read"
    /\ \/ Peer(w) = Nobody
       \/ Peer(w) # Nobody /\ client[Peer(w)] = "reset"
    /\ fdtab' = [fdtab EXCEPT ![sock[w]] = Nobody]
    /\ freed' = [freed EXCEPT ![at[w]] = @ + 1]
    /\ pc' = [pc EXCEPT ![w] = "send"]
    /\ UNCHANGED <<at, sock, owner, from, request, written, used, cells,
                   received, fin, clients, jobs, killed>>

\* parse_http_request reads the buffer as a string: up to the first '\0', and
\* beyond the buffer if it has none.
Visible(b) ==
    {b[k] : k \in {j \in DOMAIN b : \A i \in 1..j : b[i] # Nul}}

\* parse_http_request, and then whatever response that leads to (a static
\* one, a file, or the route's callback): it is made from the request alone.
Respond(w) ==
    /\ pc[w] = "parse"
    /\ request' = [request EXCEPT ![w] = Visible(cells[at[w]])]
    /\ pc' = [pc EXCEPT ![w] = "send"]
    /\ UNCHANGED <<at, sock, owner, from, written, buffers, sockets, clients,
                   jobs, killed>>

Here == {"connected", "waiting", "served"}

\* Mutants: a loop that goes on when everything is written, and no loop.
WriteBeyond(w) ==
    /\ pc[w] = "send"
    /\ Peer(w) # Nobody
    /\ Peer(w) \notin fin
    /\ client[Peer(w)] \in Here
    /\ \E n \in 1..(Chunks + 1 - written[w]) :
          /\ written' = [written EXCEPT ![w] = @ + n]
          /\ received' = [received EXCEPT ![Peer(w)] =
                             @ \o [k \in 1..n |-> owner[w]]]
          /\ pc' = [pc EXCEPT ![w] = IF written[w] + n > Chunks THEN "shutdown" ELSE "send"]
    /\ UNCHANGED <<at, sock, owner, from, request, buffers, fdtab, fin, clients,
                   jobs, killed>>
WriteOnce(w) ==
    /\ pc[w] = "send"
    /\ Peer(w) # Nobody
    /\ Peer(w) \notin fin
    /\ client[Peer(w)] \in Here
    /\ \E n \in 1..(Chunks - written[w]) :
          /\ written' = [written EXCEPT ![w] = @ + n]
          /\ received' = [received EXCEPT ![Peer(w)] =
                             @ \o [k \in 1..n |-> owner[w]]]
          /\ pc' = [pc EXCEPT ![w] = "shutdown"]
    /\ UNCHANGED <<at, sock, owner, from, request, buffers, fdtab, fin, clients,
                   jobs, killed>>

\* write puts some chunks on the connection behind the descriptor.
Write(w) ==
    /\ pc[w] = "send"
    /\ Peer(w) # Nobody
    /\ Peer(w) \notin fin
    /\ client[Peer(w)] \in Here
    /\ \E n \in 1..(Chunks - written[w]) :
          /\ written' = [written EXCEPT ![w] = @ + n]
          /\ received' = [received EXCEPT ![Peer(w)] =
                             @ \o [k \in 1..n |-> owner[w]]]
          /\ pc' = [pc EXCEPT ![w] = IF written[w] + n = Chunks THEN "shutdown" ELSE "send"]
    /\ UNCHANGED <<at, sock, owner, from, request, buffers, fdtab, fin, clients,
                   jobs, killed>>

\* write fails on a closed descriptor: the loop ends.
WriteError(w) ==
    /\ pc[w] = "send"
    /\ Peer(w) = Nobody
    /\ pc' = [pc EXCEPT ![w] = "shutdown"]
    /\ UNCHANGED <<at, sock, owner, from, request, written, buffers, sockets,
                   clients, jobs, killed>>

\* The client is gone.  write may still be taken (the data is discarded) or
\* fail with ECONNRESET; or it raises SIGPIPE, which nobody catches or ignores
\* and which ends the server, as it does after a shutdown for writing.
WriteToGone(w) ==
    /\ pc[w] = "send"
    /\ Peer(w) # Nobody
    /\ client[Peer(w)] \notin Here \/ Peer(w) \in fin
    /\ \/ killed' = TRUE /\ UNCHANGED pc
       \/ /\ Peer(w) \notin fin
          /\ pc' = [pc EXCEPT ![w] = "shutdown"]
          /\ UNCHANGED killed
    /\ UNCHANGED <<at, sock, owner, from, request, written, buffers, sockets,
                   clients, jobs>>

Shutdown(w) ==
    /\ pc[w] = "shutdown"
    /\ fin' = IF Peer(w) = Nobody THEN fin ELSE fin \cup {Peer(w)}
    /\ pc' = [pc EXCEPT ![w] = "close"]
    /\ UNCHANGED <<at, sock, owner, from, request, written, buffers, fdtab,
                   received, clients, jobs, killed>>

\* Mutant: the socket stays open.
CloseForgotten(w) ==
    /\ pc[w] = "close"
    /\ pc' = [pc EXCEPT ![w] = "release"]
    /\ UNCHANGED <<at, sock, owner, from, request, written, buffers, sockets,
                   clients, jobs, killed>>

\* close(client_socket), the second one after ReadEof and ReadError.
Close(w) ==
    /\ pc[w] = "close"
    /\ fdtab' = [fdtab EXCEPT ![sock[w]] = Nobody]
    /\ pc' = [pc EXCEPT ![w] = "release"]
    /\ UNCHANGED <<at, sock, owner, from, request, written, buffers, received,
                   fin, clients, jobs, killed>>

Cleared(w) ==
    /\ pc' = [pc EXCEPT ![w] = "idle"]
    /\ at' = [at EXCEPT ![w] = 0]
    /\ sock' = [sock EXCEPT ![w] = Nobody]
    /\ owner' = [owner EXCEPT ![w] = Nobody]
    /\ from' = [from EXCEPT ![w] = Nobody]
    /\ request' = [request EXCEPT ![w] = {}]
    /\ written' = [written EXCEPT ![w] = 0]

\* Mutants: the buffer stays taken, the buffer is freed with the request.
ReleaseForgotten(w) ==
    /\ pc[w] = "release"
    /\ Cleared(w)
    /\ UNCHANGED <<buffers, sockets, clients, jobs, killed>>
ReleaseFreeing(w) ==
    /\ pc[w] = "release"
    /\ used' = [used EXCEPT ![at[w]] = FALSE]
    /\ freed' = [freed EXCEPT ![at[w]] = @ + 1]
    /\ Cleared(w)
    /\ UNCHANGED <<cells, sockets, clients, jobs, killed>>

Release(w) ==
    /\ pc[w] = "release"
    /\ used' = [used EXCEPT ![at[w]] = FALSE]
    /\ Cleared(w)
    /\ UNCHANGED <<freed, cells, sockets, clients, jobs, killed>>

-----------------------------------------------------------------------------

WorkerStep(w) ==
    \/ Begin(w)
    \/ Claim(w)
    \/ Read(w)
    \/ ReadEof(w)
    \/ ReadError(w)
    \/ Respond(w)
    \/ Write(w)
    \/ WriteError(w)
    \/ WriteToGone(w)
    \/ Shutdown(w)
    \/ Close(w)
    \/ Release(w)

\* Every client came and every handler is done, or the server is dead.
Done ==
    /\ \/ killed
       \/ jobs = <<>> /\ \A w \in Workers : pc[w] = "idle"
    /\ UNCHANGED vars

Next ==
    \/ ~killed /\ \E w \in Workers : WorkerStep(w)
    \/ ~killed /\ \E c \in Conns : Accept(c)
    \/ ~killed /\ \E c \in Conns : Send(c) \/ Misbehave(c)
    \/ Done

SafetySpec == Init /\ [][Next]_vars

(***************************************************************************)
(* Workers that can run do run, and a connected client eventually sends its*)
(* request: read has no timeout, so a silent client would keep its worker. *)
(***************************************************************************)
Spec ==
    /\ SafetySpec
    /\ \A w \in Workers : WF_vars(~killed /\ WorkerStep(w))
    /\ \A c \in Conns : WF_vars(~killed /\ Send(c))

-----------------------------------------------------------------------------
(* Properties *)

HoldsSlot(w) == pc[w] \in {"read", "parse", "send", "shutdown", "close", "release"}

\* The variables hold values of their types.
TypeOK ==
    /\ pc \in [Workers -> {"idle", "scan", "noslot", "read", "parse", "send",
                           "shutdown", "close", "release"}]
    /\ at \in [Workers -> 0..(N + 1)]
    /\ used \in [Slots -> BOOLEAN]
    /\ freed \in [Slots -> Nat]
    /\ cells \in [Slots -> [1..BufLen -> Conns \cup {Nul, Garbage}]]
    /\ sock \in [Workers -> Fds \cup {Nobody}]
    /\ owner \in [Workers -> Conns \cup {Nobody}]
    /\ from \in [Workers -> Conns \cup {Nobody}]
    /\ request \in [Workers -> SUBSET (Conns \cup {Garbage})]
    /\ written \in [Workers -> 0..Chunks]
    /\ fdtab \in [Fds -> Conns \cup {Nobody}]
    /\ jobs \in Seq([fd : Fds, conn : Conns])
    /\ client \in [Conns -> {"away", "connected", "waiting", "served",
                             "disconnected", "reset", "quit"}]
    /\ size \in [Conns -> 1..(BufLen - 1)]
    /\ received \in [Conns -> Seq(Conns)]
    /\ fin \in SUBSET Conns
    /\ killed \in BOOLEAN

\* A handler always finds a free buffer: the branch runner.c calls UNEXPECTED,
\* which would release a buffer with an uninitialised index, is never taken.
ScanSucceeds == \A w \in Workers : pc[w] # "noslot"

\* A buffer belongs to one handler at a time, and buffer_used says which are
\* taken.
SlotExclusive ==
    /\ \A v, w \in Workers :
          v # w /\ HoldsSlot(v) /\ HoldsSlot(w) => at[v] # at[w]
    /\ \A i \in Slots : used[i] <=> \E w \in Workers : HoldsSlot(w) /\ at[w] = i

\* A buffer is freed under its handler only after a client reset a connection
\* or disconnected; otherwise buffer_list never dangles.
DanglingOnlyAfterMisbehaviour ==
    (\A c \in Conns : client[c] \notin {"reset", "disconnected"}) =>
        \A i \in Slots : freed[i] = 0

\* Every open descriptor is with exactly one job or one handler that has yet
\* to close it, and the job or the handler has its own connection.
DescriptorOwned ==
    \A f \in Fds :
        LET waiting == {i \in 1..Len(jobs) : jobs[i].fd = f}
            serving == {w \in Workers : sock[w] = f /\ pc[w] # "release"}
        IN  /\ Cardinality(waiting) + Cardinality(serving)
                  = IF fdtab[f] = Nobody THEN 0 ELSE 1
            /\ \A i \in waiting : jobs[i].conn = fdtab[f]
            /\ \A w \in serving : owner[w] = fdtab[f]

\* The comment at shutdown: the response is sent completely.  When a
\* connection that its client keeps open is shut down for writing, all the
\* chunks of its response, and no others, were sent on it.
ResponseComplete ==
    \A c \in fin : client[c] \in Here => received[c] = [k \in 1..Chunks |-> c]

\* A client that sent its request and waits gets the whole response.
Answered ==
    \A c \in Conns :
        client[c] = "waiting" ~> (c \in fin /\ Len(received[c]) = Chunks)

\* http.h: the body of struct http_request is the content of the HTTP request;
\* so a request is not made of bytes that another connection sent.
RequestIsOwn ==
    \A w \in Workers :
        pc[w] = "send" => request[w] \cap Conns \subseteq {from[w]}

-----------------------------------------------------------------------------
(* The inductive invariant behind ScanSucceeds and SlotExclusive. *)

\* The slot a worker tries or holds, 0 if it does neither.
Ahead(k) == {w \in Workers : at[w] >= k}

\* At most N + 1 - k workers are at slot k or beyond, so nobody gets past N.
ScanInv ==
    /\ pc \in [Workers -> {"idle", "scan", "read", "parse", "send", "shutdown",
                           "close", "release"}]
    /\ at \in [Workers -> 0..N]
    /\ used \in [Slots -> BOOLEAN]
    /\ \A w \in Workers : at[w] = 0 <=> pc[w] = "idle"
    /\ SlotExclusive
    /\ \A k \in 1..(N + 1) : Cardinality(Ahead(k)) + k <= N + 1
=============================================================================
