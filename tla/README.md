# A verification of the HTTP server library and the online debugger

This directory holds TLA+ models of `src/src` (a threaded HTTP server library in C) and of
`src/gdbc/src` (the *GDB Online Clone* server built on it: it compiles and runs the programs
that users send and passes their input and output on), the TLC runs that check them on small
instances, and proofs for TLAPS of the properties that hold for every size.

    tlc -workers 4 -config tp_pool.cfg MCThreadPool     # one run; the table below names them
    tlapm ThreadPoolProofs.tla                          # the proofs of one module

## The system

The main thread accepts connections and adds each of them as a job to a thread pool (256
workers in `gdbc/src/main.c`). A worker executes `handle_http_request` for one connection:
it claims one of as many request buffers as there are workers, reads the request once,
parses it, finds a route or a static file, calls the route's callback, writes the response,
closes the socket and releases the buffer. The callbacks of the online debugger share
`PROCESSES`, a table of 4096 programs. There is no lock on it: `is_running` of an entry is
atomic, everything else is plain memory. A program talks to the server through two pipes.

    clients -> accept loop -> job queue -> worker: buffer, socket -> parser, routes
                                             |
                                             +-> callbacks -> PROCESSES -> fork, pipes, kill, waitpid

| component | state | operations | what is hard | what makes it correct |
|---|---|---|---|---|
| thread pool, job queue (`threadpool.c`) | linked list of jobs under `queue->lock`; `stop`, `active_threads`, `cond` under `pool->lock` (mostly) | create, add job, worker loop, destroy | two locks, one condition variable for two kinds of waiters, signals without the lock, an `atomic_bool` used as a counter | each job starts once, in order; none after `stop`; shutdown ends; a queued job is taken while a worker is idle |
| accept loop, request handler (`runner.c`) | `buffer_list`, `buffer_used`, descriptors of the sockets | accept, claim, read, respond, write, shutdown, close, release | error paths that close twice and free a buffer that stays in the list; descriptor numbers that are reused at once; clients that go away | a handler always finds a buffer and has it alone; it reads, answers and closes its own connection; the answer is complete |
| table of programs (`service.c`) | `PROCESSES[i]`: flag, pid, two streams, two paths; children; files | build_and_run, stop, input, output, clean-up | requests of many workers about one entry without a lock; slots and ids reused; failing `pipe` and `fork`; programs that end, hang or close their output | an entry has one owner; no program and no slot is lost; a request reaches the program it names; files go away |
| pipes (`service.c`) | descriptor tables of the server and of the children | pipe, fork, close, `FD_CLOEXEC`, exec | `fork` in one worker copies what another has just opened | a program has its own pipes only; end of file is seen |
| route handlers (`gdbc/src/main.c`) | `source_code_count`, files in `temp/` | six callbacks | calls of the table in steps; elements of a body taken for granted | a right answer for each request |
| HTTP parser (`http.c`) | none | start line, headers, query, body | tokens that end where they should not; one failure that drops a whole list | the request that was sent, or a list that is empty as a whole |
| HTTP response (`http.c`) | none | stringify | | a client reads status and body off it |
| containers (`http.c`, `json.c`, `collections.c`) | arrays with size and capacity, the strings they own | insert, find, remove, destruct | growth, names that differ in case, paths with and without a last slash, limits, ownership | what was inserted is found, what is owned is released once, capacity is never exceeded |
| JSON (`json.c`) | none | parse, stringify | escapes and quotes, two passes that must agree, texts that end early | stringify and parse agree, a cut text is never taken for a whole one |
| static files (`runner.c`) | none | read a file | | |
| utilities, tests, build | none | | | |

`PROJECT.json` lists every component with its modules, and every hazard at its line.

## Modules

**`ThreadPool`** follows `threadpool.c` statement by statement where two threads can meet: a
step is what a thread does between two points at which another one can see its effect. `pc`
of a worker is its place in `worker_thread`: `top` (about to lock), `check` (the loop
condition), `doze` (it found nothing and is about to wait), `wait`, `dequeue`, `run`,
`finish`, `exited`. `Main` is the thread that calls `threadpool_add_job` and
`threadpool_destroy`. A critical section of `queue->lock` is one step, since nothing but
`front` and `rear` is touched in it, and the queue is a sequence of job numbers. `lock` is
`pool->lock`, held over several steps by a worker and for a single step by `Main`. `active`
is `active_threads` with the arithmetic of its type (`++` sets it, `--` negates it). A signal
wakes any one waiter; wake-ups without a signal happen as well (`Spurious`).
**`JobService`** is what the pool promises, and `ThreadPool!ImplementsService` says, with
`INSTANCE JobService WITH pending <- queue, open <- ~stop, ...`, that it keeps the promise.

**`RequestHandler`** follows `run_web_server`'s loop and `handle_http_request`. Each worker
has its place, the slot it tries or holds (`at` is `buffer_idx`), the descriptor it was
called with, and how much it has written. `fdtab` is the kernel's table, with `accept` giving out the
lowest free number; `jobs` the pool's queue, used as `JobService` promises. Bytes are told
apart by the connection they came from: `cells` is what the buffers hold after earlier
requests, and `Visible` what the parser makes of a buffer as a string. Clients send a request
in one piece and wait; those named by `Impolite` disconnect before they send, reset, or quit
after they sent. SIGPIPE ends the server (`killed`).

**`ProcessTable`** follows the four operations of `service.c` and the calls `main.c` makes of
them, one access to a field of an entry or one system call per step. Runs are numbered; the
number of a run stands for its pid, its streams, its paths and its files. `child` is the state of each child process (`mute`: it closed its
output and goes on). A running program may also have closed its input, which raises SIGPIPE as
an ended one does (`WriteBroken`), or not read it, so that `fflush` waits with the pipe full (`Stall`; place
`flush`) until the program reads or abandons its input. `fault` names the first thing that ends the server or is undefined
behaviour (a null or closed stream, a second free, `kill(0)`, an assertion, SIGPIPE, a missing
JSON element) and nothing happens after it. `known`, `slot` and `mine` are history: which run a client has an id
for, where a run was put, and which run a call is about. `Polite` restricts clients to complete
requests, ids they got, and one call at a time per id; `Failing` names the system calls that may
fail.

**`Utility`** has what the string functions and the containers share: a text is a sequence of
tokens, one for every character or word that the code tells apart, position 0 stands for a null
pointer and the position behind the last token for the terminating zero. `Push` is the growth
rule that headers, JSON objects and `struct array` have in common.

**`Containers`** makes any sequence of calls on one container of a kind: headers, routes,
query parameters, the elements of a JSON object, or a `struct array`. A step is one call; `list`
is `items`, `size` (its length) and `capacity`; `made` and `released` number what items own and
what was freed or handed to the cleanup handler. `Careful` leaves out callers that go on with a
destructed container or reserve less than there is; the program has none.

**`JsonDocument`** extends it with `json_object_stringify` (one operator for the pass that
counts, one for the pass that writes) and with `parse_json`, one token per step (`place` is
where the loop is). The text comes from the library, from a client that puts blanks between the tokens,
or from nobody (`Texts`), whole or cut at any place. `outside` is the outcome in which the code uses a null pointer or
memory outside of the text: a null pointer behind a colon or an element, and what lies behind the
terminating zero when less than three characters follow a `\u`, of which four are looked at whatever they are
(`Hexed`). `Invalid` and `Beyond` stand for the escape that cannot be decoded and for what is behind the
text; a text is made of the other `Characters`.

**`HttpRequest`** is `parse_http_request`: the start line in a step, then a header's key or value
or a query parameter per step. `ParseKey` and `ParseValue` follow the loops of
`parse_http_header`; what they are compared with (`Meaning`, `QueryText`) is read off the text
without them. **`RouteHandlers`** extends it with what becomes of the request: `OPTIONS`,
static file or route, and the callbacks of `main.c` with every check in its order, every answer,
the source file in `temp/`, and what ends the server (`fault`). Results of `service.c` and of
`parse_json` are taken as they may be; those have modules of their own. One result of each call into
`service.c` is that it does not come back and the server ends (`"service"`): by SIGPIPE when input is passed,
by any other fault of `ProcessTable`. Properties about
answers read status and body off `http_response_stringify` (`Seen`).

**`PipeInheritance`** takes one thing out of `build_and_run` that `ProcessTable` leaves out:
the pipes' ends, which of them each process has open (`server`, `holds`), and which are
close-on-exec (`cloexec`, and `flagged` for the copies a forked child took along). Stop and
clean-up, which `ProcessTable` has in detail, are one step here.

`MC...` modules add what TLC needs (sets for constants, symmetry). `...Proofs` modules hold
the theorems, `UtilityProofs` the facts that several of them need: about positions, sequences, sums
and lists that grow, and about texts: where a piece of one is, what joining and cutting do to it, runs
between delimiters, names and values. Definitions introduced by "Mutant" in a comment are plausible bugs of the
definition below them; `PROJECT.json` says which property each of them breaks.

## Runs

| run | instance | what it shows |
|---|---|---|
| `tp_pool` | 3 workers, 4 jobs, 1 spurious wake-up | the inductive invariant of the proofs; jobs start once, in order, at most one per worker, and none after `stop` (`ImplementsService`, `EveryJobAccounted`, `NoStartAfterStop`); `job_dequeue` never blocks with `pool->lock` held; shutdown ends although workers may be about to sleep; if jobs return, every queued job is taken although signals are lost (a busy worker comes back to the queue) |
| `tp_lost_wakeup` | 2 workers, 2 jobs | violation: a job in the queue, a worker asleep for ever |
| `rh_any` | 2 workers, 3 connections, any client | the single pass over the flags always finds a buffer; a buffer has one handler; a buffer dangles only after a client reset or disconnected |
| `rh_polite` | 2 workers, 3 connections, 2 descriptors, responses in 2 chunks, clients that wait | every open descriptor belongs to one job or handler, of its own connection; a response is complete when the connection is shut down; every client is answered |
| `rh_double_close` | 2 workers, 2 connections, clients that disconnect | violation: a handler shuts another client's connection down |
| `rh_stale_bytes` | 1 worker, 2 connections | violation: a request ends with bytes of the one before |
| `pt_polite` | 2 workers, 2 slots, 3 runs, polite clients | no program and no slot is lost, requests reach the program their client has the id of, files of ended programs are removed unless slot 0 forgot them, one fault only (SIGPIPE) is possible, every call returns unless it waits for ever for a program in `fflush` or, after the end of its output, in `waitpid` |
| `pt_any` | the same, any client, `pipe` and `fork` failing | until the first fault no other `build_and_run` is in an entry that is being built, and no clean-up there is past its `fclose` (one that a stop began between `fork` and `fdopen` may be before it) |
| `pi_any` | 2 workers, 2 programs that end | ends are inherited only between runs built at the same time; an ended program is reclaimed once those that inherited its pipe have ended |
| `pi_shared` | 2 workers, 2 programs | violation: a program keeps ends of another's pipes |
| `js_document` | up to 3 insertions into each kind of container; objects made so, and all short texts, parsed | nothing is written behind a container's memory, what was inserted is found, what is owned is released once; objects come back from their text as they were; a cut text gives no wrong element; the two passes agree but for an empty object; the parser leaves its text only where that is not closed, a value is missing, or less than three characters follow a `\u` |
| `api_request` | all short start lines, header lines and queries; calls of the API with headers, parameters and bodies present, missing, reordered and in either case | header and parameter lists are whole or empty, whatever the lines and the query; a complete request gets its answer unless a call into `service.c` ends the server; an error starts no program; a source file is left only where `main.c` forgets it |

### Bounds, and why they are enough

Each bound is a constant: `MaxJobs`, `MaxSpurious`, `MaxConns`, `MaxFd`, `BufLen`, `Chunks`,
`MaxProcess`, `MaxRuns`, `MaxMade`, `InitialCapacity`, `HeaderCapacity`, `MaxParameters`, and the sets
of texts. Four jobs for three workers let one job wait while all the workers are busy;
one spurious wake-up is enough to return a sleeper at any moment. Three connections over two
descriptors and two buffers make every number and every buffer be used again while the other
one is in use; a buffer of two or three cells has a longer and a shorter request, a response
of two chunks a partial write. Three runs over two slots reuse a slot and let a scan pass one that is freed
behind it; with one slot more than the busy ones a run also skips a slot. With two workers
every pair of calls meets in every order; what three could add to the invariants about
buffers, entries and pipes is covered by the proofs, which hold for any number.
Containers begin with room for two items and get three, so that a list grows once and the limit of
parameters is exceeded once; names include one in two cases, and paths the chain `/a`, `/a/`, `/a//`.
Texts have up to five tokens that matter (six in a query) behind what every one of them begins with:
enough for an empty value, a value in quotes, an escape before a closing quote, blanks at every
place, and a second element or line cut off.
Deadlock is checked in all runs but those of `PipeInheritance`, where all the programs may be
over, and of the parsers, which stop with their result. Symmetry in the workers is used by `rh_any` and `pt_any`, which check invariants only.

### Fairness

* `ThreadPool!Spec`: every thread that can run does run, and job functions return.
  `BlockingSpec` lacks the latter, since `handle_http_request` reads from a socket without a
  timeout. Nothing makes anybody add a job, destroy the pool or wake up without a signal.
* `RequestHandler!Spec`: workers run, and a connected client sends its request. That a job
  in the queue is begun is what `ThreadPool!QueuedJobStarts` shows of a pool of two or more
  workers whose jobs return.
* `ProcessTable!Spec`: a thread goes on with its call, and a killed or ended child can be waited
  for. Nobody has to make a request, and nothing is assumed of the users' programs: they need not end,
  read or close anything. `CallsReturn` therefore says that a call returns, or the server ends, or the call
  waits for ever at one of two places (`WaitsForProgram`), which are the only ones.
* The parsers and callbacks work on a request of their own, on one thread; no fairness is stated
  for them and no liveness checked: each step moves on in a finite text.
* `PipeInheritance!Spec`: calls go on, compiling ends, clients ask for the output of their
  programs. `EndingSpec` adds that programs end, which nothing in the server enforces.

## What disagrees with the documents

Each has a run, and `PROJECT.json` the line that is quoted.

* `threadpool.c:115`: a job is enqueued and signalled without `pool->lock`; the signal can fall
  between a worker's test and its wait (`tp_lost_wakeup`).
* `runner.c:139`: after `read` returned 0 the handler closes the socket and goes on to answer,
  shut down and close that number, which may be another client's by then (`rh_double_close`).
* `runner.c:146`: the buffer is neither cleared nor terminated (`rh_stale_bytes`).
* `service.c:250`: close-on-exec comes after the fork (`pi_shared`).

The following are stated in `ProcessTable` as well, each violated in a few steps; to see one,
replace the invariants of `pt_any.cfg` by it and set the constants given here. They stand
apart because they need clients that use ids of others, or are plain once the line is read.

| invariant | constants | what happens |
|---|---|---|
| `WriteErrorReturned` | 2 threads, 1 slot, 2 runs, `Polite` | `kill(pid, 0)` counts a zombie as alive, a running program may have closed its input, and SIGPIPE is not ignored: the input ends the server (`service.c:331`, `service.h:85`) |
| `ReclaimsExited` | the same | the end of a program's output is taken for its end, and `waitpid` waits for it while it runs (`service.c:345`, `service.h:91`) |
| `StopsOneProcess` | 2 threads, 1 slot, 1 run, not `Polite` | a stop between `service.c:112` and `172` calls `kill(0)` (`service.h:72`) |
| `CleanupOfRunning` | the same | two requests about one id clean it up twice (`service.c:75`) |
| `ResultStillValid` | the same | a run's id is stopped before its own stdin is passed on (`main.c:292`) |
| `CapacityUsable` | 1 thread, 1 slot, 2 runs, `Polite`, `Failing <- OnlyFork` | a failed fork keeps its slot for good (`service.c:289`, README) |

So are these of the parsers, containers and callbacks, under the constants of their runs:

| property | in | what happens |
|---|---|---|
| `FailureIsNull` | `js_document` | a text that ends behind a colon or an element is read through the null pointer of `find_non_space` (`json.c:168`, `257`), and one with a `\u` near its end is read behind its zero (`json.c:88`); `json.h:102` promises NULL for every failure |
| `InsertedIsFound` | `js_document` | `find_header` misses a header first inserted in another case; `http.h:153` calls names case-insensitive |
| `NamesIgnoreCase` | `api_request` | `/stop` and `/input` refuse a `Content-Type` whose name is in lower case, which `/run` takes (`main.c:370`, `439`; `http.h:153` calls names case-insensitive) |
| `WithinCapacity` | `js_document` with `Careful = FALSE` | an insertion after a destructor doubles a capacity of 0 |

What the models follow and no property is about: an empty header value starts behind its line,
and the search for its end leaves the text (`http.c:240`; `http.h:132` promises NULL); blanks in
front of a key shift the value (`http.c:183`); the key of a header is set although its value
fails (`http.h:186`); `body` is empty and never NULL without a body (`http.h:490`);
a comma before a brace is accepted, and a string that ends in an escaped backslash runs on
(`json.c:51`); a debug build ends the server when `/input` lacks `pid` (`main.c:452`); a language
other than `c` and `cpp` meets `assert(0)` (`main.c:208`).

`AdderReleased` of `ThreadPool` (with one worker, the size at which `threadpool_add_job` can hold an
adder back, it is let through again) holds with one worker, four jobs and two spurious wake-ups. The
program has 256 workers, and no run is spent on it.

`EndedIsReclaimed` of `PipeInheritance` is violated under `Spec` instead of `EndingSpec`: a
program that inherited another's pipe and never ends keeps the other one from being reclaimed.
With one worker it holds under `Spec` too.

## Proofs

All theorems hold for every finite set of workers and every bound, those about parsers for every
text; the assumptions on the constants are `PoolAssumption`, `HandlerAssumption`, `TableAssumption`,
`PipeAssumption`, `ContainersAssumption`, `JsonAssumption`, `RequestAssumption` and
`HandlersAssumption`, which say what the constants are and no more (of a request also that it has no
NUL inside, which ends a C string). A theorem that needs the clients
to behave, or system calls to succeed, says so in its `ASSUME`; so do the two about objects that are
read back. They assume `WellWritten`: values are strings or numbers and padding is white space.
`MCJsonDocument` has TLC evaluate it. That a text is made of `Characters` only, and holds neither
`Invalid` nor `Beyond`, is part of `JsonAssumption`: no byte that a client sends is one of them.

* **`ThreadPoolProofs`.** `IndInv` is inductive. `LockInv` ties `pool->lock` to the places
  between taking and giving it up; with it a worker that saw a job in `check` still finds one
  in `dequeue`, because only another holder of the lock could have taken it. `StopInv` says
  that after `stop` nobody sleeps or takes a job. `OrderInv` says that the queue holds the
  youngest jobs without a gap and every other job is with one worker or finished. From it:
  `DequeueNeverBlocks`, `JobsAccounted`, the action properties `StartOrder`
  and `NoStartOnceStopped`, and `Refinement`: every step of the pool is a step of
  `JobService` or leaves it alone. Two more assume a single worker, the size at which the flag of
  `threadpool_add_job` is a count: `++` and `--` alternate (`FlagExact`), and the adder and the worker,
  who share a condition variable and signal it for one waiter, never wait on it together (`WaitersAlike`).
* **`RequestHandlerProofs`.** That a handler always finds a buffer is not obvious: it looks at
  each flag once, while others come and go. `ScanInv` counts: at most `N + 1 - k` workers are
  at slot `k` or beyond. A worker moves on from a slot only because another one holds it; so of the
  `N + 1 - k` at `k` or beyond at least one stays. Hence nobody gets past `N`
  (`ScanAlwaysSucceeds`), and a buffer has one handler (`BuffersExclusive`).

  Who has which descriptor is the second part. `OwnInv` says of every state what holds of types and
  buffers, and of those in which no client has reset or disconnected (`Peaceful`) also that each
  descriptor is with one job or one handler, which has the connection it was called for
  (`JobsOwn`, `HandlersOwn`, `DescriptorsHeld`), that what a connection has received is what its
  handler has written (`ResponsesWhole`), and that no buffer was freed. It is inductive with any
  clients (`OwnInvariance`, `HandlerTypeCorrect`), since a handler closes a socket twice only after it read nothing.
  Hence a buffer dangles only after misbehaviour (`NoDanglingInPeace`), and until then descriptors
  are owned and responses complete (`PeaceKept`). With polite clients that is always
  (`DescriptorsOwned`, `ResponsesComplete`, which assume `Impolite = {}`); `rh_double_close` shows
  that the assumption cannot be dropped.
* **`ProcessTableProofs`.** That entries are exclusive holds although nothing is locked and
  several clean-ups of one entry may run: `EntryInv` says that a free entry has no open
  streams, so that a clean-up gets past `fclose` only in an entry whose streams are open, the
  first one closes them, and the next one stops with a fault. So a clean-up that a stop began while
  the entry is still being built does not get past `fclose` in it, and cannot release it. `EntriesExclusive`
  and `TypeCorrect` hold for any client, with `pipe` and `fork` failing.

  With polite clients (`ASSUME Polite`) more is true, again without a lock: a slot is handed on
  through `is_running` and through what the clients know. `PoliteInv` follows a run on that way.
  `RunnerInv`: `build_and_run` has filled its entry up to the place it is at, and nobody knows the id
  yet. `KnownInv`: an id that a client knows names an entry with the pid of its run, whole unless a
  clean-up is about to release it. `CallerInv`
  and `DistinctInv`: a call is about an entry its client knows, and no two calls are about the same
  one. `ChildInv`: a child that was not waited for is in its slot or with its run, a file with its
  program or a clean-up. From it `ChildrenHaveSlots`, `ActsOnOwn`, `FilesRemoved` and
  `SigpipeOnly`, with `pipe` and `fork` failing or not; `SlotsHaveOwners` assumes
  `Failing = {}` as well, because a failed fork does lose its slot (`CapacityUsable` above).
* **`PipeInheritanceProofs`.** `LeakInv`: an end of a pipe that is not close-on-exec belongs to
  a run that is being built, so what a child keeps after exec comes from runs that overlapped
  its own (`LeaksNeedOverlap`). With one worker there are none, and the comment at
  `service.c:249` is true (`OneBuilderIsPrivate`).

* **`ContainersProofs`.** `ContainerInv`: no two items are the same for the lookup of their
  kind (`Distinct`, with `url_path_cmp`, symmetric but not transitive), every item owns something that was not
  released and everything else was (`OwnedOrReleased`), and with careful callers the items fit
  (`CapacityInv`). `MinFacts` says that the loops of the lookups return 0 only if nothing matches;
  from it each insertion either appends an item unlike all others or replaces the one it found.
  Hence `ReleasedOnce`, `CarefulStaysWithin` (the one theorem that assumes `Careful`),
  `ItemsAreFound`, `LastHeaderIsFound` and `ContainerTypeCorrect`, for any names, values,
  capacity and number of calls.

* **`JsonDocumentProofs`.** `JsonInv` has all of `ContainerInv`, since a step of this module is one
  of `Containers` or leaves it alone (`JsonUsesContainers`). `PositionInv` says where in the text
  the loop of `parse_json` is at each place, that a value begins behind its colon, and that behind
  an element a closed text goes on; `ParsedInv` that what was parsed fits its array. Hence `JsonTypeCorrect`, and
  `InsideOfClosedTexts`: for a text of any length the parser leaves it only if it is not closed, a
  value is missing, or less than three characters follow a `\u`. The last case needs that what is behind the text was reached
  through an escape only (`BeyondIsBehind`, `EscapeAtEnd`). `CountedIsWritten` is about two passes over any object: the length that the
  first one adds up is the length of what the second one writes. `FoldSteps` and `FlattenSteps` say
  what one more element adds to either, and an index at which they first differ cannot exist.

  That an object comes back from its text (`WholeComesBack`), and its first elements from a text that
  was cut off (`CutComesShort`), is said of the end of parsing only. `WrittenInv` says it of every place on the
  way. `Written` gives each element five places in the text, where it begins, its name, its colon,
  its value and its end, whether all of them have arrived or not; they exist because
  `FlattenReads` finds each piece of a joined text behind the ones before it. `Cursor`: the parser is
  at one of the places of the element whose turn it is, with the name it has read, and the elements before
  that one were read as they are in the object (`InOrder`). A step keeps that because a text in quotes ends
  at the quote that closes it and decodes to what was encoded (`QuotedEnds`, `TokenIs`, which need that it
  does not end in a backslash), and a number ends where the next sign is (`OtherIs`). Behind the end of a cut text
  nothing is left to find, so that the parser stops there. Any number of elements, any strings, any padding.
* **`RouteHandlersProofs`.** `HandlersInv` holds whatever text is sent. `ParserInv` keeps the parser
  in its text and its lists within their arrays (`HandlersTypeCorrect`, which is that of
  `HttpRequest` as well). `WorkInv` says what the callbacks have done when they answer: with a
  program started the status is 200, and a source file that is left without one means an unknown
  compiler or a failed build. `AnswerInv` says which headers an answer can have. The client does
  not see that state, it reads a text: each header line is `Closed`, that is it ends with CRLF and
  no empty line is in it, so the first empty line of a response is the one before its body
  (`BodyFound`), and status and body are read off as they were meant (`SeenFacts`). Hence
  `ErrorsStartNothing` and `LeftoversExplained`, which are about what the client reads.

  Three more say that what was sent is what is acted upon; each compares the end of a loop with a
  reading of the whole text, and needs to know what the loop has made of the part it has passed.
  `QueryKept`: for any query `WholeInv` says that as many parameters are in the list as were taken from the
  text, each with something on both sides of an equals sign (`ValuedIsCut`), and that one without, or one more than
  `MaxParameters`, drops them all. Of a query of names and values `QueryInv` says also which they are; joining runs with the delimiter
  that separated them gives the text back (`PairsJoined`). `HeadersKept`: `LineInv` has as many lines
  behind `pos` as there are items, for lines of any kind, unless the list was given up;
  `MeaningInv` adds that of clean lines the items are what the lines mean, and the key that
  is waiting for its value is the name in the line at `pos`. Both need `FormInv`, that only a request
  with all its parts is taken apart, and `HeaderInv`, that the header lines stay what they are in the text.
  `CompleteServed`, that a complete request gets its answer, puts these together:
  `RequestInv` is what the start line was parsed to, so that the route is found; the lookups of the
  callbacks find the header because no two keys differ in case only, and a parameter because it was
  sent once (`SentFound`); `ServedInv` says of each place in the callbacks that no check before it has failed.
  What may still end the server is a call into `service.c`, and the assertion on its result: which faults those are
  is `ProcessTable`'s matter, where polite clients leave SIGPIPE alone (`SigpipeOnly`).

`IndInv` of the pool and `LeakInv` of the pipes are checked by `tp_pool` and `pi_any`. The invariants `ScanInv`,
`OwnInv`, `EntryInv`, `PoliteInv`, `ContainerInv`, `JsonInv`, `WrittenInv`, `HandlersInv`, `RequestInv` and `ServedInv`
were checked by TLC on the small instances before they were proved; no run repeats them. Induction over data is done by a smallest counterexample (`MinFacts` of `UtilityProofs`), as
the library's induction theorems take an operator as a parameter and cannot be used here.

Every invariant and every action property that a passing run checks is stated by a theorem. Only
model-checked are the liveness properties (`ShutdownCompletes` and `QueuedJobStarts` of `tp_pool`,
`Answered` of `rh_polite`, `CallsReturn` of `pt_polite`, `EndedIsReclaimed` of `pi_any`): liveness under
fairness and ENABLED are outside this prover's reach.

## Not modelled

* Bytes: what compilers, programs and clients write. In `RequestHandler` a request comes in one
  piece, although the server would also parse the first piece of a longer one; `JsonDocument`
  cuts bodies, start line and headers are taken to arrive at once. A cut body is taken to end with a zero:
  that bytes of an earlier request may follow instead is what `rh_stale_bytes` shows, and nothing
  is said of a text that is made of both.
* What one thread does to another in the parsers and callbacks: they touch nothing that is shared
  but the table of programs, which `ProcessTable` has.
* Nested JSON: `parse_json` takes a nested object or array for text up to a comma or brace, as the
  model does; no property is about it.
* Failing `malloc` and `pthread_create`, whose results are ignored or lead to an early return
  without a change of shared state; fields of an entry are written at once, without torn or
  reordered writes.
* Memory that is only leaked (the 14 KB of a `read` without output, elements of a JSON object).
* The size of a kernel pipe: any input may block in `fflush` (`Stall`), also one that would fit. That the stream
  stays locked meanwhile matters only to clients that make two calls about one id at a time.
* In `RouteHandlers`, a call into `service.c` that never returns: the request stays where it is.
* Reading a static file, the version and the length of a response, logging, start-up and its error
  returns (`socket`, `bind`, `listen`, `mkdir`), build files and tests.

## Plan

Done, in this order: thread pool and its abstract service, request handler, table of programs,
pipes, containers, JSON, HTTP parser, callbacks and responses, and the proofs above. Left:

1. `JobList`: the linked list of `job_enqueue` and `job_dequeue`, with `front` and `rear`,
   refining the sequence of `ThreadPool`.
2. `RequestHandler` with a pool that may lose wake-ups, and requests that come in pieces.
