# TLA+ models of picture_web

picture_web is a picture-hosting service: a web page, an HTTP front server, and a database
server and a FastDFS server, to which the front server talks gRPC. This directory holds TLA+
specifications of its concurrent core, the TLC configurations that check them, and proofs that TLAPS checks.
Source paths below are relative to the repository (`src/base/...` and so on; the files lie
one level further down, under `src/src`, in `PROJECT.json`).

`PROJECT.json` maps every definition to the lines it models and lists components, runs,
mutants, findings, hazards and theorems.

## 1. The system

### Flow of a request

    a tab of the browser (tc-front): pages, cookies userName and token, upload dialog
         | HTTP
    epoll dispatch threads (SocketPool, one EventDispatch each, chosen by fd & (n-1))
      HttpServer accepts -> HttpConn reads and parses -> api_dispatch (longest prefix)
         -> a handler of src/api, a coroutine (RpcTask), registered at CoroutineScheduler
              co_await GrpcClient RPC  ---->  database server: one gRPC event loop
              (the thread leaves)              - synchronous handlers run on the loop:
              completion-queue thread            Query at once on 2 connections,
              -> WorkPool resumes it             Execute queued for 8 worker connections
                                               - chains of asynchronous statements, polled
                                                 every 50 ms by a thread per call class
              co_await GrpcClient RPC  ---->  FastDFS server: WorkPool + connection pool
         -> HttpServer looks the connection up again by fd, HttpConn::SetResponse
         -> final_suspend hands the coroutine to the scheduler's MPSC queue, the scheduler
            thread has a worker run the completion callback, and the frame is destroyed

WorkPool and SocketPool are two instances of the C thread pool (`BaseThrdPool.c`), which is
built on the C message queue (`msgqueue.c`).

### Inventory

| Component (source) | State | Operations | What makes it hard | What makes it correct |
|---|---|---|---|---|
| Message queue (`base/msgqueue.c`) | two linked lists, two heads, count, nonblock, two mutexes, two condition variables | put, put_head, get (with swap), set_nonblock, set_block | heads and flag read and written outside the mutex; signals after the unlock; a limit that is counted on one list only | FIFO, no loss, no duplicate; no lost wakeup; bounded; shutdown releases everybody |
| Thread pool (`base/BaseThrdPool.c`, `ThrdPool.cc`) | queue, thread count, terminate condition, the id of the last thread that exited | create, schedule, increase, decrease, exit, destroy by the owner or by a task | threads join each other in a chain; a task may destroy its own pool; creation that fails half way | every thread joined once, no use after free, no task left behind, destroy returns |
| Coroutine scheduler (`base/CoroutineCompeleteQueue.h`, `MPSCqueue.h`, `RpcCoroutine.h`) | holders map, MPSC list, run_loop, coroutine frames | schedule, finish, run_loop, try_notify, callbacks | lock-free queue; self-enqueue before the suspension; notify without the mutex | FIFO; no node or frame used after it is freed; every finished coroutine released |
| gRPC client (`base/GrpcClient.h`) | call data, completion queue | co_await, OnComplete | resumed by another thread; errors | every awaited call resumes its coroutine |
| File metadata (`dbserver/dbapi/*`, handlers of `api/`) | tables file_info, user_file_list, user_file_count, share_file_list; Redis sorted set; FastDFS | store (instant upload, upload), delete, share, cancel, save, pv | no transactions; reads and writes apart; writes applied later and in any order | a row's file is stored; counts equal rows and the four records of sharing agree where no race or fault has spoiled them |
| Shared pictures (`api_sharepicture*`) | share_picture_list, a count per user | share, cancel, browse | the count is read apart from its write; a link counts as no reference to its file | the count equals the links |
| Lists and counts (`api_myfiles`, `api_sharefiles*`) | Redis cache of the count | list, count | stale cache, first insert by two readers | bounded staleness |
| Registration, login, token (`api/api_login.cc`, `api_register.cc`, `common_api.cc`, `dbapi/api_login_db.h`, `api_register_db.h`) | user_info, a token per user in Redis, for a day | register, login, verify | check then insert; get then set; expiry; Redis fails | a token lets in only the user who was given it; a session outlives other users' logins; a registration stands |
| Web front end (`tc-front/static/js`) | two cookies, the pages of each tab, an upload in progress | load, route, log in and out, list, upload | several tabs and one pair of cookies, written without escaping; answers after the page is gone; scripts that fail to load | name and token belong together; no redirect loop; no form stays disabled; an upload only after its check |
| Sockets and HTTP (`base/BaseSocket.cc`, `frame/HttpConn.cc`, `HttpSever.cc`) | fd map, reference counts, connection state, connection list | accept, read, write, close, SetResponse, idle timeout | descriptors are reused; closed by several threads; keep-alive; non-recursive lock | a response reaches the connection that asked; closed once; the count is the number of holders, and who lets go last deletes |
| Event dispatcher, timers (`base/EventDispatch.cc`, `TimerEvent.cc`, `tools.h`) | epoll set, timer heap, handle set, ids | AddTimer, RemoveTimer, _CheckTimer, StartDispatch, StopDispatch | heap used without the lock; deletion from another thread | a periodic timer keeps firing; ids unique |
| Database worker pool (`dbserver/dbimpl`) | operation queue, workers, synchronous connections, callback chains | Execute, AsyncQuery, Query, transactions, shutdown | connections race; callbacks polled; shutdown with work queued | every accepted statement runs; callbacks run once and in chain order |
| MySQL connection (`MySQLConnection.cpp`) | handle, prepared statements | execute, reconnect, retry | retry of what was applied | a transaction is applied once |
| gRPC servers (`frame/GrpcServer.h`, `base/RpcCalldata.h`) | call-data state machines | Proceed | exceptions | each call answered and freed once, the next one always awaited |
| FastDFS pool (`fdfs/FdfsConnPool.cc`) | idle connections | acquire, release, upload with a second attempt, remove | a fixed pool and many paths out of an upload | none lost, none used twice |
| Routing, buffer, parsers, configuration | trie, chained buffer | pure functions | boundaries | equal to a reference definition |

Not considered: generated protocol buffers, the vendored `fmt`, build files; the ring buffer, the leak hooks and the token bucket, which the
program does not use. Character-level HTTP and URL parsing is left out as well: its
properties are about strings, not about states.

## 2. Modules

    TaskQueue      what a queue promises (abstract)
      ^   ^
      |   +------ Scheduler  (coroutines, MPSC queue, scheduler thread, gRPC client)
      +---------- MsgQueue   (two-list queue)
    ThreadPool     on top of what TaskQueue specifies
    Connection     sockets, HTTP connections, event loops, and the ends of request handlers
    FileStore      metadata over the database server's two ways to run a statement
    RpcService     what a gRPC server promises (abstract)
      ^
      +-- RpcServer (call data, event loop)  <-- DbServer    handlers, chains, workers
                                             <-- FdfsServer  tasks and the connection pool
    Accounts  <--  Client      login and tokens on the server; the tabs of a browser
    Timers         the timer heap of an event loop, timer ids

`MsgQueueProof`, `ThreadPoolProof`, `SchedulerProof`, `ConnectionProof`, `FileStoreProof`,
`DbServerProof`, `FdfsServerProof` and `ClientProof` hold the theorems about the module each
extends; `RpcServerInv` defines the invariant of the frame both gRPC servers build on (section 5).
`MC*.tla` instantiate a module for TLC, one `.cfg` per run.

### TaskQueue
One sequence of messages, and for each thread the message it is about to put or has just
got. `Put` appends, `PutHead` may insert anywhere without disturbing the order of the rest
(the source only promises "at head", and which head depends on a race), `Get` takes the
first. It is implemented twice, by MsgQueue and by Scheduler. `OnePlace` says what follows: a
message is in the queue once or in one hand.

### MsgQueue
`pc[t]` names the next statement of thread `t`; a step is what happens between two lock
operations, or one racy access. The two lists are `lists[1]` and `lists[2]`, reached through
`get_head` and `put_head` as in `struct __msgqueue`; `put_tail`, which always points to the
last link of the put list, is its end. What is kept with care because it is where the code
is delicate:

* `GetPeek` moves `get_head` **before** `put_mutex` is taken, so between it and `Swap` both
  heads are on one list (`Swapping`);
* `put_head` peeks at `*get_head` without `get_mutex` and spins on `trylock` (`HeadPeek`,
  `HeadTry`);
* `put` signals after its unlock (`SignalGet` is a step of its own); `nonblock` is written
  before the lock (`SetNonblock`, `SetNonblockWake`);
* `Limit` is `msg_max - 1` computed in `size_t`: a queue created with 0 has no limit.
* condition waits may return spuriously (`SpuriousWakeup`).

The reads of `nonblock` and `*get_head` without a lock are data races in C; they are modelled
as atomic reads of the current value.

Refinement: the abstract queue is `lists[get_head] \o lists[put_head]`, or the one list during
a swap. `ImplementsTaskQueue` says no message is lost, duplicated or overtaken.

### ThreadPool
The pool's queue is a sequence (that MsgQueue implements one is checked separately), unbounded
because `thrdpool_create` passes maxlen 0; `fetched` says how much of it is on the get list. Each
critical section of `pool->mutex` is one step. `thrdpool_decrease` calls put_head, which may meet a
worker in the middle of a swap (`DecreaseJams`): then neither lets go, and whoever calls the queue
later waits for ever (`Jammed`, `Block`), a destroyer with `pool->mutex` in its hand.
`CreateThread`/`CreateFails` are `thrdpool_create`; `Loop`, `GetTask`, `GetNull`,
`FinishTask`, `AfterTask` are `__thrdpool_routine`; `Exit`, `ExitJoin` the exit routine;
`TermLock` to `TermJoin` `__thrdpool_terminate`; `Drain` and `Dispose` the rest of
`thrdpool_destroy`. A task may schedule, grow, shrink, exit its thread or destroy the pool;
the owner may let the pool go to a task. The calls obey the contract of `BaseThrdPool.h`: one
destroyer, and nobody outside the pool calls once somebody else destroys it.

### Scheduler
A coroutine's `pc` goes from `schedule` through awaits to the steps of `finish`
(`Finish`, `Exchange`, `Link`, `NotifyOne`) inside `final_suspend`, and then `Suspend`, when its
thread leaves the frame. Its Notify is held by the map, then by the queue and the scheduler thread,
and by `schedule` until the coroutine has first left that thread (`held`, `ScheduleReturns`); the last
holder destroys the frame if `done()` says so, and leaks it otherwise (`GivenUp`).

The scheduler asks `done()` of a coroutine that is not suspended, which C++ leaves undefined. A
build may answer no until the thread has left, or yes from the start of `final_suspend` (compilers clear
the resume pointer first): `early`, chosen at the start, says which (`Done`).
The MPSC queue is at the grain of its atomic operations: `Exchange` and
`Link` are apart, so other producers and the reader run in between. `freed` records the nodes
`Dequeue` deleted. `run_loop` is `Check`, `Park`, `Dequeue`, `TryNotify`, `Drop`; the
predicate and the wait are two steps because the notifier does not take the mutex.

`Queued` orders the nodes in the queue along `prev`, because the forward
links are not there yet while a producer is between `Exchange` and `Link`; this is the
refinement mapping to TaskQueue.

Program exit (`~CoroutineScheduler`) is left out. A coroutine is enqueued once, so a node is
named after its coroutine. `MaxRpcs` bounds the awaits of each; `TryAgain` is `try_again_times`. An RPC that fails leaves its
coroutine suspended for ever (`RpcFails`); a thread that is still in `final_suspend` when the
scheduler has looked 1 + TryAgain times (40 ms) leaks its frame (`Drop`).

### Connection
The socket layer: `socket_map` and its references (`BaseCount`), epoll's view of a descriptor
(`interest`), the event loop of the descriptor's thread (`thread`), `HttpConn`'s request state
machine, `HttpServer::conn_map`, the acceptor, the peers, and the request handlers from
`api_dispatch` to their end. A thread's step is a handler of the loop (`Poll`, `OnRead`,
`OnWrite`, `Reparse`), or a statement of `Close` whose order matters: state, list and epoll,
then the map, then the descriptor. A handler finds a connection under its descriptor
(`Find`, a reference under the map's lock), checks and answers it under `h_lock` (`Check`,
`SetResponse`, `Arm`), and lets both references go; each release is a decrement and then a
look at the count, as in the code. Two who let go may so both see 0, and both delete
(`freed_twice`); `raced` remembers the connections whose last reference went while somebody
(`Lookers`) had still to look. What a late look reads of a deleted object is arbitrary.

An RPC of a handler may fail (`RpcFails`): its coroutine is not resumed, and it keeps its reference.
A send to a peer that has left may fail.

A request is a header and perhaps a body. `HandleRead` is the whole fall-through `switch`:
keep-alive goes back to `Http_Header_Parser` with the old header in `recv_str`, so that a
request without a body is dispatched again, and what follows one with a body is taken for its
next body. An EPOLLOUT without a response (a late `ModifyEvent` on a reused descriptor)
depends on `sended_size`, which nobody initialized: either outcome. A deleted object's fields
are reset, since nobody may look at them.

Left out: the idle timeout and the server's own shutdown, partial sends, handlers
that throw before they answer (those in `api/` catch), and connections that share a thread,
which only means that fewer steps interleave.

### FileStore
The tables, the Redis set, what FastDFS stores, the bag `pending` of statements handed to the
worker connections, and the requests in progress. A synchronous handler has the event loop for
itself (`Start`, `OnLoop`); each of its steps is a `SELECT`, which runs at once, with the
`Execute`s up to the next one, which only go to `pending`. `RunPending` applies any pending
statement, because eight connections race. Instant upload and upload are chains: each
statement is a step, any number of chains interleave.

External and assumed: the table schema is not in the repository; the natural keys are taken
as unique, so that a second `INSERT` fails and changes nothing. Redis is atomic per command.
FastDFS never gives out an id that is in use; an upload or a delete may fail. The view
counters (pv) are left out, the effect of a view on the Redis set is modelled.
A "file" stands for an md5 together with the name it is listed under. Of a shared picture only the
link and its user are kept: no handler that changes state reads the rest, and browsing only adds to pv.
A link is no reference to its file, so it may outlive the file, and work again after another upload.

A client may send whatever the web page offers (`MayRequest`), also about a file, a listing or a
counter that another request is about, or whose writes from a request answered long ago still wait:
nothing in the program keeps requests apart. A worker's statement may be refused, which nobody
looks at; a `SELECT` that is refused looks to the handler like no row; a Redis command may throw,
which ends the handler between its writes (`Fault`; `Run`, `Select`, `Redis`). So the numbers do go
wrong, and the claims say when. A statement carries `was`, what its handler took the row to hold;
one that finds something else (`Meets`), one that is refused, and a handler that is cut short
put the numbers they concern (`About`) into the history `upset`. `kept` are the files whose row was to be deleted, but
the `DELETE` was refused. The numbers outside `upset` are exact: whatever overlaps, the handlers
themselves add up, in any order of their writes.

### RpcService, RpcServer, DbServer, FdfsServer
`RpcService` is the contract of both gRPC servers in six steps of a request: it is taken, it
is replied to at most once, its client gets the reply or has left, and only then is what the
server holds for it given up. `RpcServer` is what they share, `frame/GrpcServer.h` and
`base/RpcCalldata.h`: the loop takes a tag (`NextTag`), makes the next call data (`Spawn`),
runs the handler, and sets `status_` (`Mark`). A call data is named after its request; gRPC
gives a request to an armed call data and brings the tag of a reply back. A tag with
ok = false (the client has left) is ignored by the loop, so the call data stays: "leaked". A
handler that throws leaves its request "dropped"; a reply to a call data that has one, or that
is deleted, would be "misused". `Service` maps these to the contract.

**DbServer** adds the worker pool. An asynchronous handler pushes its first statement
(`StartChain`), then gives its chain to the processor of its class (`AddCallback`), whose
thread walks over the chains under its mutex (`ProcessReadyCallbacks`, `InvokeIfReady`); a
callback replies or asks on. A worker pops, looks at the cancel token, runs, may lose its
connection, and sets the promise (`WaitAndPop` to `Deliver`); the condition variable is
explicit, `notify_one` picks a sleeper. A synchronous handler reads (one step: it has the
connection locked and the loop waits), writes without waiting, calls Redis, and replies. The
process opens the connections one by one and may fail half way: this is the one use of
`Close`, since `Run` never returns (nothing shuts the completion queue down). A lost
connection is opened again in up to five attempts, then the process aborts; a statement that
was carried out before the connection was lost is run again. The process also aborts at an
error that only a schema at odds with the statements gives (`MySQLConnection.cpp:620`: no such table,
unknown column, syntax); the schema is taken to fit, so a statement is carried out or refused. Values are left out: a statement
is the request and its number in the chain. Transactions and query holders are not used.

**FdfsServer** adds the tasks that `OnRequest` submits, the pool of connections with its
condition variable, and each exit of `upload` and `remove`. An attempt may store the file and
fail all the same. The `try` of `OnRequest` covers the submission only: an upload that fails
twice throws in the task, which nothing catches, and the process ends (`Throws`).

### Accounts and Client
`Accounts` is the server: a call is one HTTP request with its coroutine, and its `pc` says
what it waits for. `CheckPassword` is LoginCall; `CheckName` and `InsertUser` the two
statements of RegisterCall, which does not look at the result of the second: an INSERT that fails, for
whatever reason, is answered 0 like one that succeeds. `ReadToken` and `WriteToken` are the two commands of `setToken`;
`VerifyToken` the check of a request with a token. Redis may fail at each, before or after the write;
login then answers without a token. An RPC that fails leaves the call stuck, but what the database
server has begun for it goes on (`lost`, `ReplyLost`): its INSERT may come after the browser has given up
and the user has tried again. `granted`, `expired`, `missed`, `crowded` and `doubtful` are histories
for the properties; `doubtful` are the users who had two registrations at work together, such a
remainder included, or one whose statement failed.

`Client` is the front end, read from the bundles in `tc-front/static/js` (each is one line of
minified code, which is why its map entries all name line 1 or 2). A turn of the event loop is a step.
Scripts load one after the other and may fail (`LoadVendor`, `LoadMain`): the webpack runtime
runs the entry module when all its chunks are there. `Landing` is what the router makes of a
path: `PrivateRoute` wants both cookies, the login page goes away when there is a token; "loop"
is a redirect between the two without end. A page keeps the cookies it read when it was shown.
`setCookie` writes a name as it is, and `getCookie` cuts at ";" and decodes. `Plain` are the users whose
names come back as written; once another name has been written (`odd`), reading may give any name,
the new, the old or no token, or throw, which takes the application off the page ("blank"): `Written`.
`Submit`, `Fetch`, `Hashed` send requests; `Receive` runs the handler of the promise, in the page
that asked or after it has gone; `Fail` is a response that does not come, or with an error
status. The upload dialog refuses a large file and hashes it all the same, asks for the
md5, and uploads when the store has not got it and the promise is not rejected yet.
`user_name` is taken as unique; paging, sharing and ranking pages are left out, and so is what a
list contains.

### Timers
TimerEventManager with IDhelper, and `_CheckTimer` in the steps between which other threads
may create or destroy a timer. Popping an empty heap is undefined and ends the model's promise.

## 3. Runs

| Run | Instance | States | Question |
|---|---|---|---|
| `queue_live` | 2 producers, 1 consumer, 1 thread that sets nonblock; 3 messages; MaxLen 1; fair | 18 158 | a pool at work and its shutdown: everything delivered, producers get on, swaps end, nonblock releases all, the bound of the header |
| `queue_all` | put+set_block, put_head, 2 consumers, set_nonblock; 3 messages; MaxLen 2 | 171 120 | every function of the header together: each message in one place, swap, wakeups, FIFO refinement |
| `pool_all` | 3 workers, 2 tasks, 2 initial threads, 1 exit entry; fair | 132 209 | memory, join chain, count, nothing left; destroy returns and tasks are served unless a decrease jams the queue |
| `coro_all` | 3 coroutines, one with an RPC, errors, slow threads, both kinds of `done()`; fair | 311 160 | node and frame lifetime, the MPSC queue is a FIFO, a finished frame is given up unless a notification is missed |
| `conn_all` | 2 connections on 1 descriptor, 2 handlers, 2 requests of 3 kinds; fair | 213 162 | map, reference counts and connection list are exact; nobody waits for ever but for a handler lost with its RPC |
| `conn_crossed` (violation) | the same, without fairness | | a response reaches the connection that asked |
| `store_all` | 2 users, 2 files, 2 blobs, 1 link, 2 calls; 4 requests of all nine kinds, about the same files or not, or 3 and a fault | 598 634 | blobs of rows are stored; counts, listings, sharing and picture links are exact outside `upset` |
| `client_all` | 2 tabs, 2 users with plain names, 2 passwords, 2 calls at a time, 2 requests, 2 tokens | 887 971 | cookies, sessions, redirects and registrations |
| `client_live` | 1 tab, 2 users, one whose name is not plain, a small and a large file, 2 requests, 1 token; fair | 670 404 | loading, the upload dialog, forms that wait, and tokens sent from pages with mixed-up cookies |
| `db_all` | 2 workers, two requests of two methods (a chain of up to 2 statements, and a synchronous one), 1 lost connection; fair | 124 023 | the contract; no call data used after its end; no promise forgotten; everybody answered; Close ends |
| `fdfs_all` | 2 uploads, 1 delete, 2 threads, 1 connection; fair | 111 788 | the contract; the pool exact; answered ids stored; everybody answered |
| `timers_lost` (violation) | 1 periodic timer, interval 1, 2 ticks; fair | | a timer that is wanted is called |

`Consistent` is, in each module that has one, the type invariant together with the facts the
other claims rest on, each a named and commented definition: `OnePlace` of TaskQueue (MsgQueue,
Scheduler), `CountExact` and `JoinChain`
(ThreadPool), `NodeSafe` (Scheduler), `MapExact` and `IdleListExact` (Connection),
`AppComplete` and `SessionKept` (Client), `AlwaysArmed`, `NoUseAfterFree`, `FutureKept`,
`AppliedOnce` and `WorkerStopsFirst` (DbServer), `AlwaysArmed` and `TaskHasCall` (FdfsServer).
`Progress` of MsgQueue is `PutProgress`, `SwapCompletes` and `NonblockReleases`.

### What the bounds leave in
* **MsgQueue**: three messages and MaxLen 1 or 2 let a list fill up, be swapped while full,
  and fill again behind a producer that waits; two consumers contend for a swap; MaxLen 0 and
  larger values are covered by the proofs. `SizeMax` 15 stands for the largest `size_t`.
* **ThreadPool**: three workers make a chain of joins with two links while one thread is
  created late; two tasks let one destroy the pool while the other schedules or exits. Exit
  entries are bounded by `MaxExits`. Two tasks and an exit entry let the get list be empty while messages wait, the case that jams. Every task is scheduled once: a task that returns has no
  further effect on the pool.
* **Scheduler**: with three producers two can be between `Exchange` and `Link` while the third
  completes, which is when the queue is cut in two places. The coroutine with an RPC ends on
  another thread than schedule's, the two without on its own.
* **Connection**: one descriptor and two connections make every descriptor a reused one, which
  is where the map, `ModifyEvent` and a late handler can go wrong; with more descriptors the
  threads only run side by side. Two handlers let a late one meet the rightful one. Two
  requests let the second arrive while the first is handled, or be taken for a body.
* **FileStore**: counts go up to `MaxCount` + 1; two users and two files allow last and
  last-but-one references, first and later counts; two blobs allow an orphan besides a stored file. Two calls
  and their pending writes overlap on one file, one user or one link as on different ones; four requests, of which any number may be finished with
  their writes still waiting, are a store, a save and two deletes or withdrawals. One fault is one refused statement or
  one Redis exception, and takes the place of a request. Without it every count is exact where no two requests raced; with it, where none was cut short.

* **Client**: two tabs share the cookies, two users mix them; two calls at a time are an answer
  that arrives late behind another, two logins of one user, or two registrations of a name; two
  tokens are one that expires and the one that replaces it. `MaxSent` bounds what the pages send; an
  upload with its check and two refreshes is one chain of requests, and takes one of the two. `client_all` has plain
  names only, for there the claims about pages are made; `client_live` one that is not, so that pages send any pair.
* **DbServer**: two workers race on the queue, one of them asleep or with a lost connection; a
  chain of two has a callback that asks on and one that replies. With one class of handlers
  per kind, both are busy while the loop serves the other.
* **FdfsServer**: two threads and one connection make one wait; two uploads and a delete let an
  id be deleted while the other upload fails twice.
* **Timers**: one timer suffices for the counterexample.

`CHECK_DEADLOCK FALSE` is set where the system really stops: a destroyed pool, a process that
has ended, and the end of all requests (in the run; the program waits for more): `store_all` stops after
`MaxRequests`, the clients after `MaxSent`.

### Fairness
* MsgQueue: weak fairness for steps inside a call (threads run) and strong fairness for taking
  a mutex (a mutex that is free again and again is finally given to each waiter; without it
  no statement about a blocking queue holds). A consumer calls get again (a worker does).
  No fairness for producers' calls, for set_nonblock or for spurious wakeups.
* ThreadPool: threads run and every task ends; nobody has to call anything.
* Scheduler: threads run, `schedule` returns, the loop runs, every RPC ends (gRPC reports one way or the other);
  no fairness for spurious wakeups, on which the wait must not rely.
* Connection: threads run, handlers get on (each lock they wait for is released again and
  again: strong fairness) and end unless an RPC of theirs fails, which nothing forbids; an accepted
  socket is registered. Nothing of the peers: a peer may send nothing and stay.
* FileStore: none; only safety is stated.
* DbServer, FdfsServer: every thread goes on, and gRPC delivers what it has. Nobody has to send,
  and clients may leave. A synchronous connection is always there, since the loop is its only
  user.
* Client: the server serves what it has, and the event loop takes the answers; a call that is
  stuck is given up in the end (`GiveUp`). The last is an assumption about browsers and proxies:
  the front end sets no timeout, and the server never closes such a connection, see
  finding 2. Users do what they like.
* Timers: the clock runs and the dispatcher looks at its heap.

## 4. Findings

Two runs show the program at odds with what its own comments say:

1. **A response may reach another client** (`conn_crossed`, `api_upload.cc:229`). A handler
   finds its connection by descriptor after its RPCs. If the connection has closed and the
   descriptor belongs to another one that awaits an answer, that one gets it. The handler
   holds a reference to the right connection all the time (`Api_dispatch.cc:132`).
2. **A timer is lost at the first look** (`timers_lost`, `EventDispatch.cc:80`). `_CheckTimer`
   pops a timer before it looks whether it is due and does not push it back. The program's one
   timer, the check for idle connections, is created with an interval of a second, and dropped
   at the next round of epoll: idle connections are never closed.

While modelling we noted behaviour that no property claims and no run depends on:

* `msgqueue_put_head` may spin for ever: it holds `put_mutex` and tries `get_mutex`, whose owner
  waits for `put_mutex` in the middle of a swap (`msgqueue.c:69`, `HeadTry`). Its only caller is
  `thrdpool_decrease`. `queue_live` checks that swaps complete without it (`SwapCompletes` in `Progress`), and
  `DestroyReturns` and `QueuedServed` except a pool that it has jammed.
* Two who let a socket go at a time may both find its count at 0 and delete it twice
  (`BaseSocket.cc:296`): the decrement and the test are two accesses. `RefExact` says that this is the only way.
* The scheduler asks `done()` of a coroutine that is not suspended (`RpcCoroutine.h:64`), which is
  undefined. A build that answers yes from the start of `final_suspend` may destroy the frame while the thread that runs
  it is still inside, if that is another thread than the one in `schedule`, whose Notify protects the frame; `FrameSafe`
  says that this is the only way. A build that answers no leaks the frame after 40 ms instead.
* An RPC that ends with an error never resumes its coroutine (`GrpcClient.h:108`, `RpcFails`,
  `RpcLost`): the catch blocks of the handlers are dead, and the request is never answered. `Answered` and
  `FrameReleased` except it. What the database server has begun for it goes on.
* A notification of the scheduler can fall between predicate and wait
  (`CoroutineCompeleteQueue.h:100`): the finished coroutine stays until the next one finishes.
* Deleting a saved copy of a shared file unshares the original (`api_delete_file_db.h:65`), and
  a save or instant upload between the count a delete reads and the DELETE it queues lists a
  file whose blob goes away (`api_delete_file_db.h:163`). Any two requests that read one count before either
  writes it lose one of the changes, and a Redis exception or a refused statement leaves the rest of its
  handler done or undone. `NumbersExact` and `ShareExact` except the numbers concerned (`upset`).
* Two logins of one user in progress together leave the first with a token that is replaced, and of two
  registrations of a name one is told 0 although the other has the row; `SessionKept` and
  `RegisterStands` except them. An INSERT that fails for another reason is answered 0 as well
  (`api_register_db.h:92`), with no row at all, and the INSERT of a registration whose RPC has failed may come after a
  second registration of the name has found it free.
* A user name with a ";" or a "%", which the form and the server take, is not what the cookie gives
  back: the page may show the files of one name with the token of another, go to and fro between two
  pages, or be blank. `PagePair` and `NoRedirectLoop` are claimed while names come back as written.
* A token's key in Redis is the user's name, and the cached counts have keys of their own in the same space
  (`user:file_count`); a user of such a name is not modelled.
* A login that Redis fails answers without a token; the page writes the word "undefined" into
  its cookie, and every list says that the login has expired. With that token, as with an
  expired one, the login page sends the visitor away from itself until he logs out.
* A statement carried out before its connection is lost is carried out twice (`AppliedOnce`
  counts once for each loss); a read that throws leaves the client of its RPC waiting
  (`Answered` excepts it); a call data whose client has left is never deleted.

## 5. Proofs

A theorem holds for every value of the constants that satisfies the named assumption of its
module; a run shows the same property on one small instance. Of the properties that passing runs check
all but liveness and FileStore's `NumbersExact` and `ShareExact` are theorems:

| module | theorem | property |
|---|---|---|
| MsgQueueProof | `MessageInOnePlace`, `SwapIsSafe`, `NoLostWakeup`, `PendingIsBounded` | `Consistent`, `SwapSafe`, `WakeupNotLost`, `PendingBound` |
| | `OneQueue` | `ImplementsTaskQueue` |
| ThreadPoolProof | `PoolConsistent`, `MemoryOutlivesUsers`, `NobodyLeftBehind` | `Consistent`, `NoUseAfterFree`, `NothingLeftBehind` |
| SchedulerProof | `SchedulerConsistent`, `FrameOutlivesHolders` | `Consistent`, `FrameSafe` |
| | `FinishedInOrder` | `ImplementsTaskQueue` |
| ConnectionProof | `ConnectionConsistent`, `ReferencesCounted` | `Consistent`, `RefExact` |
| FileStoreProof | `TypesKept`, `BlobsKept` | `TypeOK`, `RowHasBlob` |
| DbServerProof | `ServerConsistent`, `KeepsTheContract` | `Consistent`, `IsService` |
| FdfsServerProof | `OneTaskEach`, `NoConnectionLost`, `NoIdOfAFailedAttempt` | `Consistent`, `PoolExact`, `AnsweredIsStored` |
| | `KeepsTheContract` | `IsService` |
| ClientProof | `PairsBelongTogether`, `NoLoop`, `OnlyIssuedTokens` | `PagePair`, `NoRedirectLoop`, `AcceptedWasIssued` |
| | `RegistrationStands`, `UploadsWereAsked`, `ClientConsistent` | `RegisterStands`, `UploadAfterCheck`, `Consistent` |

Each module proves its properties from an inductive invariant, `IInv` (FileStoreProof from `TypeInv` and, on top of it, `BlobInv`): `Init => IInv`, every step preserves `IInv`, `IInv` implies the property. TLC checked
each invariant on a small instance before it was proved. None of the properties is inductive alone;
what `IInv` adds is the reason why they hold.

### MsgQueue
`QueueAssumption`: the null values are not values, MaxLen fits in `size_t`. `IInv` adds

* `LockInv`: a thread owns a mutex exactly at the statements between lock and unlock, which
  gives mutual exclusion of `Swapping`, `take` and `put_check`;
* `ArgInv`: a call to put still has its message, and get has brought one;
* `OpsInv`: only a thread that may call put_head is inside it, so that without such threads
  the get list never grows other than by a swap;
* `BoundInv`: in blocking mode, without put_head, **each** list has at most MaxLen messages.
  `PendingBound` speaks of the sum only, which a swap would not preserve.

The delicate case of `NoLostWakeup`: a producer signals after its unlock, so for a while a message is
there and a consumer waits; the invariant carries the pending signal, and `SignalWakesAll`
shows why one signal is enough: only the owner of get_mutex waits on get_cond.

`OneQueue` maps the two lists to `Pending`, one after the other, or the put list alone while a
swap has both heads on it. The lemmas on sequences say what a link at the tail, at the seam
(`InsertAtSeam`: put_head with an empty get list) and in front, and an unlink in front, do to the
concatenation. Locks, waits, wakeups and both halves of the swap leave `Pending` alone (`QuietStep`,
`SwapStep`: the list a swap leaves behind is empty); the link in put is `Put`, that of put_head
`PutHead`, the unlink in get is `Get`. `MessageInOnePlace` comes from there: each step of `TaskQueue`
leaves a message in the queue once or in one hand (`PlacesChange`), and so does the code's.

### ThreadPool
`PoolAssumption`: the null values are not values, there is a first thread. `IInv` adds

* `PcInv`, `TermInv`: one actor destroys the pool, and if it is a task, the owner has no more to
  do with it; `terminate` and `memory` say how far it is;
* `DetachInv`: the task that destroys the pool is its one detached thread, from `detach` to its end;
* `CountInv`, `ZeroInv`: `nthreads` is the number of threads that run, and zero when the
  destroyer has got past its wait;
* `JoinInv`: a thread that has exited is joined, or its id is in **one** place, the pool's `tid` or
  the joinee of a thread that exited after it; and no threads wait to join each other in a ring. From
  the last clause: when the destroyer has joined the last, no joiner is left;
* `FateInv`: a task is in the queue or with a thread until it is run or handed to the callback.

A jammed queue keeps all of this: who spins or is blocked stays where it is, counted as a running thread
(`StuckStep`), and a destroyer that holds `pool->mutex` keeps the others from their exit.

### Scheduler
`SchedulerAssumption`: the stub is no coroutine, null is no node. `IInv` adds

* `LineInv`: the nodes that have entered, those whose link is still missing included, form one line
  from the stub to the head, by the `prev` the exchange returned;
* `NextInv`: `Next` of a node is the inverse of `prev` where the link has been made;
* `PassInv`: the reader passes over linked nodes only and deletes behind itself, in the order
  of the line. So a producer that has exchanged and not linked yet holds a `prev` that
  is not deleted;
* `FrameInv`: a frame is given up only after its node has been passed;
* `HoldInv`: which holders a Notify has at which step of its coroutine, and that a destroyed frame had
  none left and was done. `FrameOutlivesHolders` follows for both kinds of `done()`: a coroutine that has
  awaited nothing is held by `schedule` until its thread has left, any other may be done early.

`FinishedInOrder` maps the nodes to a queue: `Queued` is the one order of the nodes that have entered and
have not been passed (`Unread`) in which each was exchanged in behind the one before. That there
is such an order, from the tail to the head, is `QueueInv`; that there is no other is `OneOrder`:
two orders would part at some first place, behind the same node. That place is
found with a well-founded order of intervals, without induction over the length. The exchange
is `Put`, so a node counts as queued before anybody can reach it; a `Dequeue` that finds one is
`Get` (the node behind the tail is the first of the order); giving a coroutine up is `Release`.
`Consistent` needs `QueueInv`, too: no node is twice in the order.

### Connection
`ConnAssumption`: there is a descriptor and a kind of request, handlers are finite in number. `IInv` adds

* `AcceptInv`: nobody has seen a connection that is still being accepted;
* `OpenInv`, `InterestInv`: a descriptor is open for one connection from its acceptance to the end of
  `Close_imp`, and epoll watches open descriptors of accepted connections;
* `StateInv`, `ThreadInv`, `HandlerInv`: who may refer to a connection in which state, in
  particular the thread of a closed one is closing it.

`RefExact` counts with `Cardinality`; the proof splits the holders into four sets (the threads closing it and
serving it, the handlers that run for it and those that found it by descriptor) and shows for each
step which of them gains or loses one. That a socket is deleted once, outside `raced`, is `RaceInv`: without a race
at most one of those who have let go still has to look when the count is 0, and nobody when the
socket is deleted. Steps either leave those alone (`RaceKeep`), add one (`RaceRelease`) or are the look of one.

### FileStore
`StoreAssumption`: the null values, the names of the counter rows, the files and the links are
different things. Nothing is assumed of the requests: any number of them, about the same rows, with refused
statements and Redis exceptions, and with the workers running the writes in any order.

* `TypeInv` adds to the types which statements there are (`Stmts`), each with the key of its table, and what
  a request at each of its steps knows of its user, file and blob. `TypesKept` is more than types: no reference count is
  ever written as 0 and no counter below, although each is written from a value that may be stale. The guards of the
  decrements and the one of `LastRef` are what that rests on (`StmtsTyped`).
* `BlobInv`: a file_id is in the row of one file, or with the one request that has stored it; a
  request about to delete a blob has handed over the `DELETE` of each row that names it (`Leaves`).

`BlobsKept` holds in every interleaving because a row never changes its file_id: a row that is deleted and inserted anew
has a new one, so a late delete of the blob cannot meet it. `Harmless` gathers the steps that neither touch blobs and
rows nor take a `DELETE` back. The two claims about numbers stay with TLC: an inductive form of them has to sum up, for each row,
what the writes that wait will come to in every order, while some of them are spoiled already.

### RpcServer, DbServer, FdfsServer
`RpcServerInv` defines the invariant of the frame, `FrameInv` (a request tag finds its call data as
armed, a finish tag one that has replied; until the handler is through, the loop's request is `taken`)
and `ArmedInv` (for every method one call data is armed, has its tag in the queue, or is in
the loop on its way to arming the next). Each of the two servers' proofs shows that its frame preserves
them, and for every step of the frame that it is a step of `RpcService` or none. A server shows that it replies to a request that is `taken` and no longer
in the queue (`FinishFrame`). For that

* FdfsServer's `TaskInv`: such a request is in the queue of tasks or with a thread, once; `PoolInv` and
  `FileInv` carry the pool and the ids through acquire, the attempts and release;
* DbServer's `ChainInv`: a chain belongs to a request past its handler; `FutureKept`: it waits for a
  statement in the queue or with a worker; `WorkerInv`: how often a statement at a given point of
  the worker has been carried out; `QuietInv`: there are no requests while the pool is opened or closed.

`RpcAssumption`, `DbAssumption` and `FdfsAssumption`: every request has a method, the pool has a
connection, the bounds are numbers.

### Client
`AccountsAssumption` and `ClientAssumption` say that the null values are not values, that large
files are files and that the bounds are numbers. The invariant has two halves besides the types:

* the server's: `CallInv` is what a call may rely on at each of its steps (a login about to
  write a token knows the row's password, a call past VerifyToken has a token that was issued);
  `GrantInv` says that nothing changes a row, so that the password a token was granted on is
  the row's for ever; `SessionInv` and `RegisterInv` add to the properties why they hold in
  the middle of a call: outside `crowded` a user has **one** login in progress, which finds the
  key empty when it is about to write, and outside `doubtful` a name has one registration;
  `TokenInv` that a token was made once and is one user's.
* the browser's: `CookieInv` and `TabInv` say that the cookies and the documents hold tokens
  which the server has answered, and with the names they were answered to as long as no name has been
  written that does not come back (`odd`); `WrittenOK` is the lemma on what a cookie may read like; `AskInv` says which call a form or an upload waits for. A
  document has **one** upload call (`OneUpload`): the answer "not there" that lets an upload
  go is the answer about the file the dialog shows now.

The halves meet in two lemmas. `BrowserEffect`: a step of the browser changes nothing of the
server but the calls it begins and ends and the histories of calls that overlap. `ServeEffect`: a step of the server changes nothing
of the browser, and of the calls one, whose request stays what it was. So each half is
preserved under the other's steps without looking at them (`IInvPreserved`).

### What proving changed in the models
* DbServer `Push` left the workers unconstrained in an instance without workers: the quantifier over
  workers took in the conjunct that keeps them. No run has such an instance; the prover has.
* Connection needs a descriptor, a kind of request and finitely many handlers; `ConnAssumption` now
  says so. A process has them.
* `FreeMsgs` of MsgQueue could be read in two ways (`UNION A \cup B`), and was by TLC and by the
  prover. It is now a set comprehension.

* FileStore keeps the number of a user's pictures and that of all shared files in rows keyed by a string,
  the user's name with a suffix or a constant, in the table of the users' own counts
  (`user_file_count`). `StoreAssumption` has to say that no user has such a name. The server takes
  any name (`api_register.cc:66`), so this is an assumption about the users, not something the store ensures.

* Scheduler's `Queued` was defined by recursion back from the head, bounded by the number of
  coroutines; it is now the one order described above, which needs no bound.

### What is only model-checked
* All liveness (`Delivered`, `Progress`, `DestroyReturns`, `QueuedServed`, `FrameReleased`,
  `Answered`, `CloseEnds`, `AllAnswered`, `LoadingEnds`): out of the prover's reach.
* `NumbersExact` and `ShareExact` of FileStore.
* Nothing of Timers, whose one run is a counterexample.

## 6. Plan

Done: TaskQueue, MsgQueue, ThreadPool, Scheduler, FileStore, Connection, Accounts and Client,
RpcServer with DbServer and FdfsServer, Timers; proofs for all but Timers. What could follow, most important first:

1. FileStore: proofs of the two claims about numbers.
2. Connection: the server's shutdown, which closes connections with `m_lock` held; partial sends, and the -1 of
   a failed one, which is added to the bytes sent (`HttpConn.cc:55`); a request dispatched twice.
3. EventDispatch: a StopDispatch before StartDispatch has set `running`
   (`EventDispatch.cc:146`), and the heap that is pushed to under a lock which its reader
   does not take (`EventDispatch.cc:49`).
4. Pure algorithms: longest-prefix routing and the chained buffer against definitions.

One run per component answers its safety and liveness questions together, so that the number of
runs stays at a dozen.

## 7. Not modelled

Listed per component in `PROJECT.json` with the reason. In short: components of the plan not
reached yet; the pages of the front end for sharing, ranking and paging; answers to two requests
for the table that overtake each other (the later one may show the older page); the Redis cache of
the file count, which is never invalidated (`api_myfiles.cc:76`); the destructors of the servers
and of the FastDFS pool, which a running server does not reach; character-level parsing; configuration; code the program does not use; generated
and vendored code; the inside of MySQL, Redis, FastDFS, gRPC, epoll and pthreads, which appear
as the guarantees the code relies on.
