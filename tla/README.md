# A TLA+ model of Pasir

Pasir is an HTTP server that runs PHP inside its own process: hyper and tokio on
one side, PHP's embed library behind a custom SAPI on the other. This directory
holds a model of it in TLA+, the TLC configurations that check the model on small
instances, and proofs, checked by TLAPS, that its main safety properties hold for
every value of the parameters. All paths below are relative to the repository;
`PROJECT.json` names, for every definition that models code, the lines it models.

Contents: [inventory](#1-inventory) · [modules](#2-modules-and-code) ·
[runs](#3-runs) · [bounds](#4-bounds) · [fairness](#5-fairness) ·
[proofs](#6-proofs) · [what the model assumes](#7-what-the-model-takes-as-given) ·
[findings](#8-where-the-code-and-its-documentation-disagree) ·
[left out](#9-what-is-not-modelled) · [plan](#10-plan)

## 1. Inventory

    client -- hyper connection (tokio task) -- RouterService -- PhpService ----.
                    |                             |  (future)                  | spawn_blocking
              accept loop, drain              ServeDir                         v
              (cli/serve.rs)                                   execute_php on a blocking thread
                    |                                             |  callbacks of the SAPI
         startup and shutdown of PHP                              v
         (cli/mod.rs, main.rs)                   Context: head, body, error channels -> future

| Component | State it keeps | Operations | Hard about it | Correct when |
|---|---|---|---|---|
| Response body, `src/unbound_channel.rs` | mpsc queue, oneshot, a waker in each | `send`, `abort`, drop; `poll_frame` | `poll_frame` polls two things one after the other while PHP writes; `abort` and drop close the two halves in opposite orders | frames arrive once and in order, the end comes after the last frame, no wake-up is missed |
| PHP service, `src/service/php.rs` | the future of one request; receivers of head, error and body | collect the request body, spawn, `select!`, answer in full or chunked | `select!` polls at random; the future may be dropped at any await | every request is answered, with the script's whole output or with an error that has a cause |
| SAPI callbacks and `Context`, `src/sapi/` | senders of head and body, headers, `request_finished`, path info, script name | `ub_write`, `flush`, `send_header`, `finish_request`, `read_post`, `parse_uri`, `register_server_variables` | PHP calls them in any order, again from shutdown functions and from `deactivate`; an abort leaves them by `longjmp` | the head carries the headers, the body is given up before the head of a full response |
| Request execution, `crates/pasir_sapi/src/{context,lib,util}.rs` | `SG(server_context)`, guards of the SAPI globals | `execute_php`, `deactivate`, `handle_abort_connection` | the Context changes owner through raw pointers; destructors are skipped by `longjmp` | the Context is valid while PHP may use it and dropped once |
| Request info strings, `crates/pasir_sapi/src/ext.rs` | C strings lent to `SG(request_info)` | `populate_from_request_info`, `free`, the end of `execute_php` | freed at two places, and two of them by PHP as well; pointers stay behind; threads are used again | each string is of the request that reads it and is freed once |
| Router and routes, `src/service/router.rs`, `src/config/route.rs` | the route table, shared by all connections | `find`, `serve`, `matches_response`, `apply_actions` | actions change what later routes match; a match unwraps `to_str()` | a served response has the actions of its route alone; the order of the table decides the others |
| Server loop, `src/cli/serve.rs` | listener, signal streams, watched connections | accept, spawn, `select!`, drain | clients may connect before SIGTERM is handled; signals arrive during the accept handler; drain races with its timer | signals stop the loop, the drain cuts nothing unless it says so |
| Route file, `src/config/route.rs` | none | `from_file`, `deserialize_*` | lists of header maps pass through two hash maps, keyed by spelling and by name | the table is the file: all routes, in order and in all their parts, the last value of a spelling |
| Process, `src/cli/mod.rs`, `src/main.rs` | what of PHP is up; phase; the error to return | arguments, TSRM, SAPI and module startup, the command, both shutdowns, exit | every `bail!`, `?`, panic and signal leaves something behind; blocking threads outlive the loop | PHP's layers stand on each other; the exit status tells what was done; no PHP after its shutdown |
| Info and module commands, `src/cli/info.rs`, `src/cli/module.rs` | a PHP request, and for `-i` a Context | request startup, print, request shutdown | stdout may be closed | the request is closed before the module |
| Status conversion, `src/sapi/ext.rs`, `src/util/response_ext.rs` | `SG(sapi_headers)` of the thread | int to `StatusCode` when the head is sent | a thread serves many requests; zero, and ints that are no status | the status is what this script had set, or 200 |
| Build scripts, `build/`, `crates/pasir_build`, `crates/*/build.rs` | the cfg flags of the program | find PHP, read its phpinfo, set the flags | half-open ranges of API numbers | the program starts PHP as its version wants it |

How the parts interact. The tokio task of a connection owns the service future.
The future gives a closure to `spawn_blocking`, and the two then share three
channels only: the oneshot of the head, the oneshot of the error, and the body.
The future may be dropped at any await (client gone, `TimeoutLayer`); the
closure cannot be stopped. PHP calls back into the `Context` through
`SG(server_context)` until `deactivate` boxes and drops it. The accept loop knows a
connection only through `graceful.watch`, and knows nothing of blocking threads.
The route table is shared and read-only.

## 2. Modules and code

| Module | Models | Its state against the code |
|---|---|---|
| `BodyStream` | nothing in particular: what a response body promises | abstract: written, received, closed, open/ended/abandoned |
| `UnboundChannel` | `src/unbound_channel.rs` | `sender` is the `Sender` and where it is inside `abort()` or drop, `queue` the mpsc queue, `rx` the place of the reader in `poll_frame`, `frameWaker`/`finishWaker` the registered wakers, `woken` the state of the task |
| `PhpRequest` | `src/service/php.rs`, the callbacks of `src/sapi/`, `execute_php` and `deactivate`, for one request | `svc`, `answer`: the future and the response; `php`, `fin`: the thread and its place in `finish_request`; `ctx`: the owner of the Context; `head`, `err` and an instance of `UnboundChannel`: the three channels; `guardLeaked`: a guard of `SapiGlobals` skipped by a `longjmp` |
| `Exchange` | nothing in particular: what `PhpService` promises to a client | abstract: `at`, `answer`, `seen` of the client; `script`, `written`, `closed` of the script |
| `GracefulStop` | nothing in particular: what a server promises to those who connect to it | abstract: `door`; each `guest`; `clean`: the server says that it stopped cleanly |
| `PhpThread` | `parse_uri`, `init_request_info`, `populate`, `read_post`, `read_cookies`, `free`, the status of `send_head` and the end of `execute_php`, over the requests of one thread | `uri`, `pathInfo`, `script`: `parse_uri`, one recursive call a step; `info`: whose string a field of `SG(request_info)` points to; `live`: strings allocated and not freed; `misfreed`: those freed when they were not live; `body`, `readBytes`, `postRead`: the request body; `code`: `SG(sapi_headers).http_response_code`; `head`: the status sent |
| `Server` | `src/cli/serve.rs` from the bound listener on, the shutdown in `src/cli/mod.rs`, `process::exit` in `src/main.rs` | `phase`: `listening` until SIGTERM has its stream, then `serving`; `loop`, `accepting`: the `select!` and whether its accept branch is enabled; `armed`: `ctrl_c()` was polled once; `sigint` belongs to one turn of the loop, `sigterm` to the whole of it; `conn`, `watched`, `detached` |
| `Build` | `crates/pasir_build`, `build/mod.rs`, `crates/pasir_sapi/build.rs` | no state: the cfg flags of a build, as a function of what is on the machine |
| `RouteFile` | `Routes::from_file` and the `deserialize_*` functions of `src/config/route.rs` | no state: the tables a text may become (a relation, for the order of a `HashMap` is free) |
| `Process` | `src/main.rs`, `src/cli/mod.rs`, `src/cli/info.rs`, `src/cli/module.rs`, the start of `serve()`; extends `Server`, `Build`, `RouteFile` | `php`: the PHP of the build; `stage`, `mode`: where `main` stands; `up`: layers and resources of PHP that are up; `functions`; `file`, `table`; `failed`: the error `execute()` returns; `status`: how the process ended |
| `Router` | `RouterService::call`, `src/config/route.rs` | `routes`; `served`, `handler`, `reply`, `response`; `next` is the loop index of `apply_actions` |
| `MC<X>` | - | gives TLC the sets for module X |
| `<X>Proofs` | - | lemmas and theorems about module X |
| `Extremes` | - | lemmas on least and greatest elements that two proof modules use |

`PhpRequest` composes: it instantiates `UnboundChannel` as `Body` and both its
processes use the body through `Body`'s actions only (`UsesBody`, proved).
So what is proved of the channel holds of the body of every request. The channel is
used in two ways, and the constant `Streaming` tells them apart. `UnboundChannel`
with `Streaming = FALSE` assumes that the body is polled only when its writer is
gone; `GatherAfterFinish` of `PhpRequest` is that assumption, discharged.

Seen from its client a request is an `Exchange`: `PhpRequest` maps its places and channels to
the variables of `Exchange` (`At`, `Seen`, `Script`) and every step of future, thread and body to
a step of it or a stutter (`ImplementsExchange`, checked and proved).

`Process` composes `Server`, `Build` and `RouteFile`: a process is built against some PHP, reads
its arguments, brings PHP up layer by layer, runs one of three commands, and takes PHP down.
While its stage is `serve` its steps are the steps of `Server`, with `cli` unchanged
(`ProcessIsServer`), and the two shutdown steps are shared. The safety theorems of `Server`
hold of the process by that theorem; the runs check the properties of `Server` on `Process`.

`PhpRequest` and `PhpThread` divide a blocking thread between them: the first has
everything that races with the future, for one request; the second has what is
sequential and carries over from one request to the next.

`Server` abstracts a request to its connection being busy and its thread outliving the response.
`PhpRequest` maps its future to that connection and its thread to that counter (`Connection`,
`Detached`), and each of its steps is then an `Answer`, `AnswerEarly`, `ClientLeavesBusy` or
`ThreadReturns` of `Server`, or nothing to it, in every phase in which connections live
(`FitsServer`, checked and proved). The mapping has found the one way of leaving that `Server` had left out: a
client that goes while the body of its request is still read leaves no thread behind.

Seen by those who connect, a `Server` is a `GracefulStop` (`ImplementsGracefulStop`, checked on `Process`
and proved of both): the accept loop is its open door, the drain its closing one, a connection in
the backlog or in the accept handler a guest that waits.

Granularity. A step is what no other process can split. `poll_frame` is two steps,
one per poll; `abort()` and the drop of a `Sender` are two each, in their different
orders; `finish_request` is three (flush the output, abort the body, send the
head) with the callbacks PHP makes in between, and any of them may end in a `longjmp`; `php_request_startup` is two, with
output, flushes and a `longjmp` possible in between; dropping a future is one. `parse_uri`
is one step per recursive call, so its invariant speaks of all the paths it has passed
over; nothing runs beside it.

Definitions with a comment that begins `Mutant` are plausible bugs (a dropped guard,
a swapped order, a missing wake-up). No specification uses them: they are put in
the place of the definition they follow to see that a property would notice.

## 3. Runs

| Run | Properties | What it shows | States |
|---|---|---|---|
| `channel_full` | `TypeOK`, `NoTruncation`, `ImplementsBodyStream` | a body collected after its writer is gone is complete when it ends, and implements `BodyStream` with its liveness | 218 |
| `channel_chunked` | `Fifo`, `NoLostWakeup`, `BodyEnds`, `ChunkDelivered` | a body polled while PHP writes keeps its order, wakes its reader and ends | 1 644 |
| `request` | `TypeOK`, `FullBodyComplete`, `GatherAfterFinish`, `HeadersWithBody`, `AbortOnlyIfGone`, `ErrorHasCause`, `ContextOwnership`, `NobodyWaitsInVain`, `FitsServer`, `ImplementsExchange`, `Answered`, `ThreadReturns` | every interleaving of a future and its thread: flushes, early finish, clients leaving, timeouts, failures of a startup that may have printed, `longjmp`s of an abort and of a fatal error with the client still there; it implements `Exchange` and is what `Server` takes it for | 9 923 |
| `server` | `ProcessTypeOK`, `LayersInOrder`, `ExitStatus`, `SigtermSparesClients`, `TableIsFile`, `ImplementsGracefulStop`, `SigtermStops`, `Accepted`, `Exits` | the process from arguments to exit status, for nine machines and ten configuration files, with two connections from the bound listener through accept, both signals, drain and exit; it implements `GracefulStop` | 67 494 |
| `router` | `TypeOK`, `ServedDirectly`, `LastRouteDecides`, `AppendKeepsReply`, `PanicHasCause` | every table of up to three of nine routes, one request after another | 25 574 |
| `thread` | `TypeOK`, `OwnStrings`, `OnlyAuthFreedTwice`, `PostIsComplete`, `MostSpecific`, `PathIsKept`, `OwnStatus` | two requests on one thread, for every path of up to three segments, `.` and `..` included | 114 418 |
| `channel_truncates`, `deactivate_hangs`, `context_leaks`, `sigint_lost`, `php_after_shutdown`, `router_uri` | one each | a statement of the repository that the program does not keep (section 8) | - |

`CHECK_DEADLOCK FALSE` stands in the configurations of systems that really stop: a
response that was sent and a thread that has returned, a process that has exited. The
router and the thread go on for ever and are checked for deadlock.

## 4. Bounds

Everything unbounded has a named bound in a guard: `MaxFrames`, `MaxDetached`,
`MaxRequests`, `MaxBuf`, `MaxRoutes`.

- *Channel:* three frames of two payloads, so that there is a first, a middle and a
  last frame and a swap or a repetition shows. Two frames are enough for
  `channel_truncates`.
- *Request:* two writes of one payload, one before and one after any other event;
  their order is the channel's business.
- *Server:* two connections, so that one waits while another is handled, is busy or
  closes; two detached threads.
- *Process:* PHPs on both sides of each test of the build (before 8.2, 8.2, 8.3, 8.5, after 8.5,
  no number, no timers line; `PHP` naming a missing file and a program that fails), so that some
  builds succeed on each side of `cfg(php83)` and some leave no program; configuration files that
  are missing, malformed, good, with a name in two spellings and one of them twice, with a bad
  value that a later entry replaces, in `insert`, `append` and `need`, and with one bad value, name,
  expression or status.
  The counterexamples `sigint_lost` and `php_after_shutdown` need one machine, one file, one
  connection.
- *Router:* two paths, two header names, two values, two statuses and three replies, one with a value that `to_str()` refuses; nine
  routes, each with a kind of match or action of its own, in every table of up to
  three, so that each can come before, after and between the others.
- *Thread:* two requests, the fewest that can show a string of one in another; paths
  of up to three segments over five names, `.`, `..` and the empty segment, in a tree with a
  directory with an index and a script, one with neither, and an asset; bodies up to
  three bytes and buffers up to four, so that a buffer is smaller than, equal to
  and larger than what is left; status codes that are none (0), legal, and out of range.

The safety theorems of section 6 hold without these bounds.

## 5. Fairness

Weak fairness is assumed of what the program's own scheduling guarantees, and of
nothing else:

- a task that was woken is polled, and a poll that has begun ends; a parked task that
  was *not* woken is never polled by fairness, so a lost wake-up would show as a hang;
- a call the blocking thread has begun runs on: `abort`, drop, `finish_request`,
  `deactivate`, the epilogue. `DeactivateEnd` is disabled while a leaked guard
  blocks the write lock, and fairness does not help it;
- a queued blocking task gets a thread (tokio's pool), and a script ends (PHP's
  `max_execution_time`, which also sets the timeout layer);
- in `Process`, `main` runs on: `Boot` (startup and the two printing commands) and both shutdowns;
- `php_request_startup` returns, and so does `php_request_shutdown`, which takes each of its steps once even if
  PHP code in them calls `pasir_finish_request` and a fatal error cuts it short (strong fairness of `EndShutdown`);
- in `Server`, the stream of SIGTERM is made after the bind; a `select!` that waits has polled every branch, `ctrl_c()` too; the accept
  handler runs on, the drain's timer fires, idle connections told to shut down close, the process
  goes on to its exit;
- otherwise strong fairness only for the branches of the accept loop's `select!`: `tokio::select!`
  polls its branches in random order, so a branch that is ready again and again is
  taken in the end.

No fairness is assumed of clients (arriving, sending a request body, leaving),
of timeouts of requests, of accept errors, of writes and flushes of a script, nor, in
`Server`, of PHP ending.

## 6. Proofs

Eight modules hold theorems; `tlapm` proves every obligation of them (UnboundChannel
279, PhpRequest 670, Exchange 53, Server 294, Router 502, PhpThread 1 424, Process 716, Extremes 38). The 50 theorems of
interest are listed in `PROJECT.json`. They assume only the named `ASSUME`s of the
modules: bounds are naturals, tables are sequences of routes, requests have a method, a
uri and a script, `LengthAssumption`, that hyper ends a body at its Content-Length, and
`ProcessAssumption`, that a configuration file is unreadable, malformed or a sequence of routes
whose header maps are a sequence. Nothing bounds data, connections, routes, paths, requests,
machines or files.

*Channel.* `Fifo` is inductive with the type invariant. `NoLostWakeup` is not: a
parked reader may find a frame only if some waker was still there to be taken.
`WakerInv` says it: unless the task is already woken, a reader past its first poll
has its waker in the queue or the queue is closed, and a parked one has its waker in
the oneshot too. For collected bodies `Collected` says that a reader past the first
poll has an empty queue and no writer; with `Fifo` it gives `NoTruncation`, and every
step of the channel is a step of `BodyStream` or a stutter (`CollectedIsBodyStream`).

*Request.* First every step is shown to be a channel step or to leave the channel alone
(`RequestUsesBody`); type correctness and `Fifo` of the body then come from the
channel's theorems, by instantiation. The inductive invariant has three parts:
`ServiceInv` ties the place of the future to the head, the body and the answer;
`ThreadInv` ties the phase of the thread to the owner of the context; `HeadInv` is the
heart: a finished request has a closed body, and a *full* head implies that
the sender is gone. `GatherAfterFinish` and `FullBodyComplete` follow: the future
gathers only on a full head, and with no writer left an empty queue means all has
been received. `ErrorHasCause` shows the `else` arm of the `select!` to be dead code: a
freed context has always disposed of its head.

`NobodyWaitsInVain` is the safety half of `Answered`: when the thread has returned, or hangs in `deactivate`,
the future has something to select or a body whose end it was woken for. A `longjmp` out of `finish_request`
leaks the guard whether the client has left (an abort) or not (a fatal error or the time limit in an output
callback); in the second case `deactivate` finishes the request before it waits, so the client is answered
and only the thread is lost. One client is not served: `Stranded`, a stream that a failed startup has
begun. The property is not inductive either:
`EveryWaitHasAnEnd` takes the wake-ups from `NoLostWakeup` of the channel, by instantiation, and needs
`LeavesNothing`: a thread that has returned, unless its startup failed, has given up its body and
disposed of its head. A step of the request fits `Server` (`RequestFitsServer`) because it leaves the
exchange open, ends it or comes after its end (`StepOfExchange`), and in each case the thread makes one
move at most.

*Exchange.* `RequestIsExchange` shows each step of the request to be a step of `Exchange` or a
stutter. Beyond the invariant above it needs `Outcome`: a script that has not started, or whose
startup failed, has sent nothing; a thread in its epilogue has finished its output; a future that
still selects has received none of it, and one that is over reads no more.
What an `Exchange` promises is proved of `Exchange` alone (`ExchangeProofs`): what was received is a beginning
of what was written, all of it in a full answer, nothing in an error; an answer is given once. By the
refinement both hold of every request (`ClientsGetTheOutput`, `ClientsAreAnsweredOnce`).

*Server.* The invariant adds that at most one connection is in the accept handler,
that every open connection is watched, and when `serve()` has a result.
While the phase is `listening` nobody has been accepted (`LoopNotEntered`).
`DrainCutsNothing` is then immediate, for any number of connections. For the refinement
(`ServerStopsGracefully`) it also says that a connection waits in the backlog only while the listener lives
(`BacklogOfListener`): a guest may be turned away only where `GracefulStop` closes. The promises are proved
of `GracefulStop`: that a clean stop has cut nobody off is inductive only with `DoorDecides`,
which says who may stand at which door. `CleanStopIsClean` and `NobodyIsAdmittedLate` bring them back to the server.

*Process.* `ProcessIsServer` carries over what is proved of `Server`. `UpInv` says for each stage which
layers are up and `StageInv` relates stage, phase, error and status; together with `LayersInOrder`,
`ExitStatus` and `SigtermSparesClients` they are inductive (`ProcessInvariant`). `FlagsTellTheVersion` says of `Build` that it succeeds only for the API numbers of 8.2 to 8.5 and sets exactly the
flags of the versions that are not newer; `LayersInOrder` rests on it. `EveryVersionBuilds` is the other
half: no gap between the ranges. `TableIsFile` says of every part of every route which entry of the file it comes from; in a list of maps
that is an entry with the greatest index that has its spelling, which exists by `GreatestBelow` of `Extremes`.
`SigtermSparesClients` needs that a process killed by SIGTERM had its loop still before it (`NobodyToCut`).
`FileIsReadOneWay` says when the order of the hash maps cannot matter: no list has two spellings of one name.

*Router.* The properties are about a loop, so the invariant (`LoopInv`) states each of
them for the turns done so far, and the properties are the case where the loop is over. `LastRouteDecides` covers every way a
route may speak of a header: what it removes or inserts is `Left`, unless a later route does not spare it.
`find` returns the least index that may serve: its existence is derived from the
well-foundedness of the naturals. `PanicHasCause` needs to know where each value of a header comes from:
the handler, or a route whose turn is over (`SourceStep`).

*Thread.* The invariant says, phase by phase, which strings are live and what
`SG(request_info)` points to (`Strings`); that what has been read and what is left are
two parts of one body (`Reading`); and that no longer part of the path names a
script (`Parsing`). The last segment of a path that is not empty, or not a dot either, exists by a
greatest-element lemma (`UpToEnd`); `Endings` compares the two, which is what decides between a parent and a dead end. `Answering` ties the status sent to the status set. `Keeping` says how a path
is split: what is parsed, then what was passed over, so that only empty segments are lost as long as there
is a script. `PathIsKept`
states it by the indices of segments, not with `SelectSeq`, whose value for every sequence would
need induction over data.

Every invariant that a passing run checks is proved, and so are `FitsServer`,
`ImplementsExchange` and `ImplementsGracefulStop`. *Only model-checked:* all liveness (fairness and `ENABLED` are beyond the
prover): `BodyEnds`, `ChunkDelivered`, `Answered`, `ThreadReturns`, `SigtermStops`, `Accepted`, `Exits`,
and the liveness half of `ImplementsBodyStream`.

## 7. What the model takes as given

External code is modelled from how `src/` uses it:

- tokio: `mpsc` and `oneshot` are linearizable; a `send` on a channel whose receiver is
  dropped fails; dropping a future is atomic for other processes; `ctrl_c()` hears only
  what arrives while it exists, and a `SIGTERM` stream remembers.
- ext-php-rs: `SapiGlobals::get()` and `get_mut()` are guards of a read-write lock of the
  thread; `PhpThreadGuard` gives a thread new globals (`ts_resource`, `ts_free_thread`).
- PHP: `sapi_deactivate` releases `auth_user` and `auth_password`, and leaves the pointers, before it calls
  the SAPI. `php_handle_aborted_connection` disables output and `longjmp`s to the innermost
  `zend_try` unless `ignore_user_abort` is on, so each of its callers either goes on or is
  left where it stands. `php_execute_script` catches what the script does, so whether
  `try_catch_first` sees an error is a free choice. The steps of
  `php_request_shutdown` each have a `zend_try` of their own; headers are sent and output
  is deactivated before `sapi_deactivate`. An output callback runs inside `php_output_end_all`, and a fatal
  error or the time limit leaves it by a `longjmp`. `sapi_read_post_block` stops at a short block.
  Between two callbacks PHP may do anything.
- signals: SIGINT and SIGTERM end a process that has not installed a handler. `ctrl_c()` installs its
  own when it is polled first, `tokio::signal::unix::signal` when it is called; a handler stays.
- clap: what it refuses ends the process with status 2; a panic in `main` ends it with 101, a panic in a
  callback that cannot unwind aborts it.
- serde and toml: a file is malformed or has the fields of the `Deserialize` structs. A `HashMap` is
  iterated in any order.
- hyper: a body ends at its Content-Length. hyper-util: dropping `GracefulShutdown` signals the
  connections too; an HTTP/2 connection is busy while it has at least one request.

Simplifications: the second call of `handle_abort_connection` in `deactivate`
(`crates/pasir_sapi/src/lib.rs:49`) is one with the call in `finish_request`; a panic of the
closure is left out; paths begin with `/` (the path of `OPTIONS *` does not, and is one more dead end of `parse_uri`); files do not
change during `parse_uri`. A string that is freed twice is recorded and the thread goes on, though nothing
says what the allocators make of it. hyper may pass on a Content-Length that came before `Transfer-Encoding:
chunked`, which it does not hold the body to: such requests are outside `LengthAssumption`.

## 8. Where the code and its documentation disagree

Each is the counterexample of one run; the full text is under `findings` in
`PROJECT.json`.

| Run | The repository says | The program does |
|---|---|---|
| `channel_truncates` | all that was sent before the drop is received (`src/unbound_channel.rs:94`) | a chunked body may end with a frame still queued: frame and end arrive between the two polls of `poll_frame` |
| `deactivate_hangs` | `deactivate()` returns (`crates/pasir_sapi/src/lib.rs:265`) | it waits for ever for a guard that a `longjmp` out of `pasir_finish_request` left behind, when the client has gone or an output callback fails |
| `context_leaks` | the raw pointer must be taken back (`crates/pasir_sapi/src/context.rs:33-35`) | a failed startup and a `longjmp` out of `deactivate` lose it; a stream begun by the startup then never ends |
| `sigint_lost` | SIGINT shuts the server down (`README.md:27`) | a SIGINT that comes with a connection goes with the `ctrl_c()` of that turn |
| `php_after_shutdown` | no PHP call after shutdown (`crates/pasir_sapi/src/lib.rs:159-160`) | blocking threads still run while the module is shut down |
| `router_uri` | `match.uri` restricts a route (`README.md:199`) | without `serve`, it is never read |

The neighbouring positive properties say what does hold: `FullBodyComplete` for full
responses, `Fifo` and `BodyEnds` for chunked ones, `ThreadReturns` unless a guard leaked,
`ContextOwnership`'s two ways of losing a context, `NobodyWaitsInVain` for the clients of both, `SigtermStops` for the other signal,
`DrainCutsNothing`.

## 9. What is not modelled

- The syntax of TOML and of the command line, `--help` and `--version`: serde's and clap's. The INI entries
  of `-d`, which go to the SAPI module unchanged between `sapi_startup` and the module's startup.
- `ExecutePhpError::InitSapiGlobalsError` and its answer 400: `execute_php` never returns it.
- The `$_SERVER` variables that do not come from the path, log messages, header layers
  (request ids, tracing, `Server`): copied or added without a decision.
- What `-i` and `-m` print: PHP's tables. A flush that fails when the `BufWriter` of `-m` is dropped is
  silent, and the exit status is 0.
- `build/build_static.rs` and `crates/pasir_sys/build.rs`: they call spc and bindgen. The flag
  `php_zend_max_execution_timers` is read by the model's build, but whether the program has its
  timeout layer is left open: a timeout may happen at any time.
- Regular expressions and `ServeDir`: a regular expression is the set of what it matches, a static
  answer any reply.

Seen while reading, and without a run of their own:

- the example of `README.md` gives `match.uri` arrays, and `deserialize_uri` takes one string: the
  file is refused, and the server does not start (`ReadRoutes` with a malformed file);
- a file without any `[[routes]]`, an empty one too, is refused, while a missing file is not;
- `src/sapi/ext.rs:81-85` asserts that every code below 100 is an error; 0, which its range
  contains, gives the default status (`src/sapi/ext.rs:15`, and the test at line 65);
- `auth_user` and `auth_password` of a request with Basic authorization are freed by PHP's deactivation and
  again at `crates/pasir_sapi/src/ext.rs:55-56`; `OnlyAuthFreedTwice` says that no other string is;
- a `.` at the end of a part that names nothing ends `parse_uri` without a script and with the path info gone
  (`src/sapi/context.rs:101-104`), where `..` keeps it;
- a match on a header whose value has bytes outside visible ASCII, which `HeaderValue::from_str` and a PHP
  script may give it, panics the task of the connection (`src/config/route.rs:119`);
- `README.md:22`, `:38` and `:85` promise PHP 8.1+, while `api_version.rs` accepts the API numbers of 8.2 to
  8.5 only (`FlagsTellTheVersion`);
- the exit status is 0 also after a drain that was cut by its timer;
- `build/mod.rs:22`, under the feature `static`, calls `find_executable` without importing it.

Hazards without a property are listed in `PROJECT.json` with the reason.

## 10. Plan

Done, in order of importance: the channel and its abstract specification, the request that
composes it, its refinement of `Exchange`, the server and its refinement of `GracefulStop`, the request
as the server has it, the router, the thread with its statuses, the
process around the server with the build and the route file; a proof module for each.

What would add most, next:

1. Several requests over one `Server` and the pool of blocking threads: `PhpThread` and `PhpRequest`
   together, so that a guard leaked by one request is met by the next on its thread. The product of the
   two state spaces needs a coarser `PhpRequest`, for which `Exchange` is the candidate.
2. Liveness in `Exchange` (an answer, a free thread), so that `Answered` and `ThreadReturns` become part of
   the refinement.
3. The `$_SERVER` variables that come from connection and headers, should a property relate them.

New runs are to replace or merge with the present ones: one run answers one question.
