# A TLA+ model of cFWK

cFWK is a framework in C: containers, an asynchronous queue, a thread pool, a
logger, a small request protocol (STP) over TCP with announcements over UDP, a
websocket server, a module loader, a factory with a pipeline of elements, readers
and writers of JSON and of ini files, and a unit test framework. This directory
holds TLA+ modules of most of these parts, the TLC configurations that check them
on small instances and the TLAPS proofs about the concurrent core, the protocol,
the containers below them and the services around them. Paths below are relative to the root of the
repository; `file.c:12` is line 12.

## 1. The parts of the system

| part | state | operations | talks to | modelled by |
|---|---|---|---|---|
| asynchronous queue, `cf_async_queue/` | list of pointers, limit, timeout, one mutex, one condition variable | create, delete, set_max_size, set_timeout, push, try_push, pop, try_pop, length | list, logger (from a timed-out pop) | `AsyncQueue`, `PopDeadline` |
| thread pool, `cf_threadpool/` | static pointer to the global pool; per worker a mutex, `m_data`, a queue | cf_threadpool_run; the loop of a worker | one asynchronous queue per worker | `ThreadPool` |
| list and iterator, `cf_collection/cf_list.c` | doubly linked nodes, head sentinel, tail, length | push, take_front, clear, iterate, remove at iterator | used by nearly everything | `CfList` |
| hash, `cf_collection/cf_hash.c` | buckets, each free, with one item, or with a list of items | insert, get, delete | list; used by the factory | `CfHash` |
| vector, string | buffer with length and capacity | resize, append | STP, test framework | - |
| allocator | a global byte count | alloc, clone, realloc, free | everything | - |
| logger, `cf_logger/` | root logger, list of outputs, mutex, level | log, add_out, remove_out, set_level | list, io streams | `Logger` |
| io streams, `cf_iostream/` | descriptor or FILE | writeln, close, connect with timeout | logger | `Logger` |
| modules, `cf_module/` | list of registered modules, `is_load` | register, add_dep, setup, clear | list | `ModuleLoader` |
| factory and pipeline, `cf_factory/` | classes, elements, source pads | create, link, start, push | list, hash | `Pipeline` |
| STP, `cf_stp/` | clients with an upload in progress, topic handlers, announcement | select loop, request, upload, announce | list, hash, vector, JSON | `Stp`, `Announcer` |
| socket server, `cf_net/` | list of clients, callbacks | select loop, accept, read, disconnect | websocket server | `WebSocket` |
| websocket server, `cf_websocket/` | per client a state and a receive buffer | handshake, frame reassembly, write | socket server, HTTP parser | `WebSocket` |
| HTTP parser, `cf_http/` | none across calls | parse a request | websocket | `WebSocket` |
| JSON, `cf_json/` | trees of items; a parse or a print buffer | parse, print, create, add, insert, detach, replace, duplicate | STP | `CJson`, `JsonParser`, `JsonPrinter`, `JsonString` |
| ini files, `cf_iniparser/` | dictionary; the line that is being put together | load, get, set, unset, dump | - | `Dictionary`, `IniParser` |
| test framework, `cf_test/` | nested suites with counts | add, run, assert (long jump) | the test cases | `TestSuite` |
| digests and utilities, `cf_util/` | none | SHA-1, base64 | websocket | - |
| `IPC_MVR_Manager/` | Windows user interface | speaks STP | STP server | - |

What is hard in them, each at its line, is listed under `hazards` in
PROJECT.json. The kinds that matter most here:

* **Signals that wake the wrong thread.** The queue has one condition variable for
  the pops that wait for an item and the pushes that wait for room, and signals it
  (never broadcasts) only at two lengths (`cf_async_queue.c:72,101,118`).
* **State read and used without the lock.** The two setters of the queue, the
  static pointer of the pool, the root logger.
* **Hand-over in several steps.** The pool passes the argument and the function of
  a task separately, and a mutex that one thread locks is unlocked by another.
* **Streams cut anywhere**, partial writes, and lists that change while they are
  walked, in the servers and in the logger.
* **Redundant state**, which long sequences of legal calls must keep true: the tail,
  the length and the back pointers of a list, the conflict marks of a hash, the count
  of a dictionary with holes, the cached last item of a JSON array, the counts of a
  test suite.
* **Sums computed apart from what they bound**: the room for a printed piece, for the
  bytes of a string literal, for the head of a frame.

## 2. The modules

| module | what it is |
|---|---|
| `FifoQueue` | what a queue promises: every call takes effect in one step between its invocation and its return |
| `AsyncQueue` | `cf_async_queue.c`, with the mutex, the condition variable and every waiting loop |
| `MCAsyncQueue` | threads, items and uses for TLC |
| `AsyncQueueProofs` | theorems about `AsyncQueue` |
| `PopDeadline`, `MCPopDeadline` | the arithmetic of the deadline of a timed pop; its theorems are in `ServicesProofs` |
| `TaskPool` | what the thread pool promises: accepted tasks run once, each on a worker of its own |
| `ThreadPool` | `cf_threadpool.c`: the race for the global instance, the scan with trylock, the hand-over, the loop of the workers |
| `MCThreadPool`, `ThreadPoolProofs` | symmetry for TLC; theorems, among them that `ThreadPool` implements `TaskPool` |
| `Stp`, `MCStp` | `cf_stp.c`: clients, the streams between, the select loop with requests and uploads; its instance for TLC |
| `StpProofs` | theorems about `Stp` |
| `Announcer` | the announcements of `cf_stp.c`: the timeout of `select`, the wall clock, the message |
| `ListWalk` | what a list with an iterator promises: a sequence and a position in it |
| `CfList` | `cf_list.c`, `cf_iterator.c`: nodes and pointers |
| `KeyMap` | what a table promises: a map, whose keys are given back once |
| `CfHash` | `cf_hash.c` |
| `Dictionary` | `dictionary.c`: arrays with holes that grow |
| `IniParser` | `iniparser.c`: loading and saving, on the map of `Dictionary` |
| `ItemList` | what a JSON array or object promises |
| `CJson`, `MCCJson` | the lists of items of `cJSON.c` and all calls that change them |
| `Containers` | `CfList`, `CfHash`, `Dictionary` and `CJson` side by side, each on state of its own, with what their users rely on |
| `ContainerProofs` | the theorems that `CfList` is a `ListWalk`, both tables are a `KeyMap` and `CJson` is an `ItemList` |
| `JsonText`, `JsonParser` | the grammar; `parse_value` and the functions it calls |
| `JsonPrinter` | `print_value` and the buffer that `ensure` enlarges |
| `JsonString` | `parse_string`, `utf16_literal_to_utf8`, `print_string_ptr` |
| `Texts`, `TextProofs` | `JsonString` and `IniParser` side by side, each on state of its own, with what their users rely on; the theorems about them |
| `WebSocket` | `cf_websocket_server.c` on `cf_socket_linux.c` and `cf_http_parser.c` |
| `Logger` | `cf_logger.c` and the streams it writes to |
| `ModuleLoader` | `cf_module.c` |
| `Pipeline` | `cf_element.c`, `cf_pad.c`, `cf_element_class.c` |
| `TestSuite` | `cf_test.c` |
| `Services` | `Announcer`, `Logger`, `ModuleLoader`, `Pipeline`, `TestSuite` and `WebSocket` side by side, each on state of its own, with what their users rely on |
| `ServicesProofs` | theorems about the announcer, the modules, the pipeline and the web server, and about `PopDeadline` |
| `ReportProofs` | theorems about what the logger writes and what suites of tests report |
| `FlatSequences` | lemmas that proofs about streams, texts and lists share: recursion over an interval, sequences put one behind the other |
| `MCLibrary` | one instance of each part from `PopDeadline` and `CfList` on, those of `Services`, `Containers` and `Texts` included; `which` picks the part of a behaviour |

### AsyncQueue and the code

A call of the queue runs in the steps between which another thread can do
something: `Call` (invocation), `Lock` (`pthread_mutex_lock`, with the local copy of
the limit, line 111, and the deadline, lines 53-61), one pass of the waiting loop
(`PopWait`, `PopInvalid`, `PushWait`), waking up (`Relock`), the rest of the body
(`Push`, `TryPush`, `PopTake`, `PopGiveUp`, `TryPop`, `Length`: they hold the mutex,
so nobody but a setter can interfere), and `Unlock`, the return.

* `waiters` is the set of threads inside `pthread_cond_wait` that nobody has woken.
  `Signal` removes any one of them. A thread whose `pc` is `wait` or `timedwait` and
  that is not in `waiters` was woken and competes for the mutex (`Relock`).
  `Spurious` is the wakeup without a signal that POSIX allows; `Timeout` ends a
  timed wait at any time, because nothing in the model measures time.
* `timed` is `m_timeout > 0`, all that the control depends on. Whether the computed
  deadline is a valid `timespec` (`late`) is left open for every timed pop here;
  `PopDeadline` says when it is not.
* `m_queue` is a sequence. The list behind it is `CfList`, which is shown to be one.
* `QuietSizes`, `QuietTimeouts` are the values the setters are called with while no
  call is in progress, `LiveSizes`, `LiveTimeouts` those they are called with at any
  time: the code does not lock in either case.
* `Delete` needs a quiet queue: the comment at `cf_async_queue.c:108` says that the
  other case is not handled.

### ThreadPool and the code

The actors are the clients, and the workers while they run a task that submits
tasks. `TestInstance`, `CreatePool`, `StoreInstance`, `FetchInstance` are the reads
and the write of the static pointer (lines 90-94); a client that finds it NULL
creates a pool, named after the client, so two clients that race create two pools.
`TryLock`, `NextWorker` and `Reject` are the scan of `cf_threadpool_start`,
`SetData` and `PushFunction` the two halves of the hand-over, and `Pop`, `Invoke`,
`Finish`, `ClearData`, `Unlock` the loop of a worker. A task stands for the pair of
a function and the argument meant for it: `func` and `param` are the tasks whose
function and whose argument the worker really uses. `spare` and `status` are
auxiliary: no action depends on `spare`, and `status` only keeps a task from being
submitted again while it is in the pool.

A worker's queue has one consumer, no limit and no timeout. `AsyncQueue` shows that
such a queue is a FIFO whose consumer is woken, and that FIFO is what `ThreadPool`
uses.

### Stp and the code

The clients make the calls of `cf_stp.h`: `Connect`, `Request` up to its write,
`Receive` (the rest of the request: wait for the answer), `SendChunk`
(`cf_stp_client_write_binary`), `Close`. What they write goes to `out`, and
`Deliver` moves any part of it to `stream`, so that the server sees a frame in
pieces, or several at once. The server has one `pc`: `Select` takes the snapshot
`r_set`, `Accept` takes one connection, then the walk looks at each client of the
list once: `Skip`, `ReadHeader` and `ReadBody` (which blocks the server until the
frame is complete), `HandleRequest` with `FileUpload` or `HandleChunk`, `Write`.
`Drop` closes, frees and removes through the iterator; in the sequence `list` the
client that followed is then at the same position, which is what going back to the
predecessor and forward again amounts to.

* A frame is its size, its mode and either one request or some `Data`; data are
  numbered, so that the content of a file tells where it came from.
* `files` counts the files that are open, `fd` says whether `m_fd` is set. The two
  part when `m_fd` is overwritten or a client is freed without `fclose`.
* `lost` is where the code has no meaning: after the `continue` of line 496, which
  belongs to the inner loop, the freed client is read, closed and removed again; and
  a size of which only some bytes were read is used as the size. Both need a
  connection that is cut inside a frame. `Unreliable` names the clients to which that
  may happen; for the others the network keeps the four bytes of a size together.
* `InFlight` are the data of a client that the server has in hand or that are in
  `stream` or `out`. What is stored, in flight and still to be sent is the file as
  long as the upload is open (`NothingLost`), also while the client asks for other
  things in between. The client that was granted an upload and has not read the
  answer (`ReplyUnread`) has nothing in flight and does not know yet that it may send.
* A client asks for an upload when the file before is sent, as the test program does,
  and its files are not empty. An upload that is announced with length 0 is never
  closed by line 552 and its file is left open by the next upload.
* A timeout of `select` changes nothing in this model: announcing the server shares
  only the loop with the rest and is `Announcer`. `accept` does not fail, answers arrive whole,
  SIGPIPE is ignored (as `cf_iostream_tcp.c:69` does for the whole process), and each
  client is a program of its own, because its buffers are static.

### Announcer and the code

A pass of the loop is `Arm` (what is left of the period by the wall clock, `Remain`),
the wait (`Tick`), and either `Announce`, when nothing came, or `Wake` and `Served`,
when clients were ready; serving takes any time (`Work`) and changes nothing else
here. `SetClock` sets the wall clock, at most once between two announcements; what
is armed takes account of it only from the next pass on, which is the difference of
`seen` and `shift`. `spent` is the time that really passed. The first announcement
keeps its message for all others (`kept`), so a program may call `SetMessage` up to
that one only: a later call frees the message that goes on being printed.
That announcements go out at all is no property: a select that finds clients ready
announces nothing, so clients that are always ready put it off for ever.

### The containers and the code

`CfList` has the cells of the nodes with `next` and `pre` behind the sentinel `Root`,
and one iterator. `Take` is `cf_list_take_front`; `cf_list_clear` is the loop of
`ClearTake`, which ends when it takes NULL, be it the end or a NULL that was pushed.
`Remove` unlinks the node under the iterator and steps back, to the sentinel perhaps.
The code does not free that node, so it stays in `used`. `order` is no part of the
code; `Linked` says that the pointers describe it, and `ImplementsWalk` that a client
sees a sequence and a position; `ListIsWalk` is both.

`CfHash` has one action for each path of `cf_hash_insert`: a free bucket, the same
key, the second key (`Split`, which moves the item into a list), a key in the list,
a new key in the list. `Dictionary` keeps the arrays with their holes; an allocation
that fails leaves the table as it is, an entry without a value, or a counted slot
without a key. Both implement `KeyMap`: what `get` answers is a map, and deletion
frees each key held once.

### JSON and ini files and the code

`CJson` is about the links: `prev` of the first item is the cached last one, `loose`
are the items the program owns. `Walk` is computed from the pointers alone: what is
reached from `child` by `next`. Every call that changes a list is there, with the
names of objects in so far as look-ups compare them. A program that is `Careful`
appends nothing to a list whose last item it took out, as the cache is stale there
(`json_tail`); the other properties are about such programs. `JsonIsItemList` says that
the walk is the sequence of an `ItemList`, and that the cache goes stale
(`StaleOnlyAfterLast`) only when the last item is taken out.

`JsonParser` reads symbols, and keeps the recursion of `parse_array` and
`parse_object` as a stack; `live` counts allocated items, and allocation fails at
`Memory`. `JsonPrinter` takes the pieces of a document from left to right; each asks
`Ensure` for the room the code computes for it, and `reach` is where its last byte,
NUL included, really is. `JsonString` reads units: a byte
that stands for itself, a character beyond ASCII (JSON text is UTF-8; the code copies
its bytes one by one, the model at once), an escape. It has the arithmetic of UTF-16
and UTF-8, and prints and reads again what it read. What a string should mean is
defined apart from it, by a decoder of UTF-8 (`CodePoints`) and by the code points a
literal names (`Meant`).

`IniParser` reads physical lines, each with the class `iniparser_line` gives it.
`Join` keeps a line that ends in a backslash, `Take` stores the entry of a complete
one under the section that is current, `TooLong` and `Finish` may refuse the file,
and `Save` loads what was saved. What the file says is defined apart from this, over
the whole file (`Says`, `ValueAt`).

### The servers, the logger and the rest

* `WebSocket` is one thread: `Select` with the accept, then the walk over the
  clients. What a client sends are the symbols of its request and the bytes of its
  masked frames, with one bit of data per byte and small marks for the long lengths;
  a read takes any of `Chunks` or all there is. A request counts only if one read
  begins with all of it, and what follows it in that read is dropped, as in the
  code; `alone` remembers the clients to which this did not happen. A client that
  was never opened is dismissed too, as in the code. The `memcpy` of overlapping
  bytes (`cf_websocket_server.c:160`) is modelled as the move it is meant to be.
* `Logger` takes a line through the mutex to all outputs, one per step; an output
  that fails, between the size and the text perhaps, is removed and destroyed in the
  walk. The level is read without the mutex. `due` is auxiliary: per output the
  lines that were written while it was listed, from the moment the mutex is taken.
  What an output that the walk has not come to is due is all but the last of them
  (`Due`), and `Lines` is what it got, for a peer the texts behind the sizes.
* `ModuleLoader`: modules and their dependencies are registered before the setup or
  by load functions during it. `cf_find_mod` answers the first module whatever the
  name (`Find`), so dependencies decide nothing; a first module with a dependency is
  loaded twice, and one without a load function that something depends on ends the
  program. `LoadsInOrder` says what remains: behind the call for a dependency of the
  first module, each call is that of a module before which exactly those were called
  that have a load function and were registered before it (`CallsInOrder`), and when
  the setup returns nothing is left.
* `Pipeline`: processors make data, pass them on or drop them; `cf_element_push` is
  a stack of calls, each of which releases what its processor returned when the
  chain behind has come back.
* `TestSuite`: suites with entries, the stack of suites that run, assertions that
  leave a test, counts that are copied when a suite is put into another one, and
  marks that no run resets.

## 3. The runs

| run | instance | what it shows |
|---|---|---|
| `pair` | a producer that may also try to push, a looping consumer; limit 0 or 2, timeout or none | nobody sleeps without a reason, every push returns |
| `crowd` | two producers, two consumers, try_push and try_pop, limit 0 or 2 | the limit holds, the queue implements `FifoQueue` |
| `live_setters` | a producer and two consumers, limit and timeout change under them | nothing is lost, duplicated or overtaken |
| `consumers` | a producer and two looping consumers, limit 0 or 1, timeout or none | a timed pop returns however often it is woken in vain; the queue keeps moving |
| `stuck_push` | two producers and a looping consumer, limit 2, no timeout | a push sleeps for ever beside an empty queue (finding 1) |
| `deadline_division` | times around the second, timeouts around the carry | the carry is missed at exactly one second (finding 2) |
| `race` | two clients, one worker per pool, three tasks, one of which submits | an accepted task starts, whichever pool it is in; every submission returns |
| `crew` | two clients, two workers per pool, three tasks, one of which nests | argument and function stay together, the hand-over of the mutex, honest rejection, refinement of `TaskPool` |
| `stp_stream` | two clients, one of them unreliable, a file of three in chunks of two, sequence numbers modulo 2 | frames survive any cut, answers belong to their request, files are stored whole, list and open files stay exact, only the unreliable client loses the server |
| `stp_live` | two orderly clients, files of one chunk | every request is answered, every upload ends, what a client has left is closed |
| `library` | one instance of each part that shares nothing with the others | see below |
| `json_tail` | three items, two names, a program that is not careful | the cached last item goes stale (finding 3) |

The parts of `library`, each with the property that it is about:

| part | instance | property |
|---|---|---|
| deadline | times around the second, timeouts around the carry | the deadline is exact (`DeadlineExact`), and is refused only on the second (`RefusedOnTheSecond`) |
| list | three cells, one datum beside NULL | `ListIsWalk`: the pointers agree in both directions, and a walk passes every item once though items go under it |
| table, dictionary | four keys in two buckets, three of which collide; three keys, arrays of 1, 2 and 4 | `TablesAreMaps`: look-ups answer as a map, and a slot is left for the next entry |
| json | three items, two names that differ in case | `JsonIsItemList`: one place changes, every item has one owner, the cache goes stale only with the last item |
| ini | every file of up to four lines of ten kinds, two entries of memory | `IniFilesSurvive` |
| parser | every text of up to three symbols and all one edit away from three longer ones, nesting of two, five items of memory | `ParserReadsValue`: a text gives the items of the value it begins with, and nothing leaks |
| printer | six documents, formatted or not, growing from four bytes to INT_MAX = 40, or thirteen sizes of given buffers | `PrinterInBounds` |
| string | literals of up to three units, at every boundary of UTF-8 and of the surrogates | `StringsAreUtf8` |
| web | two clients, texts, binary data, a ping and a close with lengths of one, three and nine bytes | `WebMessagesArrive` |
| announce | a period of three, a clock that is set on by two or back by one, three messages | `AnnouncedInTime`: however often clients interrupt the wait |
| log | two threads, a file and two sockets, two lines | `LogComplete` |
| module | three modules, one without a load function, one dependency each | `ModulesInOrder` |
| pipeline | three elements of seven classes | `PipelineReleases` |
| suite | three tests, two suites, two runs | `SuiteReports` |

**Bounds.** `MaxLoad` bounds the items that are queued or being pushed. It is larger
than every limit used, so that full, full minus one, one and empty, the only lengths
the code distinguishes, all occur, and a queue can hold more than one item when a
second consumer sleeps. Two threads of each kind are enough for a signal to reach
the wrong one. In the pool, two workers make the scan pass one and find the other,
two clients make the race of the first call, and the third task meets a full pool.
In STP two clients are enough for one to be served, dropped or accepted while the
other one is inside a frame; the file needs a full chunk and a shorter last one; two
sequence numbers tell the answer to a request from the answer before it. A lost
server stops for ever, so `stp_stream` does not check deadlock; `stp_live` does.
In `library` three cells are enough for a node between two others to be removed, and
for a freed cell to come back; a dictionary that grows twice has holes on both sides
of the count; the lines of the ini files contain each class once with and once
without a backslash where the code tells it apart; two clients of the web server let
one be removed in the walk before the other; `MaxDeps`, `MaxLines`, `MaxRuns`,
`MaxAsserts` and `MaxList` bound what is registered, logged, run, asserted and put
into a suite; `Horizon` bounds the clock at three periods. A list that is full, a
failed parse, a finished print and a program that has crashed take no further step,
so `library` does not check deadlock.
Symmetry (`crew`) permutes clients and like tasks; runs with liveness use none.

**Fairness.** `Fairness` of `AsyncQueue` says that a thread that can run does, and
that a mutex that is free again and again is eventually taken by each thread that
wants it (strong fairness of `Lock` and `Relock`), which the usual mutexes give in
practice and POSIX does not promise. `Timeout` is strongly fair: the deadline is
absolute and computed once, so a timed wait that is entered again and again ends
in the end. Nobody has to call, except consumers that loop,
as in `cf_test/test_async_queue.c:10`. There is no fairness on `Spurious`: no thread
is saved by an accident. In `ThreadPool` the steps of the library are weakly fair;
`Finish` is not, because a task may run for ever, and nobody has to submit. In `Stp`
the server, the network and the reading of an answer are weakly fair. `SendChunk` is
strongly fair: a client that was granted an upload goes on with it
(`cf_test/test_stp.cc:130-140`), although it may ask for other things in between,
unless it closes. No client has to connect, ask or close.

**Findings.**

1. `cf_async_queue.h:12` says that a push blocks when the length has reached the
   limit. With two producers it can also stay blocked for ever on an empty queue
   (`stuck_push`). Limit 2, both slots taken, both producers asleep: the consumer's
   first pop leaves 1 = limit - 1 and wakes a producer P; before P has the mutex the
   second pop leaves 0 and signals nobody, and the third finds the queue empty and
   sleeps. P pushes, the length is 1, and its signal may wake the consumer; the pop
   leaves 0, and consumer and second producer sleep.
2. `cf_async_queue.c:58` compares with `>` where the comment on the line promises
   division and remainder: a sum of exactly 1000000000 ns is not carried, the timed
   wait refuses it (`EINVAL`), and the pop answers NULL at once
   (`deadline_division`). With the 900 ms of the test it takes a time of day at
   exactly 100000 us.
3. "To find the last item in array quickly, we use prev in array" (`cJSON.c:1953`):
   when the last item is detached or replaced (2182-2210, 2281-2319), the prev of the
   first item keeps naming it, and the next append goes behind an item that is no
   longer in the list (`json_tail`).

## 4. What is proved

TLAPS checks the following for all values of the constants that meet the named
assumptions of the modules, which TLC evaluates for the values of the runs.

* `AsyncQueueProofs`: `TypeCorrect`, `MutexExcludes`, `NeverOverfills`,
  `WakesEveryone`, `QueueIsFifo` and `KeepsItemsInOrder`. The invariants are built in layers. `TypeInv` is `TypeOK` with
  the relation of a pending call to its item. `ControlInv` ties `pc`, the mutex, the
  waiters and the kind of call together and gives mutual exclusion. `LimitInv` says
  that the copy of the limit a push works with is the limit, when it is not moved
  under calls. On top of them `NoLostWakeup` is inductive: the signal at length 1
  reaches the one consumer because, when it sleeps on an empty queue, no push
  sleeps, and the signal at limit - 1 reaches the one producer for the same reason.
  The hypothesis `WellUsed` is exactly what this argument needs; `stuck_push`
  shows what happens without it. For the two refinements, `OutcomeInv` says that a
  call has no result exactly from its invocation to its decision, the one step in
  which it reads or changes the list, and that only a pop of a queue with a timeout
  ends its wait without an item; `DecisionCases` lists what a decision may do, and
  every other step is a step of the owner, a call or invisible (`VisibleStep`).
  `QueueIsFifo` is about queues whose setters are called only while no call is in
  progress: a push that began under the old limit may else put more than the new one
  allows, which `FifoQueue` forbids. `KeepsItemsInOrder` allows them at any time and
  speaks of the FIFO without a limit; `try_push` is left out of it because it alone
  reports a full queue, which that FIFO never is.
* `ThreadPoolProofs`: `TypeCorrect`, `CallsWithItsArgument`, `HandsOver`,
  `RejectsHonestly` and `PoolIsTaskPool`.
  `ChainInv` describes the hand-over as a chain: a worker is engaged with exactly
  one of a submitter between trylock and push, the function in its queue, or its own
  loop between pop and unlock; while the submitter or the function has it, `m_data`
  is the task's. This is what makes `RightArgument` and `HandOver` inductive. For
  `RejectsHonestly`, `SpareInv` says that a worker that has been free ever since a
  scan began is still before that scan, so no scan ends while there is one.
  `PoolIsTaskPool` is the refinement `ThreadPool` => `TaskPool`.
  `PoolInv` says that a task is submitted by one client at most, that a task is in
  the hands of exactly one worker from its acceptance to its end, and that only
  workers of pools that were created are locked. `RoomForOne` counts: the accepted
  tasks map one to one into the workers of the created pools, and the worker that a
  submitter has just locked has none of them, so there is room for one more.
* `StpProofs`: `ListsConnections`, `HandlesWholeFrames`, `AnswersItsOwn`,
  `LostOnlyWhenCut`, `OwnsFiles`, `StoresWhole` and `LosesNothing`, for any number of clients, lengths of files, chunks and any
  modulus of the sequence numbers. The argument is about the flow of a client: what
  the server has taken of the current frame, with the size put back in front, then
  `stream`, then `out`. `Flows` says that it is a chain of frames, each a request or
  a chunk, and that only an unreliable client that is gone can end it inside one. A
  client adds a frame behind (`SendFramed`) or cuts the end off by vanishing
  (`CutFramed`); `Deliver`, `ReadHeader` and a partial read leave the flow as it is;
  the read that completes a frame takes exactly the first one away (`TakeFramed`).
  The end of the stream in the middle of a frame is thus the fault of a client that
  vanished. `Turns` adds that a waiting client has one request, which is in its flow,
  or with the server, or answered, and never in two of them, so the next answer is
  that to its request. `Placed` and `Away` say where each connection is, and that a
  closed one has nothing on its way.
  The three theorems about uploads rest on a second layer, `UInv`. A flow is not
  only made of whole frames: its data are `Numbered`, they follow the last one that
  is in the file, increase without gap inside a frame and leave no number out, end at
  the last one that was sent, and a request stands behind all of them. Each end of
  the flow has its lemma (`ChunkAdded`, `AskAdded`, `ChunkTaken`, `AskTakenAway`), and
  the server's own steps follow from what it takes away. `NothingLost` and `StoredWhole`
  are then a matter of counting: the data of a numbered flow are the numbers
  between its bounds, in order (`FlightNumbered`). `Counted` is the number of open
  files, which changes with `fd` of one listed client at a time.
* `ContainerProofs`, list: `ListWalks`, for lists of any length, if the sentinel and NULL are no
  nodes (`ListAssumption` of `Containers`). `Linked` is inductive with the types of the
  pointers, because cells leave `used` only with the list, so that a cell that is
  pushed is not linked yet. With it, each action has a lemma that says what it does
  to the contents and to the position of the iterator, and that is the step of
  `ListWalk`.
* `ContainerProofs`, tables: `TablesAnswerAsMaps`, which joins `HashIsMap`, `DictionaryIsMap` and
  `SlotIsLeft`.

  `HashIsMap` is the refinement `CfHash` => `KeyMap` for any number of
  buckets and any hash function. The invariant is that a bucket in conflict is in
  use and its list holds a key once. `Lookup` derives from it what `get` answers in
  each kind of bucket; each path of the insertion then changes the answer for its
  key, leaves those of the other keys of the bucket and, by `SameAnswer`, those of
  the other buckets; and the deletion counts the items a look-up finds.

  `SlotIsLeft` and `DictionaryIsMap` hold for any sizes, keys and hash
  function (`DictionaryAssumption`; the default a program asks with is no value of the
  dictionary). The count bounds the entries from above (`SlotLeft`: failed copies only
  make it larger, and an array that is full by its count grows first), the hash in a
  slot is that of its key, and no key is in two slots, because a new entry is made
  only for a key no slot holds. A look-up then finds one slot or none.
* `ContainerProofs`, JSON: `JsonChildrenAreItems`, for any finite number of items, if NULL is none
  of them (`JsonAssumption`), for the careful program of `Containers`, which does not append
  to a list whose cached last item is stale. The invariant (`IInv`): the walk is a chain of
  `next`, its items but the first point back, none of them belongs to the program, and
  no item outside has a `next`. It says nothing of the `prev` of the first item, the
  cached last one; where a call reads the cache, `Careful` is what makes it right.
  `WalkIsChain` connects the walk, which is a recursive function over the pointers, with
  a sequence they describe. It needs induction over the length, which `Least` provides:
  a set of natural numbers that is not empty has a least element, so the set of
  positions at which the two differ is empty. Each call then names the sequence it
  makes, shows that the pointers describe it, and concludes that it is the walk.
* `ServicesProofs` and, for the logger, `ReportProofs`: `AnnouncesInTime`, `LogsEverything`,
  `LoadsModulesInOrder` and `ReleasesBehind`, from the assumptions of `Services`.
  * Announcer (`UdpInv`): since the last announcement the wall clock has gone on by the
    time that passed and by what it was set; before the first one nothing was waited
    for.
  * Logger (`LogInv`): no output is listed twice or made a second time, the walk stands
    in the list or just behind it, and of each output (`GoodOut`) that is listed, what it
    got is what is due. The output in front of the walk lacks the line of the thread that
    holds the mutex, which is the last of `due`: writing appends it to both sides
    (`TextsGrow` for a peer), and an output that fails leaves with the others moved up
    (`Dropped`) and the walk where it was, so that none is passed over.
  * ModuleLoader (`ModInv`): a setup is in one of three phases. `BeforeFirst` and `AtFirst`
    belong to a first module with dependencies, which is called for them before it is
    called for itself. In `Walking` what is loaded, or being loaded, is closed towards the
    front: of the modules with a load function it has those in front of each one it has.
    Nothing in front of the walk is missing, and the calls behind the first are those
    modules. `VisitNext` is the step onward, `ModGrows` says that load functions which
    register modules disturb none of it.
  * Pipeline (`PipeInv`): what was made and not released is in the hands of a call on
    the stack, as what it was given or what its processor returned; the calls above it are
    given the same or what came of it, and return before it releases.

  * PopDeadline: `DeadlineIsExact` and `RefusedOnlyOnTheSecond`, from the assumptions on
    the units (a second is 1000 milliseconds, a millisecond 1000 microseconds) and on the
    clock (less than a second of microseconds).

  Those of the four assume that the mark for a free mutex is no thread (`LoggerAssumption`), that
  times are whole milliseconds (`AnnouncerAssumption`), and that a class whose
  processor passes data on has no method that releases them, as they would be
  released twice (`PipelineAssumption`).
* `ServicesProofs`, web server: `ApplicationGetsItsMessages`, for any number of clients, any
  frames, any pieces in which the streams arrive and any order in which clients come
  and go. `WebAssumption` of `Services`: the marks for the longer lengths are different
  and fit behind the bit of the mask, a code has four bits, data are bits, and a length
  fits into two bytes, as a frame is assumed to fit into the buffer.
  The invariant (`WebInv`) says of the server that its list has no client twice, that
  the list and the connections to accept tell where each client is, and that the walk
  stands in the list; and of each client (`Fine`) which calls it has caused (`History`)
  and what is on its way (`Followed`): when the request came alone there is a k such
  that the messages called so far are those of the first k frames (`First`), and the
  buffer and the wire together are exactly what the client sends for the others
  (`Rest`). The property alone is not inductive, because it says nothing of the bytes
  that are left.
  The work is to follow the stream frame by frame. The parser cannot tell where a
  frame ends until it has the head, so the lemmas begin there: a buffer that begins
  with what is sent for a frame has a head with the length of that frame, is unmasked
  to its data, and is whole exactly when all of it is there; a shorter piece of it is
  never whole. `ConsumeFrames` then takes the recursive function `Consume` down the
  buffer, which needs induction over the number of loops: `Upward` gives it for a set of
  numbers, as below, and `Recursion` says that a function that is defined step
  by step is there. Messages, streams and answers are flattened sequences, and one
  section says what one more element does to them. Each action has a lemma for the
  client it serves (`FineAccept`, `FineRequest`, `FineFrames`, `FineGone`), and the rest
  is that the others are as they were, in the walk with removals above all
  (`GoneFine`, `ReadAndExceptFine`).
* `ReportProofs`, suites: `SuitesReportWhatRan`, for any tests, any finite number of
  suites, any nesting and any number of runs. `SuiteAssumption` of `Services` says that a
  suite is no test, and numbers the suites: a suite is put only into one with a lower
  number, which is no restriction, as no suite can be below itself.
  The property speaks of the step that ends the outer suite; the invariant (`SuiteInv`)
  has to say of every moment of a run what has been done. The suites that run are a
  `Chain`: each is the entry that the one around it has come to. What ran (`Ran`) is what
  stands in front of these entries, one link behind the other (`RanOn`, `RanEnter`,
  `RanOuter`). A suite that is over has a report of what stands below it (`Reported`),
  one that runs has counted the failures in front of its entry (`Running`), and `Tally`
  bounds the count by the failures from below, with equality in the first run, since no
  run resets it. A mark that a test gets now would change an earlier
  report that names the test; there is none, because what was come to is `Visited` and the
  entry that is next is not (`EntryFresh`), as nothing is in two places (`OnePlace`). What stands below a suite is a recursive function over the suites,
  `Below` of `TestSuite`; `BelowExists` and `BelowUnique` make it there by `Upward` over
  their numbers, and `BelowIs` lets it be unfolded. The counts of tests (`Counts`) are
  right until something is put into a suite that is already in another one.
* `TextProofs`, strings: `StringsComeThrough`, for literals of any length, any code points
  and any escapes. `StringAssumption` of `Texts` says what units are: bytes that stand for
  themselves are ASCII, characters beyond it are code points, and four digits have
  16 bits. The invariant (`Stands`) has one part for the first reading, in which the bytes
  are the UTF-8 of what the units before `at` mean (`Said`) and a high half before `at`
  is followed by a low half there, and one for the second, in which the bytes are those
  that were printed, up to `at`, so that nothing can be rejected. `RoomLeft` compares the
  bytes with the room of the units before `at`, and not with all of it: a pair gets
  ten bytes and takes four. That a decoder reads what was written (`Decoded`) is
  induction from the end of the string: `PointIs` gives it for one character, by the
  number of its bytes, and `Going` says that the decoder, which goes on by steps of any
  length, is there at all.
* `TextProofs`, ini files: `IniFilesRoundTrip`, for files of any length and names and
  texts of any kind. `IniAssumption` of `Texts` says that `strlwc` makes names of names and
  leaves alone what it made, and that a name may get a colon.
  `LoadsWhatTheFileSays` speaks of a file as a whole, in which a logical line begins at
  each of `Starts`, and of the end of the reading only. The invariant (`IniInv`) speaks of
  every moment (`Reads`): for some p the lines up to p are over, those kept are the
  ones behind p (`Joined`), the section is that of the next line, and the dictionary
  holds of each key what its last line up to p gives (`Holds`). The p of the next moment
  is that of this one and the lines joined (`Line`); `BeginsOnce` shows that no other
  logical line begins among those. The entries and the memory left are counted
  together (`Counted`), because a file is read to its end unless they fill the memory:
  then it says more keys than fit (`Full`). For the reading of a saved file the dictionary
  has to be one that reading makes (`WellFormed`): names in lower case, and the section of
  each value among the keys; `Named` keeps this for the section that is being read. Of
  such a dictionary, `DumpSections` and `LineSays` say which lines are written and
  that each says what was saved, and `DumpSays` that no key is missing.

Proved and not run: `MutualExclusion` (`MutexExcludes`), which the run `crowd` would
only repeat. Only model-checked: the other texts
(`ParserReadsValue`, `PrinterInBounds`) and all liveness
(liveness under fairness is out of the prover's reach). What the recursive functions of
`JsonText` compute for every input is not
proved: the library's induction takes an operator as a parameter, which the provers
cannot instantiate. For a function over an interval, as the walk of `CJson`, the loop of `WebSocket`,
the decoder of `JsonString` and what stands below a suite are, `Least` and `Upward` take the
place of induction. Conversely the run
`pair` shows `NoLostWakeup` for one producer only; for several producers of a queue
without a limit, and for threads that use try_pop beside the consumer, it is the
theorem `WakesEveryone` that shows it.

## 5. What is not modelled

* `cf_vector`, `cf_string`: buffers with no control beyond a copy; that
  `cf_vector_append` resizes before it copies is named under the hazards, and `Stp`
  empties its vector before each append, as its code does.
* The allocator: a counter that nothing reads, updated without synchronisation.
* `cf_util`: SHA-1 and base64 are arithmetic that a model would only repeat.
* `cf_thread/`: used by nobody and not compiled. `IPC_MVR_Manager/`: a Windows user
  interface whose protocol is that of the client of `Stp`.
* In modelled parts: failing allocations outside the ini and JSON parts; the
  deletion of a queue that is in use; the creation of the root logger, for which two
  threads may race into undefined behaviour; what a client makes of a datagram of STP
  (`cf_stp.c:154-167`), cut answers, uploads of length 0 and several clients in one
  program; failing `select` and `accept`; partial writes of the websocket server, which send the beginning
  again (`cf_websocket_server.c:204`); the registry of factory classes, start methods
  and attributes; `cf_mod_clear` and a load function that calls `cf_mod_setup`; the
  digits of JSON numbers, `cJSON_Minify`, `cJSON_Compare`, references and hooks; the
  conversion of ini values to numbers; a suite with more entries than
  `MAX_TEST_CASES`, which copies too little when it grows (`cf_test.c:178`).

What would come next: an abstract STP service (each request served once, each upload
stored) for `Stp` to implement; and partial writes as a fault of the websocket server.
