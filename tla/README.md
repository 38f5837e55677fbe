# A verification of ars-sdk

ars-sdk is a C++ base library: it gathers an event loop (taken from libhv), thread
pools (C-Thread-Pool and two C++ ones), a flash key/value and time-series database
(FlashDB), a coroutine scheduler, wrappers of POSIX locks and IPC, data structures
and a number of third-party headers. This directory holds TLA+ models of the parts
where concurrency, ordering and failure matter, the TLC runs that check them and the
proofs that TLAPS checks.

## 1. The system

### 1.1 Components, their state and their operations

| component | state it keeps | operations | how it meets the others |
|---|---|---|---|
| C thread pool (`thread/thpool.cpp`) | job queue, binary semaphore, counters of living and working threads, two process-wide flags | init, add_work, wait, pause, resume, destroy; the worker loop | workers run callbacks of the user; `SIGUSR1` stops workers anywhere |
| Task queue and task pool (`thread_pool_task_queue.hpp`, `thread_pool.hpp`: `ThreadTaskPool`) | bounded list, stop flag, status of the threads | push, pop, stop, add_task, run | producers block when it is full, consumers when it is empty |
| C++ thread pool (`thread_pool.hpp`: `ThreadPool`) | task queue, status, number of idle workers | start, stop, pause, resume, wait, commit | workers wait on a condition variable whose predicate reads an atomic status |
| Routine thread (`thread_routine.hpp`) | status, pause and sleep policy | start, stop, pause, resume, the hooks and task | used as a base class |
| Event loop (`event/loop.cpp`, `event/event.hpp`) | timers, idles, pending lists by priority, custom events behind a socket pair, status | run, stop, pause, resume, wakeup, post_event, add/delete/reset of timers and idles | runs every callback on one thread; other threads reach it by post_event |
| Event I/O (`event/nio.cpp`, `event/event.cpp`, `event/epoll.cpp`) | per descriptor: events, write queue, closed/close/error flags, timers | accept, connect, read, write, close, keep-alive, heartbeat | callbacks run on the loop; write and close may come from any thread |
| evpp (`evpp/*.hpp`) | loops in threads, channels, reconnect settings | start, stop, join, postEvent, runInLoop, setTimer, TcpServer, TcpClient | object layer over the event loop |
| Key/value database (`flashdb/fdb_kvdb.cpp`, `fdb_utils.cpp`) | flash sectors with status tables, node headers, caches | set, get, del, iterate, garbage collection, recovery at start | writes go through a flash port that may lose power at any write |
| Time-series database (`flashdb/fdb_tsdb.cpp`) | sectors, current sector, oldest address | append, iterate, query, set status, clean | as above |
| Coroutine scheduler (`schedule/co.cpp`, `_co.cpp`) | free and used coroutines, run flag | run, stop, add, del, resume, yield | one thread resumes the coroutines |
| Data structures (`ds/*`), memory (`memory/*`) | containers, ring buffers, object pool, slab | their operations | used by the event loop (heap, queue, list) |
| Locks, atomics, IPC | kernel objects | thin wrappers | used by all |

Everything else (argument parsing, json, pugixml, httplib, crypto, encodings, string and
file helpers, protocols) is sequential code around third-party headers or pure I/O;
`PROJECT.json` lists each part with the reason it is left out.

### 1.2 How the components interact

- **Callbacks.** Every component calls code of its user: jobs and tasks in the pools, the
  callbacks of timers, idles, descriptors and posted events in the loop, the iterators of
  the databases. The user may call back into the component, so a callback is a point at
  which the component's state must be whole.
- **Shared state.** A pool is shared by its workers and by the threads that feed it, under
  mutexes, condition variables and, in `thpool.cpp`, a binary semaphore and a signal. A
  loop is shared by one thread that runs it and any number that post to it. Some state is
  shared by more than its owner expects: `threads_keepalive` and `threads_on_hold` are one
  pair of variables for all the C pools of a process.
- **Layers.** `evpp` runs event loops in threads and hands work from one to another with
  `post_event`. Event I/O adds its time-outs as timers of the loop. The databases call a
  flash port, and what survives a power failure is what the port had written.

### 1.3 What is hard, component by component

`PROJECT.json` lists the forty hazards the project works from, each at its line with the
properties that watch it. What follows is the same by component, with those further ones
that stand behind them in the plan.

**C thread pool.** The semaphore `has_jobs` is binary: it forgets how often it was posted,
and only the second post in `jobqueue_pull` makes up for that. `thpool_wait` and
`thpool_destroy` decide on counters and a queue length that other mutexes protect. A paused
worker sits in a signal handler, wherever the signal met it, with the mutexes it held.
*Correct means:* a job is run once, in order; none is forgotten while a worker sleeps; a
wait that returns tells the truth; memory is freed when nobody uses it; wait and destroy
return.

**Task queue and ThreadTaskPool.** Two condition variables with `notify_one`, threads that
pass a waiter on their way to the queue, a stop that is called by several threads, a flag
that no constructor sets. *Correct means:* the bound holds, no waiter sleeps while there is
work for it, a stop that returned means the workers are gone.

**ThreadPool.** `status` is tested and assigned in two steps, by threads that do not hold
the mutex under which the workers evaluate it. So a worker can miss the notification of
`stop` (`thread_pool.hpp:164`), and two threads that pause or resume and stop can overwrite
each other (line 175): a resume whose assignment comes after a stop lets a worker that has
already left its wait go on with no task. A second `start` after a `stop` keeps the joined
threads in its vector (line 167). *Correct means:* the idle counter is exact, wait tells the
truth, tasks run, stop leaves nobody behind.

**Routine thread.** The thread's own `status = RUNNING` (`thread_routine.hpp:87`) overwrites
a stop that came first; `setSleepPolicy`, `pause` and `resume` (line 80) and a second start
(line 85) write over what another thread just wrote.

**Event loop, its events.** `hloop_process_pendings` walks a list of objects that its
callbacks reset and delete. A round in which a timer is due does not poll
(`loop.cpp:145`), so timers that are always due keep descriptors waiting; a time-out above
71 minutes wraps in 32 bits (line 507). *Correct means:* no freed object is touched, none
leaks, the counters that decide when the loop quits are exact, deleted events are silent
and timers fire.

**Event loop, its control.** A posted event is a byte and a list entry that must not part.
Until `loop_run` sets `tid` the creator counts as the loop's own thread (line 419), pause and
resume assign over a stop (line 431), the byte of a stop may be left for the next run (line
156), posting from another thread may grow the table of descriptors (line 234), and an
auto-freed loop may be gone while `loop_stop` still uses it. *Correct means:* posted events
run once and in order, and stop ends the loop.

**Event I/O.** The write callback runs under a mutex that is not recursive (`nio.cpp:482`); a
second close drops the queue the first one waits for (536); a posted close compares an id
because the descriptor may have been reused (519); `close` is set outside the mutex (537);
the keep-alive timer is reset and deleted in one round (95), which is the case that is
not safe in the loop (section 5).

**evpp.** Start and stop lambdas capture a local of a finished iteration
(`EventLoopThreadPool.hpp:91`), `kStarted` is set over `kStopping`
(`EventLoopThread.hpp:112`), and a client's count of retries survives its successes
(`TcpClient.hpp:152`).

**Key/value database.** Every update is a sequence of about ten writes, and garbage
collection and recovery are longer ones; power may fail between any two. The cache of
addresses, the request for garbage collection and the reserve sector are each kept right by
several functions. `del_kv` also keeps a pointer to a local of an inner block
(`fdb_kvdb.cpp:868`), and a write to the file port may be cut short (`fdb_file.cpp:83`).
*Correct means:* a value that was set is never off the flash, reads are the last value, a
start shows the old or the new one and comes to an end.

**Time-series database.** The same flash and failures; a ring of sectors whose oldest is
overwritten, and a pair of indexes that a start must find again.

**Coroutine scheduler.** `stop_` is polled without the mutex (`co.cpp:187`); stop from a
coroutine waits for its own thread (116); add and resume change the lists under different
rules (133).

**Locks.** The deadline of a timed wait is off by up to a second (`mutex.hpp:101`), and the
timed helpers of the read/write lock return 1 where their callers look for 0
(`rwlock.hpp:109`). These are wrappers of the kernel's objects with no state of their own.

## 2. Plan

Done, in this order:

1. `WorkPool`, `ThPool`, `ThPoolNeighbour`, `ThPoolProofs`: what a pool of workers promises,
   the C pool that implements it, the same pool beside a second one, and the proofs.
2. `TaskPool`, `CxxPool`, with `TaskPoolProofs` and `CxxPoolProofs`: the two C++ pools.
3. `LoopEvents`, `LoopControl`, with `LoopProofs` about both: the loop seen
   from its own thread and from the others. `LoopControl` implements `WorkPool` too, with one
   worker.
4. `Kvdb`, with `KvdbProofs`: the key/value database over flash that loses power.
5. `Tsdb`, with `TsdbProofs`: the time-series database over the same flash.
6. `Nio`, with `NioProofs`: one descriptor, written and closed by two threads.
7. `Co`, with `CoProofs`: the coroutine scheduler.

Next, by importance:

1. `EventLoopThread`: start, stop and join of a loop in a thread, on the actions of
   `LoopControl`, and the pool of them, with the races listed in section 5.
2. `LoopControl` with an auto-freed loop; `Kvdb` with default nodes and several nodes lost by
   a format.
3. `ThreadRoutine`, whose races are those of `CxxPool` on one thread.
4. For `Kvdb` a proof about the start after a power failure.

The modules to be proved about declare no `RECURSIVE` operator, name the assumptions on
their constants and have one action per step of the code.

## 3. The models

In all modules an operation of the code is one action or a chain of actions joined by
a program counter, cut where another thread can act or where the power can fail. A critical
section is one action when everything it reads or writes is under its mutex. A condition
variable is the set of threads blocked on it, notify removes one member (any one) or all.
Jobs, tasks, events, names and values are model values. Every counter is capped by a
constant that is named as a bound in its declaration, or by the finite set of objects.
Definitions whose name says what a plausible mistake would be (`PullNoPost`, `DelNow`,
`FindKvDeleteFirst`, ...) are not part of a specification: substituted for the definition
they resemble they show that a property can fail.

### 3.1 WorkPool, the abstract pool

Accept a job at the end of a line, take the oldest, finish it, close when nobody is
busy. No locks and no counters. It states order, exclusiveness and once-only.

### 3.2 ThPool, `thread/thpool.cpp`

| TLA+ | code |
|---|---|
| `phase`, `ThpoolInit`, `InitReturn`, `DestroyBegin`, `DestroyPost`, `DestroyFree` | the owner in `thpool_init` and `thpool_destroy` |
| `queue`, `bsemV`, `asleep`, `alive`, `working`, `allIdle` | `jobqueue`, `has_jobs->v`, the waiters of its condition, the two counters, the waiters of `threads_all_idle` |
| `keepalive`, `onHold` | `threads_keepalive`, `threads_on_hold` |
| `rwmutex`, `thcount` | the owners of the two mutexes |
| `LockCount` ... `ExitUnlock`, together `ThreadDo(w)` | one worker, line by line |
| `SigDeliver`, `SigReturn` | `thread_hold`, in whatever place the worker was |
| `AddWork`, `LockQueueC`, `Push`, `Wait`, `LockCountC`, `WaitTest`, `Pause`, `Resume` | the clients |
| `resumed`, `accepted`, `done` | history |

The two mutexes are explicit because a held worker keeps them. The time-outs of
`thpool_destroy` only decide between posting once in a while and posting often and are left
out: it posts as long as workers are alive. `thpool_num_threads_working` reads one field.
Clients call only between the return of `thpool_init` and the call of `thpool_destroy`, and
none is inside a call when destroy begins, as the memory is freed under it otherwise.

*Run.* `thpool`: two workers, two clients, two jobs, one pause and spurious wake-ups, the
safety, the liveness and the refinement in one run, so without symmetry; 263,000 states.
Two workers are needed for a worker to take the semaphore while another is between the
semaphore and the queue, and two jobs for a post to be forgotten; with two clients one adds
or pauses while the other waits.

*Fairness.* Weak fairness of each thread inside the library: the scheduler runs every
thread that can run; and spurious wake-ups cease in the end. Nobody is obliged to call, to
add jobs or to resume, so `JobsComplete` and `DestroyTerminates` except a pool that stays
paused. `WaitReturns` is claimed for a client that is alone in `thpool_wait`.

### 3.3 ThPoolNeighbour

`ThPool` in a process with a second pool, reduced to what its init and destroy do to the two
shared variables.

### 3.4 TaskPool, `thread_pool_task_queue.hpp` and `ThreadTaskPool`

`Push` and `Pop` are one step from the test of the predicate to the end of the critical
section: push and pop own `mutex_` throughout, the notification included, and a thread that
blocks releases it in the same step. `stop` sets its flag under the mutex and notifies after:
two steps. `Init` lets `stop` be true or false, since no constructor sets it. `run` loops
over `LoopTest`, `Pop`, `Check`, `RunTask`; `add_task` is `AddTask`, `Push`; `stop` is `Stop`,
`StopFlag`, `StopNotify`, `ClearRunning`, `Join`, with `call_once` as `asked`: the second caller
waits for the first.

*Run.* Two workers, two producers, two stoppers, four tasks and a queue of two: the queue
is full while both producers wait, and both conditions have several waiters; 221,000 states.
`NobodyForgotten` is made of `ConsumersAwake`, which says that while somebody sleeps on
`not_empty_` at least as many others are on their way to the queue as there are tasks in it,
and of `ProducersAwake`, the same for the free places: the invariants that make `notify_one`
enough. `Consistent` is the typing, `OnceEach` (no task is in two places) and
`StoppedMeansQuiet` (a stop that returned has joined the workers).
*Fairness* as above; tasks return.

### 3.5 CxxPool, `ThreadPool` of `thread_pool.hpp`

A worker is `LoopTest`, `PauseTest`, `Lock`, `TestPredicate`, `Block`, `Take`, `RunTask`,
`Finish`. `TestPredicate` and `Block` are two steps with the mutex held: `stop` and `pause`
write the status without it. The test of the status and the assignment after it in stop,
pause and resume are two steps (`TestStop`/`SetStop`, `TestPause`/`SetPause`). `wait` reads
the queue and the counter at two times (`WaitEmpty`, `WaitIdle`) and gives up when the pool is
stopped. `commit` and `wait` may come before the pool is started, as neither looks. `Take` is
one step for the pop and the change of `idle_num` before it, both under the mutex; the queue and
the counter that a `wait` reads in between are each as before or as after the step.

*Run.* One owner, that is one thread that starts, stops, pauses and resumes, and a second
thread; both commit and wait; two workers, two tasks; 142,000 states. `Consistent` is the
typing, `IdleExact` and `NoEmptyCall`; with two owners the latter two fail by the race at
line 175. A pool is started once. `missed` is history: the workers that had evaluated the
predicate and not yet blocked when `stop` notified. `StopLeaves` says that once a stop joins,
every worker ends but for those: the notification that line 164 can lose is lost to them and to
nobody else. Its mutant notifies one worker instead of all.

### 3.6 LoopEvents, the loop's timers, idles and pending lists

One thread. `User` is what a user may call before the loop runs and in every callback; `Loop`
is `hloop_process_events`: `Quit`, `SkipPoll`/`Poll`, `FireTimer`, `ProcessIdles`/`NoIdles`, then
`Pass`, `Call`, `Discard` and `Return` for each linked event, by priority, and `RoundDone`. The
macros of `event.hpp` are `Add`, `Del`, `EventReset`, `Pend`. An object's flags are memberships
(`active`, `destroy`, `pending`), its memory is `live`. `heap` is a set with a root: the shape
of the heap is left out, its order is not; `idles` is a set, as nothing depends on the order of
the list. `left[t]` is `next_timeout` minus the cached clock;
`Tick` moves the clock at the start of a round and in `timer_add`, as far as `MaxLate` behind, and
`Poll` may move it once more (`loop.cpp:156`), so that timers and io events meet in one round.
The next time of a period is any delay, as the calendar decides it. A time-out in microseconds
(`timeout * 1000` in 32 bits, `loop.cpp:507`) is taken not to wrap. Io events are `Sources`:
always active, one more place for callbacks.

Users keep to the handles they have: they do not touch a timer they have deleted or that has
run out. `DelAfterReset` says whether they may delete a timer they reset while the round still
has to pass it: it is FALSE in `loop_events` and TRUE in `loop_reset_then_del`, the run that
shows why.

*Run.* Two time-outs, a period, an idle and a source, delay 2, repeats once and for ever:
546,000 states. Two timers can be due in one round and change each other from their
callbacks, the period and the idle have their own priority lists. `released`, `waiting` and
`misused` are history, read by properties only; `misused` has the timers that were deleted after a
reset while the round still had to pass them. `Consistent` is the typing, `CountersExact`, `WhereItIs` (the
heap and the list of idles hold exactly what lives and is not marked for deletion) and
`NoLeak`.
*Fairness.* The loop takes its steps, callbacks return, and time passes (strongly fair, as the
clock is not stopped by a loop that is busy). `TimersFire` has the escape the code has: a
timer that is reset over and over does not fire.

### 3.7 LoopControl, the loop and the other threads

`Post`, `PostWrite`, `PostPush` are `loop_post_event`: byte, then entry, under the mutex.
`Stop`, `StopTid`, `PauseTest`, `PauseSet` are stop, pause and resume: status and `tid` are read
and written in separate steps. `Enter`, `SetRunning`, `StatusTest`, `PollBytes`, `Read`, `TakeEvent`,
`CallbackPosts`, `CallbackStops`, `CallbackReturns`, `TakeEnds`, `Leave` are `loop_run` with
`sockpair_read_cb`. `Read` takes all bytes the socket holds, where the code has a buffer that could
end short of them: the bytes left would only make the socket readable again. The loop can be run
twice (`MaxRuns`), so what a run leaves behind meets the next one. One of the threads is the creator, whose id the loop has until it runs.

*Run.* Two posters, two events, callbacks that post and stop; 187,000 states. `ControlConsistent`
is the typing and `ByteForEach`.
*Fairness.* The thread in `loop_run` and threads inside a call go on. `PostedRun` is claimed for
a loop that in the end keeps running, `StopEndsLoop` for a stop by a thread that the loop does
not take for its own while nobody pauses or resumes it.

### 3.8 Kvdb, `flashdb/fdb_kvdb.cpp`

The program is sequential under the user's lock, so an operation is a stack `todo` of tasks.
Each step takes the top task, makes at most one write to the flash and may push what follows;
`Crash` may come between any two and drops `todo` and `db` (all memory), never `flash`. A
call (`KvSet`, `KvDel`, `KvGet`, `KvSetDefault`) starts only when the stack is empty.

| TLA+ | code |
|---|---|
| `NewKv`, `Alloc` | `new_kv`, `alloc_kv` with its two passes over the sectors, `gc_request` |
| `FindKv` | `set_kv`: the old node PRE_DELETE, the new node, the old node DELETED |
| `UpdateSecStatus`, `PreWrite`, `Header`, `Body`, `Commit` | `create_kv_blob` write by write |
| `PreDelete`, `Delete`, `Dirty` | `del_kv` |
| `GcCollect`, `DoGc`, `GcKv`, `MoveKv`, `GcEnd`, `Erase`, `Format` | `gc_collect`, `do_gc`, `move_kv`, `format_sector` |
| `Boot`, `CheckHdr`, `CheckAll`, `CheckGc`, `CheckKv`, `Checked` | `fdb_kvdb_init`, `_fdb_kv_load`, with its retry |
| `Find`, `Visible`, `CacheHit` | `find_kv`, `get_kv`, the KV cache |

*Abstractions.* All nodes have one length; a sector holds `Slots` of them and less than
`FDB_SEC_REMAIN_THRESHOLD` more, so the last one turns it FULL. The status is that of the
file mode the header selects, where a status write replaces a byte. CRC tells a whole node
from a torn one (`data`: none, header, full). The cache of sectors, which only saves reads,
is taken to agree with the flash. A walk that reads a sector opened without a node marks its first place
(`fdb_kvdb.cpp:322-329`). The model lets the walks of `Alloc` and `CheckKv` do so and no walk of
`find_kv`: between calls no sector is open without a node (TLC finds none within the bounds of the
run), so that walk meets none. There are no default nodes and no failed write other than
by loss of power, and no name is a prefix of another. `want[k]` is history: the values name
`k` may have, one between calls, the old and the new one during a call or after a crash in it.

*Run.* `kvdb`: two names, two values, two sectors of three nodes, one power failure anywhere,
the first start and the recovery included; 536,000 states. Two sectors make every filled
sector a garbage collection, and three slots for two names leave the room that the reserve
sector presumes. The cache has fewer slots than names only in a database larger than this one:
an eviction is a miss, and a miss reads the flash.
*Fairness.* A call or a start that has begun goes on; nobody has to call. Deadlock is
checked: a database is never stuck.
`ReadsLatest` is claimed before a power failure only; what may come after one is the finding
of `kvdb_hidden`. With two failures in the window between FULL and the first write of the node
`NoValueLost` fails as well, so the run allows one.

### 3.9 Tsdb, `flashdb/fdb_tsdb.cpp`

| TLA+ | code |
|---|---|
| `Append_`, `FirstWrite` | `fdb_tsl_append`, with what `update_sec_status` finds |
| `EndPreWrite`, `EndWrite`, `SectorFull`, `EraseNext`, `FormatNext` | `update_sec_status` of a sector that has no room: an end node, FULL, the next sector |
| `SectorUsing`, `StartTime`, `PreWrite`, `Write` | the first log of a sector, `write_tsl` and `cur_sec` after it |
| `Clean`, `FormatErase`, `FormatMagic` | `fdb_tsl_clean`, `tsl_format_all` |
| `SetRollover` | the control of `rollover` |
| `Deinit`, `Crash` | `fdb_tsdb_deinit`; a power failure, which is not code |
| `StartAsserts`, `StartFormats`, `StartFindsNone`, `Start` | `fdb_tsdb_init` with `check_sec_hdr_cb`, `read_sector_info` and the choice of `cur_sec` and `oldest_addr` |
| `Iter`, `ReadIn` | `fdb_tsl_iter`, its loop over the nodes of one sector |
| `LogsIn`, `Stored` | the nodes up to the end a sector shows |
| `ByTime`, `SearchStart` | `fdb_tsl_iter_by_time` and its binary search |

`pc` names the write that comes next. A sector is filled from both ends; sizes are counted in
index nodes, and the contents of a log are only the place they take. What was never written
reads as -1, as in the erased file. The two folds of a start, `RemainAfter` and `DataAfter`, are
recursive functions over the positions of a log, and the binary search is one over its two
bounds, so that all three can be reasoned about.

`fdb_tsl_iter` tests for the end of a sector behind the node it has read (438-444). In a USING
sector without a node, which a failure after "using" leaves, `ReadIn` therefore returns the
node that was never written (`NoLog`). Where the loop ends there is up to `end_idx`, which
`read_sector_info` does not set for such a sector: it holds an address of a sector read before, or in
the first sector anything. `Iter(stale)` has the node this address names as a parameter and
`EachTSL` holds for each; an address behind the sector, for which the loop would leave it, is left out.

`Clean` may come at any time, in a database that has no current sector in use too. Then a failure
in it can leave EMPTY sectors on both sides of a FULL one (`Split`), which the next start accepts
and gets wrong. `SplitCrashes` says whether the power may fail there: it is FALSE in the run, and
section 5 says what happens otherwise.

*Run.* Three sectors of six units, logs of one or three, time that stands still or advances by
two, five logs, two power failures; 1,480,000 states.
Three sectors let the oldest one be neither the current one nor its neighbour; logs that fill
a sector exactly, leave one unit or do not fit at all arise from the two sizes; equal times
are what the binary search could get wrong, five logs are enough to drop the first sector.
`CrashPoints` leaves out two writes, "full" and "magic": with the first `EachTSL` is violated,
with the second `DropsOldest`, by the departures that section 5 describes; with `SplitCrashes` TRUE
`EachTSL`, `RangeExact` and `DropsOldest` are. Deadlock is not
checked: "assert" and "nosector" are ends of the program. `EachTSL` counts the torn logs too: a
reader is called back for them, once and in their place. It allows an unwritten node only while
the USING sector has no log; that there is one at all is in section 5. `RangeExact` compares, for every
beginning from 0 to just after the clock and for an end at the same time or at the clock, a
query by time with the logs of the range (`Stored`), without torn logs and where line 489
lets the query begin. `DropsOldest` is an action property: a log
leaves the flash by a clean, or as one of the oldest when every other sector is FULL.

### 3.10 Nio, `event/nio.cpp` and the io functions of `loop.cpp`

One `io_t` and its descriptor, used for several connections one after the other. A buffer is
the sequence of its two halves, which is enough for a short write.

| TLA+ | code |
|---|---|
| `Ready`, `Get`, `Add`, `Watch`, `Del` | `io_ready`, `io_get`, `io_add`, `iowatcher_add_event`, `hio_del` |
| `WriteTry`, `WriteBehind`, `WriteRefused` | `io_write` under `write_mutex`; `LoopWrite`, `ThreadTest` and `ThreadWrite` are its callers, another thread tests `closed` before it locks |
| `Poll`, `Handle`, `Read`, `ReadCbReturn`, `HandleWrite`, `Connect`, `NioWrite`, `Drained` | a round of the loop: epoll, `hio_handle_events`, `nio_read`, `nio_connect`, `nio_write` |
| `LoopClose`, `ThreadClose`, `PostedClose`, `CloseLater`, `CloseNow`, `CloseAgain`, `Done`, `CloseCb` | `io_close`, direct and posted, with `io_done` and `__close_cb` |
| `CloseTimeout`, `Timeout` | the close timer, and the keep-alive and connect timers |
| `Open` | the next connection gets the descriptor |

`HandleWrite` clears `revents` first, the code after its handlers (`nio.cpp:421`), and `CloseNow` is one
step for `closed`, `ready` and the removal from epoll (`nio.cpp:547`, `loop.cpp:714`, `716`). Both
are on the loop's thread, and another thread could look in between only with `Overlap`.

Callbacks make their calls in `UserPhases`; the write callback makes none, as it runs under
`write_mutex` (section 5). The peer and the kernel do what they like: short writes, errors,
hang-ups. `Overlap` says whether a write of another thread may overlap the end of the
connection it writes to: it is FALSE in the run, and section 5 says what happens otherwise.

*Run.* One other thread, two buffers, two connections, three close timers, one posted close;
295,000 states. Two connections let events, timers and posted closes of the first meet the
second. `Consistent` is the typing, `WriteWatched` and `ClosedOnce`.
*Fairness.* What the loop has begun goes on, posted closes and timers that ran out get their
turn (strongly fair, because the loop may be in a callback now and then), threads inside a
call go on, and the peer does not send for ever. `CloseCompletes` needs nothing of a peer that
never reads: the close timer ends its connection. Deadlock is not checked, since the last
connection may end.

### 3.11 Co, `schedule/co.cpp` and `_co.cpp`

`Add`, `Yield` and `Return` are what a coroutine does (`Return` with `_del_co` and `co_quit`, which
moves `cur_` on); `Run`, `TestOuter`, `TestInner`, `Fetch`, `Resume`, `Switch`, `End` are `sch_run` and
`entry`, each read of `stop_` a step; `Stop`, `Wake`, `Spurious` are `sch_stop`. `st`, `ns` and `running`
are the fields of `co_s` and `schedule_s`. Stacks are not switched, the function of a coroutine
is whatever it does between two yields.

*Run.* Three coroutines that start one another, two stoppers, two runs of the scheduler;
85,000 states. With three coroutines the one that returns, its neighbour and `cur_` can all
differ. `Consistent` is the typing and `CurLives`. `served[c]` is history: who was resumed since
`c` was. Reads of `stop_` are in order and return what was written, as in a build that keeps the
loop's load. *Fairness.* `entry` goes on, a coroutine yields or returns some time, a notified
thread gets its mutex. Deadlock is not checked: an idle scheduler has nothing to do.

## 4. What is proved

All theorems are about every value of the constants their module's assumption allows. An
invariant is proved as `IInv` (theorem `Invariant` of its module), the properties follow; each
`IInv` was checked with TLC first, on the constants of the module's run.

| module | theorems | what they establish |
|---|---|---|
| `ThPoolProofs` | `TypeCorrect`, `CountersCorrect`, `SemaphoreCorrect`, `DestroySafe`, `WaitCorrect` | typing, exact counters, no job or wake-up is lost, freed when quiet, wait tells the truth |
| | `Refinement` | `ThPool` implements `WorkPool` |
| `TaskPoolProofs` | `ConsistentAlways`, `Awake` | `Consistent`, `NobodyForgotten` |
| `CxxPoolProofs` | `ConsistentAlways`, `WaitTellsTheTruth` | `Consistent`, `WaitTruth`, of a pool with one owner |
| `LoopProofs` | `ConsistentAlways`, `MemoryAlways` | `Consistent`, `NoUseAfterFree`, until a timer is deleted after a reset in a round that still has to pass it, whatever `DelAfterReset` |
| | `DeletedStaysQuiet`, `ResetIsHeeded` | `DeletedNeverCalled`, `ResetPostpones`, if `DelAfterReset` is FALSE |
| | `ControlConsistentAlways`, `ControlRefines` | `ControlConsistent`; `LoopControl` implements `WorkPool` |
| `NioProofs` | `StreamAlways`, `ConsistentAlways`, `CloseIsGraceful` | `StreamIntact`, `Consistent`, `GracefulClose`, if `Overlap` is FALSE |
| `CoProofs` | `ConsistentAlways`, `TurnsInOrder` | `Consistent`, `TakesTurns` |
| `KvdbProofs` | `ReadsLatestAlways`, `RoomForGcUntilFailure` | `ReadsLatest`; `RoomForGc` until the power fails, if `FewNames` |
| | `NoValueLostToFirstFailure` | `NoValueLost` up to the first failure and in the flash it leaves behind, if `FewNames` |
| `TsdbProofs` | `ConsistentAlways` | `Consistent` |
| | `RingInvariant`, `DropsOldestAlways` | the ring in order, `DropsOldest`, if `CalmCrashes` |
| | `TimeInvariant`, `EachTSLAlways`, `AnyRangeAlways`, `RangeExactAlways` | times in order, `EachTSL`, `RangeExact` and the same for any range, if `CalmCrashes` |

**ThPool.** For any finite set of workers and any clients and jobs, any bound on pauses, with
or without spurious wake-ups. The safety properties are not inductive. `IInv` adds who may own
a mutex (`LockInv`: only the owner's place in the code allows it, so a critical section is not
entered twice), how the owner's phase restricts the others (`PhaseInv`: no worker leaves while
`keepalive` holds, so a semaphore that was taken leads to a look into the queue), that only
blocked workers sleep (`SleepInv`), and where a job can be (`JobInv`: a job that was accepted is
queued, run or done; it is what wait and the refinement rest on). `StateStep` proves these and
the properties step by step of `Next`. `CountersStep` is apart since it is about cardinalities:
`CountMove` says what one worker's move does to the number of workers at a set of places, from
the library's facts on finite sets, and each action cites it. `WaitCorrect` then reads: no
worker is counted as working, the queue is empty, so every accepted job is done. The refinement
is a matter of form but for the freeing of the pool, which is `Close` only because
`DestroySafe` holds.

**TaskPool.** `WaitersInv` says that a thread on a condition variable is inside push or pop,
`PlaceInv` where a task can be: with the producer that brings it, once in the queue, in one
worker's hand, or run. The two halves of `NobodyForgotten` are inductive beside them: each is
an inequality between a length and the number of threads at certain places, so every step is
a change by one on one side or both, and a wake-up moves one thread from one set to the other.

**CxxPool.** The hypothesis is `OneOwner`: one thread starts, stops, pauses and resumes. Without
it `Consistent` is false. `LockInv` is about the mutex; `StatusInv` says that a pause or resume
between its test and its assignment is not overtaken by a stop; so the predicate still holds
when the worker takes its task (`TakeInv`), no worker goes on without one, and `idle_num`, counted
again as `Idlers`, is exact. `HandInv` and `PlaceInv` say where a task is and that a `wait` which has
found the queue empty waits for none that is queued, which gives `WaitTruth`.

**LoopControl.** `PhaseInv` says at which places of the loop there are bytes to answer and an event
in hand; `ByteInv` is `ByteForEach` with the owner of the mutex in place of a cardinality;
`CarryInv` says that an event on its way is carried by one thread and was not posted before, which
makes an append an `Accept` of `WorkPool`. The refinement maps `custom_events` to the line of
`WorkPool` and the loop's thread to its one worker.

**LoopEvents.** An event is linked in the pending lists, is the one whose callback runs, or is
neither. `LinkInv` says how that goes with its flag `pending`, `LifeInv` how the flags go with its
memory (what is marked for deletion and still lives is pending), `ArmInv` that what is armed has
rounds left, `ListInv` that no event is linked twice and each in the list of its priority. With
them `NoUseAfterFree`, `WhereItIs` and the four counters are inductive as long as nobody deletes
a timer that was reset while the round still has to pass it: until then "not pending", on which a
delete frees at once, means "not linked". The history `misused` names the timers that were deleted so,
and the theorems say `misused = {} => ...`, for any users; the code keeps nobody from it, and
behind it `NoUseAfterFree` is false (section 5). `Misuse` says that `misused` never shrinks and stays empty
with `DelAfterReset` FALSE (`ProperUse`), which is what the two action properties assume.

**Nio.** `EpollInv` ties the events of the io to what epoll watches and says that only a ready
io is active; `LifeInv` says that a ready io has its descriptor open and no close behind it, and
that nobody is inside a write or in the connection's half of a round when it is not ready
(this is where `Overlap` is needed); `CloseInv` counts the calls of `io_close` against the place
of the loop's thread; `StreamInv` is `StreamIntact`. Short writes are `SendPart`: a sequence sent in
part and the rest queued is the sequence.

**Co.** `ListInv` gives each coroutine one place in the list, `NodeInv` ties the local variable of
`entry` to the coroutine that has the thread. `Turn` is the place whose coroutine is next, and
`TurnInv` says that whoever was resumed since `c` was comes after `c` in the ring that starts there
(`Before(i, j, k)` is the order of that ring). Adding at the end, taking out on return and moving
`cur_` on each keep it; `TakesTurns` is what it says of the coroutine resumed next.

**Kvdb.** For any number of sectors above one and of nodes in a sector, any values, and any names
of which there are fewer than all sectors but one have nodes (`FewNames`). With more names than
that a collection can end without room: the set is refused, leaves `gc_request` on, and the next
one takes the reserve sector (section 5), so the hypothesis is about the code and not about the
proof. What the program has still to do is the stack `todo`, which is as deep as the flash is
large. The invariant is a list of forms, one for each place of the code, such as `IsSetHeader` or
`IsMoveDelete`: a form says how the stack looks there, and what holds of the flash, the cache, the
request for a collection and the expected values. `Data(E, old, fresh, gone, last)` is the part
they share: apart from the nodes named `old` and `fresh` each name has the whole node that
holds its value in `E`, and the cache points at no other. A form whose sector is being
collected adds that the sectors before it are clean and that another one has room for what is
left in it (`Room`). `Places` tells the form from the task on top of the stack, so each action has
one lemma for each form it can be met in, which leads to the next form.

The hard step is the end of a collection: a set that asked for it must then find a node to
write. `RoomLeft` counts. Every name has at most one node, a collected sector holds live
nodes only, so if nothing but the reserve were left the live nodes would fill all sectors but
one, against `FewNames`. The reserve itself is `Spare`, and between calls it is what
`RoomForGc` says.

A power failure leaves the flash as the last write left it, but for the node whose header was
to be written next, which it may hide. `CrashHolds` shows of each form that a value of each name is there all the same.
That is the flash the next start is given; what the start makes of it is not proved.

**Tsdb.** For any number of sectors above one, any room and any sizes of blobs below it, and any
number of logs and power failures. `Inv` says where the blobs of a sector lie: `Placed` computes
each address from the blob above it, with a torn log counted as the longest, and the lemmas
`DataAfterPlaced` and `RemainAfterPlaced` say that the traversal of a start finds the same place
and never more room than there is. So `Knows`, what `cur_sec` holds of the current sector, is
true after every start and at every write of a call that relies on it, and no blob is written
over another: this is `ConsistentAlways`, which does not restrict the failures.

`RingInv` is the second invariant, inductive beside `Inv`. `Good(f, c, e)` is the ring of a
database in order: `c` is the current sector, the EMPTY ones lie behind it up to `e`, all others
are FULL, and ids increase from sector to sector (`Ordered`) in the order `Ahead(c, s, t)` of the ring
that ends in `c`. `Partial` says what a clean, or a start, finds and leaves of a ring of which it has
formatted a part, the sectors below `at`, and
`Discard` says why it may be: the user asked for it, or there is no log at all. `EndsOK` is about
the two end nodes of a header: a reader finds the last node of a FULL sector, and a USING one
has no finished end node. A start must find in the stores of the sectors what the calls left:
`GoodPasses` says that it accepts a ring in order and chooses the same current sector and the
same last EMPTY one, `PartialPasses` that a half formatted ring it does not format over again is
in order too, if it is not `Split`. The hypothesis is `CalmCrashes`: the power does not fail between
an end node and FULL, nor between the erasure of a sector and its magic word, nor while a clean has
left the state `Split`. Without any of the three the theorems are false,
by the departures that section 5 describes; a clean itself may come at any time.
`DropsOldestAlways` then looks at the four actions that erase a sector.

`TimeInv` is the third invariant, under the same hypothesis: times do not fall as ids grow
(`Monotone`), the `start` in a header is not after the logs of its sector, the end node of a FULL
sector holds the time of its last log (`EndTimes`), and `cur_sec` the times of the current sector
(`CurTimes`). `EachTSLAlways` needs it, as a FULL sector has a log (`EndTimes`) and so only a USING one
may show a node that was never written. Besides, it needs that each sector shows all its nodes
(`LogsInAll`), each node once and in order whatever `stale` is (`SectorRead`), that the positions of
`Ring` from the oldest sector agree with `Ahead` (`RingOrder`), and what `FlattenSeq` returns
(`FlattenSorted`).

`SearchFinds` is the correctness of the binary search: where the nodes before a time
come first, it returns the first node that is not. Its proof gives a solution of the recursion
in closed form and shows by induction that there is no other. The rest follows the query:
`VisitedFacts` says that the sectors it passes over before the first match hold no log of the
range, which is where `Covered` is needed, and that an EMPTY sector comes after all others
(`EmptyLast`), `UptoFacts` that an end at the first log after the range loses none. `AnyRangeAlways`
says the result for all natural numbers as the beginning and all integers as the end,
`RangeExactAlways` for those the run tries.

`DataAfter`, `RemainAfter`, `FlattenSeq` and the binary search are recursive functions. The induction theorems of the
library take a predicate as a parameter, so `Induction` states the principle for a set of natural
numbers instead; it follows from the library's minimal elements of well-founded relations.

Only model-checked:

- Everything about liveness: it needs ENABLED, which the prover does not handle.
- `RecoveryKeeps` of `Kvdb`, and `NoValueLost` during a start after a power failure and behind it.
  They hold within the bounds of the run and not for all values of the constants. With three
  sectors of two nodes, three names and one value TLC finds `NoValueLost` violated some calls
  after one failure and its recovery: the failure leaves a torn node and a second copy in a
  sector that is not marked dirty, so no collection takes their room back, a set is refused,
  and the next one takes the reserve sector (section 5). A second failure during a recovery
  violates it too.

## 5. Departures of the code from what it says

Three runs end in a violation, each of a sentence in the repository:

1. `thpool_two_pools`: `threads_keepalive` is one for all pools (`thpool.cpp:37`), so
   destroying one of two pools ends the workers of the other, against the example in
   `thpool.h:149`.
2. `loop_reset_then_del`: `timer_reset` clears `pending` of a timer that is still linked
   (`event.hpp:203`); a delete in the same round then frees it at once, against `loop.cpp:69`.
3. `kvdb_hidden`: the recovery ends its walk at the first unfinished node
   (`fdb_kvdb.cpp:1486`) and does not get to a node prepared for deletion behind it, against line
   1471. The name is absent until a later start, and a collection may then bring the old value
   back over a newer one.

Further ones were met on the models and are kept out of the passing runs by the bounds and
guards that section 3 names.

*Thread pools.*
- The last worker signals one thread (`thpool.cpp:373`), so a second thread in `thpool_wait` sleeps
  on, although `thpool.h:74` says the caller continues.
- A worker takes its `SIGUSR1` after `thpool_resume` and is held although nobody asks; a worker
  held inside a critical section keeps its mutex, so `thpool_add_work` does not return before
  resume; the last worker unlocks `thcount_lock` after `thpool_destroy` may have freed it.
- Tasks left in a stopped `ThreadPool` leave their futures open; `stop` misses a worker that is
  about to block.

*Databases.*
- A set that is refused leaves `gc_request` on (`fdb_kvdb.cpp:985`), and the next one is given the
  last empty sector, against the comment at line 1629 (`RoomForGc` in `Kvdb` states it). Some
  calls later `do_gc` formats a sector whose live node found no place.
- `Tsdb`: a failure after the end node and before FULL lets the start go on filling the sector,
  and readers later believe the first, outdated end node (`fdb_tsdb.cpp:300`). A failure between
  FULL and the erasure of the next sector leaves every sector FULL: the start finds no current
  sector (308), and the next append writes over the header of the first one. A failure between
  erasure and magic word makes the start format the whole database (233), and one during both
  end nodes of a header meets `FDB_ASSERT(0)` (192).
- `Tsdb`: a start takes the sector behind the last EMPTY one for the oldest (`fdb_tsdb.cpp:774`; line
  773 calls it so, as does `fdb_def.h:318`). A clean in a database whose last sector is EMPTY, ended by
  a power failure behind its first sector, leaves EMPTY sectors on both sides of a FULL one
  (`Split`); the start accepts them and takes the first EMPTY sector for the current and the
  oldest one. From then on new logs are read before old ones, a query by the time of an old log
  finds nothing, and when the first sector is full the next one is erased although an EMPTY one
  is left. With `SplitCrashes` TRUE in `Tsdb.cfg`, `EachTSL`, `RangeExact` and `DropsOldest` each show it.
- `fdb_tsl_iter` calls itself the iterator "for each TSL" (`fdb_tsdb.cpp:403`) and takes every USING
  sector for one that "has TSL" (430), but it tests for the end behind the node (438): in a sector
  that a power failure left USING without a node it calls back for one that was never written
  (`NoLog` in `Iter`).
- A query by time that begins between the last log of one sector and the first of the next
  returns nothing (489), and a torn log, whose time reads as 0, ends a query.

*Event I/O.*
- With `Overlap` TRUE a write of another thread that passed the test of `closed` makes the closed
  io ready again (`nio.cpp:462`): `ReadyMeansOpen` is violated after eight steps, although
  `loop.hpp:258` calls `io_write` thread-safe.
- Two deferred closes leave the first one's timer behind (541), and it closes the next connection
  on the descriptor.
- The write callback runs under `write_mutex` (482), a plain mutex although `loop.hpp:258` calls it
  recursive: a callback that writes blocks its thread for good.

*Coroutine scheduler.*
- A run that begins again before a stopper has woken keeps it waiting (`co.cpp:116`), a coroutine
  that stops its own scheduler waits for itself, and `co_new` refuses every stack size between
  its minimum and its maximum (`_co.cpp:179`).

*evpp, read but not modelled.* `EventLoopThread::stop` before `run` works on a null loop; `start`
that waits returns on `kRunning`, which is set before `loop_run` has read the loop; a second
waiting `stop` returns without waiting; `EventLoopThreadPool::stop` writes over `kStopped`; an
auto-freed loop may be gone while `loop_stop` still uses it (`loop.cpp:419`).

## 6. What is not modelled

- evpp: object layer over the loop. Its threads and pools come next (section 2); what its
  clients, servers and channels add to `Nio` is bookkeeping on one thread and a reconnect policy.
- The routine thread: one thread and one status, with the races of `CxxPool`.
- Event I/O beyond one stream descriptor: accepting sockets, SSL, UDP, the heartbeat, the
  pollers other than epoll.
- Time-series database: `fdb_tsl_set_status` (one byte no other operation depends on), options
  that must be set before the start, writes that fail.
- Coroutines: the switch of stacks, `co_destroy`, failed allocations.
- Key/value database: default nodes, nodes of several lengths, automatic update, failed writes.
- Locks, semaphores, shared memory, pipes: thin wrappers of the kernel's objects.
- The concurrent queue, argument parsing, JSON, XML, the HTTP library: third-party headers. They
  are most of the repository's lines, so the models cover a small share of the lines and most
  of the stateful code the library's authors wrote.
- Containers, ring buffers, memory: sequential data structures; the models use them as
  sequences and sets.
- Strings, encodings, checksums, cryptography, mathematics, time, files, ini: pure functions
  or I/O without state that outlives a call.
- In the modelled parts: allocation failures, the file and flash ports below a write, the
  net log and the net map of the loop, the number of threads a user asks for.
