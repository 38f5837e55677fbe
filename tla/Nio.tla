-------------------------------- MODULE Nio --------------------------------
(***************************************************************************)
(* One io_t of the event loop: event/nio.cpp and the io_* functions of     *)
(* event/loop.cpp.  The loop's thread reads, writes and closes it; other   *)
(* threads call io_write and io_close, which loop.hpp calls thread-safe.   *)
(* The io_t belongs to a file descriptor, so the next connection that gets *)
(* the same descriptor finds the same io_t.                                *)
(*                                                                         *)
(* A buffer is the sequence of its two halves, which is enough for partial *)
(* writes; write_queue is the sequence of the halves still to be written.  *)
(* The sections under write_mutex are one step each.  What the peer and    *)
(* the kernel do (readable, writable, short writes, errors) is arbitrary.  *)
(* The callbacks make their calls in the phases where the user's code can  *)
(* run; the write callback makes none, because it runs under write_mutex.  *)
(* SSL, UDP and listening descriptors are left out.                        *)
(***************************************************************************)
EXTENDS Naturals, Sequences, SequencesExt

CONSTANTS Threads,   \* the threads other than the loop's
          Messages,  \* the buffers passed to io_write
          MaxConns,  \* bound: connections on the descriptor, one after the other
          MaxTimers, \* bound: close timers alive at a time
          MaxPosted, \* bound: close events posted and not yet handled
          Overlap    \* whether io_write of another thread may overlap the end
                     \* of the connection it writes to

ASSUME NioAssumption == /\ MaxConns \in Nat \ {0} /\ MaxTimers \in Nat \ {0}
                        /\ MaxPosted \in Nat /\ Overlap \in BOOLEAN

Conns == 1..MaxConns
Halves(m) == <<<<m, 1>>, <<m, 2>>>>

VARIABLES io,        \* the io_t: flags, id, events, close_timer
          fdOpen,    \* whether the descriptor is open
          watched,   \* what epoll watches for the descriptor
          queue,     \* io->write_queue
          revents,   \* io->revents
          pending,   \* io->pending: the loop's round still has to handle it
          phase,     \* where the loop's thread is
          ret,       \* where io_close returns to
          live,      \* the close timers in the heap: the connection each was set for
          posted,    \* the ids in the close events posted by other threads
          pc,        \* where each other thread is
          carry,     \* the buffer it writes
          accepted,  \* history: what io_write took for this connection
          wire,      \* history: what the kernel took for it
          asked,     \* history: calls of io_close for it (0, 1 or more)
          closeCbs   \* history: calls of close_cb for it

kernel == <<fdOpen, watched>>
loopVars == <<phase, ret, revents, pending>>
threadVars == <<pc, carry>>
data == <<queue, accepted, wire>>
closing == <<live, posted, asked, closeCbs>>
vars == <<io, kernel, loopVars, threadVars, data, closing>>

\* io_ready
Ready(i) == [i EXCEPT !.ready = TRUE, !.closed = FALSE, !.close = FALSE,
                      !.error = FALSE, !.connect = FALSE, !.id = i.id + 1,
                      !.events = {}, !.closeTimer = 0]

\* io_get of a new descriptor
Get(i) == IF i.ready THEN i ELSE Ready(i)

\* io_add: an io that is not ready is made ready first
Add(i, evs) == [Get(i) EXCEPT !.active = TRUE, !.events = @ \union evs]

\* iowatcher_add_event after io_add(i, evs): the first event adds the descriptor
\* to epoll, the others modify an entry that has to be there.
Watch(i, evs) == IF evs \subseteq Get(i).events THEN watched
                 ELSE IF Get(i).events = {} THEN evs
                 ELSE IF watched = {} THEN {}
                 ELSE watched \union evs

\* hio_del: an io without events is inactive.
Del(i, evs) == IF ~i.active THEN i
               ELSE [i EXCEPT !.events = @ \ evs,
                              !.active = i.events \ evs # {}]

NewIo == [ready |-> FALSE, closed |-> FALSE, close |-> FALSE, error |-> FALSE,
          connect |-> FALSE, active |-> FALSE, id |-> 0, events |-> {},
          closeTimer |-> 0]

\* Before the first connection
Init == /\ io = NewIo /\ fdOpen = FALSE /\ watched = {}
        /\ queue = <<>> /\ revents = {} /\ pending = FALSE
        /\ phase = "poll" /\ ret = "poll"
        /\ live = [n \in 1..MaxTimers |-> 0]
        /\ posted = <<>>
        /\ pc = [t \in Threads |-> "idle"]
        /\ carry = [t \in Threads |-> <<>>]
        /\ accepted = <<>> /\ wire = <<>> /\ asked = 0 /\ closeCbs = 0

Goto(p) == phase' = p /\ UNCHANGED <<ret, revents, pending>>

\* io_close is called and will return to r; more than two calls count as two.
CallClose(r) == /\ phase' = "close" /\ ret' = r
                /\ asked' = IF asked = 2 THEN 2 ELSE asked + 1
                /\ UNCHANGED <<revents, pending, live, posted, closeCbs>>

\* A buffer nobody has written to this connection yet
Fresh(m) == /\ ~Contains(accepted, <<m, 1>>)
            /\ \A t \in Threads : carry[t] # Halves(m)

-----------------------------------------------------------------------------
(* Faulty variants, used to test the properties.                           *)

\* After a short write the whole buffer is queued.
WriteTryWhole(m) ==
    /\ queue = <<>> /\ fdOpen
    /\ \E k \in 0..2 :
          /\ wire' = wire \o SubSeq(Halves(m), 1, k)
          /\ queue' = IF k = 2 THEN <<>> ELSE Halves(m)
          /\ IF k = 2 THEN UNCHANGED <<io, watched>>
             ELSE io' = Add(io, {"W"}) /\ watched' = Watch(io, {"W"})
    /\ accepted' = accepted \o Halves(m)

\* The write event is deleted although something is queued.
HandleWriteDeletes ==
    /\ phase = "write"
    /\ revents' = {}
    /\ IF "W" \in io.events \intersect revents
       THEN /\ phase' = IF io.connect THEN "connect" ELSE "nio_write"
            /\ io' = [io EXCEPT !.events = @ \ {"W"}, !.connect = FALSE]
            /\ watched' = watched \ {"W"}
       ELSE phase' = "poll" /\ UNCHANGED <<io, watched>>
    /\ UNCHANGED <<fdOpen, ret, pending, threadVars, data, closing>>

\* nio_write does not reset close before it calls io_close again.
DrainedKeepsClose == /\ phase = "drained"
                     /\ phase' = IF io.close THEN "close" ELSE "poll"
                     /\ ret' = "poll"
                     /\ UNCHANGED <<io, revents, pending, kernel, threadVars, data,
                                    closing>>

\* The deferred close sets no timer.
CloseLaterForEver == /\ phase = "close" /\ ~io.closed
                     /\ queue # <<>> /\ ~io.error /\ ~io.close
                     /\ io' = [io EXCEPT !.close = TRUE]
                     /\ Goto(ret)
                     /\ UNCHANGED <<kernel, threadVars, data, closing>>

-----------------------------------------------------------------------------
(* io_write and io_close, as called by the user in the loop's thread or in *)
(* another one.                                                            *)

\* io_write under write_mutex.  With an empty queue it tries to write k of the
\* two halves, and queues the rest; behind others the buffer is queued whole.
Accept(m) == accepted' = accepted \o Halves(m)

WriteTry(m) ==
    /\ queue = <<>> /\ fdOpen
    /\ \E k \in 0..2 :
          /\ wire' = wire \o SubSeq(Halves(m), 1, k)
          /\ queue' = SubSeq(Halves(m), k + 1, 2)
          /\ IF k = 2 THEN UNCHANGED <<io, watched>>
             ELSE io' = Add(io, {"W"}) /\ watched' = Watch(io, {"W"})
    /\ Accept(m)

WriteBehind(m) == /\ queue # <<>>
                  /\ queue' = queue \o Halves(m)
                  /\ Accept(m)
                  /\ UNCHANGED <<io, watched, wire>>

\* The kernel refuses the write: an error, or 0 bytes.
WriteRefused == /\ queue = <<>>
                /\ \E e \in BOOLEAN : io' = [io EXCEPT !.error = @ \/ e]
                /\ UNCHANGED <<watched, data>>

\* The phases in which callbacks run in the loop's thread
UserPhases == {"poll", "readcb"}

LoopWrite(m) ==
    /\ phase \in UserPhases /\ ~io.closed /\ io.ready /\ Fresh(m)
    /\ \/ (WriteTry(m) \/ WriteBehind(m)) /\ UNCHANGED <<loopVars, closing>>
       \/ WriteRefused /\ CallClose(phase)
    /\ UNCHANGED <<fdOpen, threadVars>>

LoopClose == /\ phase \in UserPhases /\ ~io.closed /\ io.ready
             /\ asked < 2
             /\ CallClose(phase)
             /\ UNCHANGED <<io, kernel, threadVars, data>>

\* Another thread tests closed before it locks write_mutex ...
ThreadTest(t, m) == /\ pc[t] = "idle" /\ ~io.closed /\ io.ready /\ Fresh(m)
                    /\ pc' = [pc EXCEPT ![t] = "write"]
                    /\ carry' = [carry EXCEPT ![t] = Halves(m)]
                    /\ UNCHANGED <<io, kernel, loopVars, data, closing>>

ThreadWrite(t, m) ==
    /\ pc[t] = "write" /\ carry[t] = Halves(m)
    /\ \/ (WriteTry(m) \/ WriteBehind(m)) /\ pc' = [pc EXCEPT ![t] = "idle"]
       \/ WriteRefused /\ pc' = [pc EXCEPT ![t] = "close"]
    /\ carry' = [carry EXCEPT ![t] = <<>>]
    /\ UNCHANGED <<fdOpen, loopVars, closing>>

\* io_close in another thread posts an event that names the connection.
ThreadClose(t) ==
    /\ pc[t] = "close" \/ (pc[t] = "idle" /\ io.ready)
    /\ Len(posted) < MaxPosted
    /\ posted' = IF io.closed THEN posted ELSE Append(posted, io.id)
    /\ pc' = [pc EXCEPT ![t] = "idle"]
    /\ UNCHANGED <<io, kernel, loopVars, carry, data, live, asked, closeCbs>>

-----------------------------------------------------------------------------
(* The loop's thread: a round finds the io ready and handles it.           *)

\* iowatcher_poll_events; an error or hang-up reports both events.
Poll == /\ phase = "poll" /\ watched # {} /\ ~pending
        /\ \E r \in SUBSET {"R", "W"} : /\ r \intersect watched # {}
                                       /\ revents' = revents \union r
        /\ pending' = TRUE
        /\ UNCHANGED <<io, kernel, phase, ret, threadVars, data, closing>>

\* hloop_process_pendings skips an io that is no longer active.
Handle == /\ phase = "poll" /\ pending
          /\ pending' = FALSE
          /\ phase' = CASE ~io.active -> "poll"
                       [] io.active /\ "R" \in io.events \intersect revents -> "read"
                       [] OTHER -> "write"
          /\ UNCHANGED <<io, kernel, ret, revents, threadVars, data, closing>>

\* nio_read: nothing more to read, data, or the end of the connection
Read == /\ phase = "read"
        /\ \/ /\ fdOpen
              /\ Goto("write") \/ Goto("readcb")
              /\ UNCHANGED <<io, closing>>
           \/ /\ \E e \in BOOLEAN : /\ fdOpen \/ e
                                   /\ io' = [io EXCEPT !.error = @ \/ e]
              /\ CallClose("write")
        /\ UNCHANGED <<kernel, threadVars, data>>

\* The read callback returns; if the buffer was full nio_read reads again.
ReadCbReturn == /\ phase = "readcb"
                /\ Goto("write") \/ Goto("read")
                /\ UNCHANGED <<io, kernel, threadVars, data, closing>>

\* The second half of hio_handle_events
HandleWrite ==
    /\ phase = "write"
    /\ revents' = {}
    /\ IF "W" \in io.events \intersect revents
       THEN /\ phase' = IF io.connect THEN "connect" ELSE "nio_write"
            /\ IF queue = <<>>
               THEN /\ io' = [io EXCEPT !.events = @ \ {"W"}, !.connect = FALSE]
                    /\ watched' = watched \ {"W"}
               ELSE io' = [io EXCEPT !.connect = FALSE] /\ UNCHANGED watched
       ELSE phase' = "poll" /\ UNCHANGED <<io, watched>>
    /\ UNCHANGED <<fdOpen, ret, pending, threadVars, data, closing>>

\* nio_connect; the connect callback calls io_read.
Connect == /\ phase = "connect"
           /\ \/ /\ Goto("poll")
                 /\ io' = Add(io, {"R"}) /\ watched' = Watch(io, {"R"})
                 /\ UNCHANGED closing
              \/ /\ io' = [io EXCEPT !.error = TRUE]
                 /\ CallClose("poll") /\ UNCHANGED watched
           /\ UNCHANGED <<fdOpen, threadVars, data>>

\* nio_write: k halves leave the queue.  What stops it is the end of the queue,
\* a full socket, or an error.
NioWrite == /\ phase = "nio_write"
            /\ \E k \in 0..Len(queue) :
                  /\ wire' = wire \o SubSeq(queue, 1, k)
                  /\ queue' = SubSeq(queue, k + 1, Len(queue))
            /\ \/ /\ Goto(IF queue' = <<>> THEN "drained" ELSE "poll")
                  /\ UNCHANGED <<io, closing>>
               \/ /\ queue' # <<>>
                  /\ \E e \in BOOLEAN : io' = [io EXCEPT !.error = @ \/ e]
                  /\ CallClose("poll")
            /\ UNCHANGED <<kernel, threadVars, accepted>>

\* A close that waited for the queue goes on, after write_mutex is unlocked.
Drained == /\ phase = "drained"
           /\ IF io.close
              THEN /\ io' = [io EXCEPT !.close = FALSE]
                   /\ phase' = "close" /\ ret' = "poll"
                   /\ UNCHANGED <<revents, pending>>
              ELSE Goto("poll") /\ UNCHANGED io
           /\ UNCHANGED <<kernel, threadVars, data, closing>>

-----------------------------------------------------------------------------
(* io_close in the loop's thread, the timers and the posted close events.  *)

\* The queue is not empty: the close waits for it, for a limited time.
CloseLater == /\ phase = "close" /\ ~io.closed
              /\ queue # <<>> /\ ~io.error /\ ~io.close
              /\ \E n \in 1..MaxTimers :
                    /\ live[n] = 0
                    /\ live' = [live EXCEPT ![n] = io.id]
                    /\ io' = [io EXCEPT !.close = TRUE, !.closeTimer = n]
              /\ Goto(ret)
              /\ UNCHANGED <<kernel, threadVars, data, posted, asked, closeCbs>>

\* closed is set, then io_done takes the io out of the loop.
CloseNow == /\ phase = "close" /\ ~io.closed
            /\ queue = <<>> \/ io.error \/ io.close
            /\ Overlap \/ \A t \in Threads : pc[t] # "write"
            /\ io' = Del([io EXCEPT !.closed = TRUE, !.ready = FALSE], {"R", "W"})
            /\ watched' = {}
            /\ Goto("done")
            /\ UNCHANGED <<fdOpen, threadVars, data, closing>>

CloseAgain == /\ phase = "close" /\ io.closed
              /\ Goto(ret)
              /\ UNCHANGED <<io, kernel, threadVars, data, closing>>

\* io_done empties the queue.
Done == /\ phase = "done"
        /\ queue' = <<>>
        /\ Goto("closecb")
        /\ UNCHANGED <<io, kernel, threadVars, accepted, wire, closing>>

\* __close_cb and close(fd).  An io that was made ready again in the meantime
\* has no callback.
CloseCb == /\ phase = "closecb"
           /\ live' = [n \in 1..MaxTimers |-> IF n = io.closeTimer THEN 0 ELSE live[n]]
           /\ io' = [io EXCEPT !.closeTimer = 0]
           /\ closeCbs' = IF io.ready THEN closeCbs ELSE closeCbs + 1
           /\ fdOpen' = FALSE /\ watched' = {}
           /\ Goto(ret)
           /\ UNCHANGED <<threadVars, data, posted, asked>>

\* A close timer names its io_t, not the connection; it runs once.
CloseTimeout(n) == /\ phase = "poll" /\ live[n] # 0
                   /\ io' = [io EXCEPT !.error = TRUE]
                   /\ phase' = "close" /\ ret' = "poll"
                   /\ live' = [live EXCEPT ![n] = 0]
                   /\ UNCHANGED <<kernel, revents, pending, threadVars, data, posted,
                                  asked, closeCbs>>

\* The timers for connecting and for keep-alive
Timeout == /\ phase = "poll" /\ io.ready /\ ~io.closed
           /\ io' = [io EXCEPT !.error = TRUE]
           /\ CallClose("poll")
           /\ UNCHANGED <<kernel, threadVars, data>>

\* hio_close_event_cb
PostedClose == /\ phase = "poll" /\ posted # <<>>
               /\ posted' = Tail(posted)
               /\ IF Head(posted) = io.id
                  THEN /\ phase' = "close" /\ ret' = "poll"
                       /\ asked' = IF asked = 2 THEN 2 ELSE asked + 1
                  ELSE UNCHANGED <<phase, ret, asked>>
               /\ UNCHANGED <<io, kernel, revents, pending, threadVars, data, live,
                              closeCbs>>

\* A new connection gets the descriptor: accepted and read from, or connecting.
Open == /\ phase = "poll" /\ ~fdOpen /\ io.id < MaxConns
        /\ \/ io' = Add(io, {"R"}) /\ watched' = {"R"}
           \/ /\ io' = [Add(io, {"W"}) EXCEPT !.connect = TRUE]
              /\ watched' = {"W"}
        /\ fdOpen' = TRUE
        /\ revents' = IF io.ready THEN revents ELSE {}
        /\ accepted' = <<>> /\ wire' = <<>> /\ asked' = 0 /\ closeCbs' = 0
        /\ UNCHANGED <<phase, ret, pending, threadVars, queue, live, posted>>

\* What the loop's thread does once it has begun to handle the io
InCallback == \/ Read \/ ReadCbReturn \/ HandleWrite \/ Connect
              \/ NioWrite \/ Drained
              \/ CloseLater \/ CloseNow \/ CloseAgain \/ Done \/ CloseCb

Loop == \/ Poll \/ Handle \/ InCallback \/ PostedClose
        \/ \E n \in 1..MaxTimers : CloseTimeout(n)

User == \/ \E m \in Messages : LoopWrite(m)
        \/ LoopClose \/ Open \/ Timeout

Thread(t) == \/ \E m \in Messages : ThreadTest(t, m) \/ ThreadWrite(t, m)
             \/ ThreadClose(t)

Next == Loop \/ User \/ \E t \in Threads : Thread(t)

Spec == Init /\ [][Next]_vars

\* The loop's thread and the other threads run; each round of the loop handles
\* the io, the posted events and the timers that have run out.  The peer stops
\* sending now and then, and takes some data now and then.
Fairness == /\ WF_vars(InCallback)
            /\ SF_vars(Read /\ phase' # "readcb")
            /\ SF_vars(PostedClose)
            /\ SF_vars(\E n \in 1..MaxTimers : CloseTimeout(n))
            /\ \A t \in Threads :
                  WF_vars(pc[t] # "idle" /\ Thread(t))

FairSpec == Spec /\ Fairness

-----------------------------------------------------------------------------
\* The io_t, the loop's thread and the other threads have the states named above.
TypeOK == /\ io \in [ready : BOOLEAN, closed : BOOLEAN, close : BOOLEAN,
                     error : BOOLEAN, connect : BOOLEAN, active : BOOLEAN,
                     id : 0..MaxConns, events : SUBSET {"R", "W"},
                     closeTimer : 0..MaxTimers]
          /\ fdOpen \in BOOLEAN /\ watched \subseteq {"R", "W"}
          /\ \A s \in {queue, accepted, wire} : s \in Seq(Messages \X {1, 2})
          /\ revents \subseteq {"R", "W"} /\ pending \in BOOLEAN
          /\ phase \in UserPhases \union {"read", "write", "connect", "nio_write",
                                         "drained", "close", "done", "closecb"}
          /\ ret \in UserPhases \union {"write"}
          /\ live \in [1..MaxTimers -> 0..MaxConns]
          /\ posted \in Seq(Conns)
          /\ pc \in [Threads -> {"idle", "write", "close"}]
          /\ asked \in 0..2 /\ closeCbs \in Nat

\* The peer reads a prefix of what io_write accepted for the connection, in the
\* order of the calls; while the connection lives nothing accepted is lost or
\* queued twice (io_write, nio_write, io_done).
StreamIntact == /\ IsPrefix(wire, accepted)
                /\ io.ready => accepted = wire \o queue

\* While something is queued epoll watches the descriptor for writing: io_write
\* adds the event for the first buffer only, and hio_handle_events deletes it.
WriteWatched == io.ready /\ queue # <<>> => "W" \in watched

\* A connection that io_close is called for once, and that meets no error, is
\* closed only when all that was accepted for it has been sent.
GracefulClose ==
    [][closeCbs' > closeCbs /\ ~io.error /\ asked < 2 => wire = accepted]_vars

\* close_cb is called at most once for a connection, although io_close is called
\* by the user, by other threads, by timers and by failing reads and writes.
ClosedOnce == closeCbs <= 1

\* What holds in every state: the types, a watched descriptor for a queue that is
\* not empty, and at most one close_cb (nio.cpp).
Consistent == TypeOK /\ WriteWatched /\ ClosedOnce

\* A connection that io_close was called for is closed in the end, whichever
\* thread called, and although the peer may never read.
CloseCompletes ==
    \A c \in Conns : io.id = c /\ (asked > 0 \/ Contains(posted, c))
                         ~> closeCbs = 1 \/ io.id # c

\* loop.hpp: "io_write is thread-safe, locked by recursive_mutex, allow to be
\* called by other threads."  Whatever they call, an io outside of io_close is
\* ready only while its descriptor is open.
ReadyMeansOpen == phase = "poll" => (io.ready => fdOpen)
=============================================================================
