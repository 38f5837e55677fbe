------------------------------- MODULE ThPool -------------------------------
(***************************************************************************)
(* The C thread pool of src/src/sdk/thread/thpool.cpp.                     *)
(*                                                                         *)
(* Threads: the workers run thread_do; one owner calls thpool_init and     *)
(* thpool_destroy (its program counter is phase); the clients call         *)
(* thpool_add_work, thpool_wait, thpool_pause and thpool_resume.           *)
(*                                                                         *)
(* The mutexes rwmutex and thcount_lock have an owner, because a worker    *)
(* can be stopped by SIGUSR1 while it holds one.  A thread takes the mutex *)
(* in LockQueue or LockCount and its next action is the critical section.  *)
(* The mutex inside the binary semaphore is not represented: each bsem     *)
(* operation is one step.  A condition variable is the set of threads      *)
(* blocked on it.                                                          *)
(***************************************************************************)
EXTENDS Naturals, Sequences, FiniteSets

CONSTANTS Workers,   \* threads of the pool (num_threads of them)
          Clients,   \* threads that use the pool
          Jobs,      \* jobs the clients may add; a job is its malloc'ed record
          NoJob,     \* NULL, for a job
          Nobody,    \* the owner of a free mutex
          MaxPauses,     \* bound: number of calls of thpool_pause
          SpuriousWakes  \* whether condition variables may wake spuriously

ASSUME ThPoolAssumption ==
    /\ IsFiniteSet(Workers)
    /\ Workers \intersect Clients = {}
    /\ Nobody \notin Workers \union Clients
    /\ NoJob \notin Jobs
    /\ MaxPauses \in Nat
    /\ SpuriousWakes \in BOOLEAN

VARIABLES
    keepalive,  \* threads_keepalive, one for all the pools of the process
    onHold,     \* threads_on_hold, one for all the pools of the process
    phase,      \* how far the owner is: none, init, ready, destroying, freed
    queue,      \* jobqueue, front first; jobqueue.len is its length
    bsemV,      \* has_jobs->v
    asleep,     \* the workers blocked on has_jobs->cond
    alive,      \* num_threads_alive
    working,    \* num_threads_working
    rwmutex,    \* the owner of jobqueue.rwmutex
    thcount,    \* the owner of thcount_lock
    allIdle,    \* the clients blocked on threads_all_idle
    pc,         \* where each worker is in thread_do
    job,        \* job_p of each worker
    cpc,        \* where each client is: outside, in add_work (push) or in wait
    carry,      \* newjob of a client inside thpool_add_work
    sigPending, \* the workers with a SIGUSR1 not yet delivered
    held,       \* the workers inside the signal handler thread_hold
    pauses,     \* number of calls of thpool_pause so far
    resumed,    \* history: no pause was asked since the last thpool_resume
    accepted,   \* history: the jobs ever appended to the queue
    done        \* history: the jobs whose function has returned

globals == <<keepalive, onHold>>
bsem    == <<bsemV, asleep>>
counts  == <<alive, working>>
locks   == <<rwmutex, thcount>>
workers == <<pc, job>>
clients == <<cpc, carry, allIdle>>
signals == <<sigPending, held, pauses, resumed>>
history == <<accepted, done>>
vars == <<globals, phase, queue, bsem, counts, locks, workers, clients,
          signals, history>>

-----------------------------------------------------------------------------
Init == /\ keepalive = FALSE /\ onHold = FALSE
        /\ phase = "none"
        /\ queue = <<>>
        /\ bsemV = 0 /\ asleep = {}
        /\ alive = 0 /\ working = 0
        /\ rwmutex = Nobody /\ thcount = Nobody
        /\ pc = [w \in Workers |-> "none"]
        /\ job = [w \in Workers |-> NoJob]
        /\ cpc = [c \in Clients |-> "idle"]
        /\ carry = [c \in Clients |-> NoJob]
        /\ allIdle = {}
        /\ sigPending = {} /\ held = {} /\ pauses = 0 /\ resumed = TRUE
        /\ accepted = {} /\ done = {}

-----------------------------------------------------------------------------
(* Variants with a fault a programmer could plausibly make.  They are not    *)
(* part of the model; each property is checked to fail for one of them.      *)

\* The last worker leaves without signalling threads_all_idle.
NoSignalAllIdle == UNCHANGED allIdle

\* bsem_post: v becomes 1 and one of the blocked workers, if any, is woken.
BsemPost == /\ bsemV' = 1
            /\ \/ asleep = {} /\ asleep' = {}
               \/ \E w \in asleep : asleep' = asleep \ {w}

\* pthread_cond_signal(&threads_all_idle): wakes one of the clients, if any.
SignalAllIdle == \/ allIdle = {} /\ allIdle' = {}
                 \/ \E c \in allIdle : allIdle' = allIdle \ {c}

Goto(w, l) == pc' = [pc EXCEPT ![w] = l]
CGoto(c, l) == cpc' = [cpc EXCEPT ![c] = l]

-----------------------------------------------------------------------------
(* More faulty variants.                                                   *)

\* A worker that finds no job goes back to the loop at once.
PullContinue(w) ==
    /\ pc[w] = "pull" /\ rwmutex = w
    /\ rwmutex' = Nobody
    /\ \/ queue = <<>> /\ Goto(w, "loop") /\ UNCHANGED <<queue, job, bsem>>
       \/ /\ queue # <<>>
          /\ job' = [job EXCEPT ![w] = Head(queue)]
          /\ queue' = Tail(queue)
          /\ Goto(w, "run")
          /\ IF Len(queue) > 1 THEN BsemPost ELSE UNCHANGED bsem
    /\ UNCHANGED <<globals, phase, counts, thcount, clients, signals, history>>

\* jobqueue_pull forgets that more than one job was queued.
PullNoPost(w) ==
    /\ pc[w] = "pull" /\ rwmutex = w
    /\ rwmutex' = Nobody
    /\ \/ queue = <<>> /\ Goto(w, "dec") /\ UNCHANGED <<queue, job>>
       \/ /\ queue # <<>>
          /\ job' = [job EXCEPT ![w] = Head(queue)]
          /\ queue' = Tail(queue)
          /\ Goto(w, "run")
    /\ UNCHANGED <<globals, phase, bsem, counts, thcount, clients, signals, history>>

\* thpool_destroy waits for the workers to be idle, not to be gone.
DestroyFreeIdle ==
    /\ phase = "destroying"
    /\ working = 0
    /\ queue' = <<>> /\ bsemV' = 0 /\ asleep' = {}
    /\ phase' = "freed"
    /\ UNCHANGED <<globals, counts, locks, workers, clients, signals, history>>

\* thpool_destroy posts the semaphore for one worker only.
DestroyPostOne ==
    /\ phase = "destroying"
    /\ alive # 0
    /\ bsemV' = 1 /\ UNCHANGED asleep
    /\ UNCHANGED <<globals, phase, queue, counts, locks, workers, clients,
                   signals, history>>

\* thpool_wait looks at the queue only.
WaitTestQueue(c) ==
    /\ cpc[c] = "wait" /\ thcount = c
    /\ thcount' = Nobody
    /\ \/ queue = <<>> /\ CGoto(c, "idle") /\ UNCHANGED allIdle
       \/ queue # <<>> /\ allIdle' = allIdle \union {c} /\ UNCHANGED cpc
    /\ UNCHANGED <<globals, phase, queue, bsem, counts, rwmutex, workers, carry,
                   signals, history>>

\* jobqueue_push links the new job at the front.
PushFront(c) ==
    /\ cpc[c] = "push" /\ rwmutex = c
    /\ queue' = <<carry[c]>> \o queue
    /\ BsemPost
    /\ accepted' = accepted \union {carry[c]}
    /\ rwmutex' = Nobody
    /\ carry' = [carry EXCEPT ![c] = NoJob]
    /\ CGoto(c, "idle")
    /\ UNCHANGED <<globals, phase, counts, thcount, workers, allIdle, signals, done>>

-----------------------------------------------------------------------------
(* The owner: thpool_init and thpool_destroy.                              *)

ThpoolInit == /\ phase = "none"
              /\ onHold' = FALSE /\ keepalive' = TRUE
              /\ phase' = "init"
              /\ pc' = [w \in Workers |-> "start"]
              /\ UNCHANGED <<queue, bsem, counts, locks, job, clients, signals,
                             history>>

\* thpool_init spins until every thread has announced itself.
InitReturn == /\ phase = "init"
              /\ alive = Cardinality(Workers)
              /\ phase' = "ready"
              /\ UNCHANGED <<globals, queue, bsem, counts, locks, workers,
                             clients, signals, history>>

\* The pool may be destroyed only when no other thread is inside one of its
\* functions; the clients make no call afterwards.
DestroyBegin == /\ phase = "ready"
                /\ \A c \in Clients : cpc[c] = "idle"
                /\ keepalive' = FALSE
                /\ phase' = "destroying"
                /\ UNCHANGED <<onHold, queue, bsem, counts, locks, workers,
                               clients, signals, history>>

\* One turn of either polling loop: bsem_post_all.
DestroyPost == /\ phase = "destroying"
               /\ alive # 0
               /\ bsemV' = 1 /\ asleep' = {}
               /\ UNCHANGED <<globals, phase, queue, counts, locks, workers,
                              clients, signals, history>>

\* jobqueue_destroy drops the queued jobs; then the pool is freed.
DestroyFree == /\ phase = "destroying"
               /\ alive = 0
               /\ queue' = <<>> /\ bsemV' = 0 /\ asleep' = {}
               /\ phase' = "freed"
               /\ UNCHANGED <<globals, counts, locks, workers, clients, signals,
                              history>>

Owner == ThpoolInit \/ InitReturn \/ DestroyBegin \/ DestroyPost \/ DestroyFree

-----------------------------------------------------------------------------
(* The workers: thread_do.  A worker inside the signal handler is stopped. *)

LockCount(w) == /\ pc[w] \in {"start", "inc", "dec", "exit"}
                /\ thcount = Nobody
                /\ thcount' = w
                /\ UNCHANGED <<globals, phase, queue, bsem, counts, rwmutex,
                               workers, clients, signals, history>>

AliveInc(w) == /\ pc[w] = "start" /\ thcount = w
               /\ alive' = alive + 1
               /\ thcount' = Nobody
               /\ Goto(w, "loop")
               /\ UNCHANGED <<globals, phase, queue, bsem, working, rwmutex, job,
                              clients, signals, history>>

\* while (threads_keepalive)
LoopTest(w) == /\ pc[w] = "loop"
               /\ Goto(w, IF keepalive THEN "bwait" ELSE "exit")
               /\ UNCHANGED <<globals, phase, queue, bsem, counts, locks, job,
                              clients, signals, history>>

\* bsem_wait: take the semaphore, or block until it is posted.
BsemWait(w) == /\ pc[w] = "bwait" /\ w \notin asleep
               /\ \/ /\ bsemV = 1
                     /\ bsemV' = 0
                     /\ Goto(w, "got")
                     /\ UNCHANGED asleep
                  \/ /\ bsemV = 0
                     /\ asleep' = asleep \union {w}
                     /\ UNCHANGED <<bsemV, pc>>
               /\ UNCHANGED <<globals, phase, queue, counts, locks, job, clients,
                              signals, history>>

\* if (threads_keepalive), after the semaphore was taken
KeepTest(w) == /\ pc[w] = "got"
               /\ Goto(w, IF keepalive THEN "inc" ELSE "loop")
               /\ UNCHANGED <<globals, phase, queue, bsem, counts, locks, job,
                              clients, signals, history>>

WorkingInc(w) == /\ pc[w] = "inc" /\ thcount = w
                 /\ working' = working + 1
                 /\ thcount' = Nobody
                 /\ Goto(w, "pull")
                 /\ UNCHANGED <<globals, phase, queue, bsem, alive, rwmutex, job,
                                clients, signals, history>>

LockQueue(w) == /\ pc[w] = "pull"
                /\ rwmutex = Nobody
                /\ rwmutex' = w
                /\ UNCHANGED <<globals, phase, queue, bsem, counts, thcount,
                               workers, clients, signals, history>>

\* jobqueue_pull: the queue may be empty; if jobs remain it posts has_jobs.
Pull(w) == /\ pc[w] = "pull" /\ rwmutex = w
           /\ rwmutex' = Nobody
           /\ \/ /\ queue = <<>>
                 /\ Goto(w, "dec")
                 /\ UNCHANGED <<queue, job, bsem>>
              \/ /\ queue # <<>>
                 /\ job' = [job EXCEPT ![w] = Head(queue)]
                 /\ queue' = Tail(queue)
                 /\ Goto(w, "run")
                 /\ IF Len(queue) > 1 THEN BsemPost ELSE UNCHANGED bsem
           /\ UNCHANGED <<globals, phase, counts, thcount, clients, signals,
                          history>>

\* The job's function returns and the job is freed.
RunJob(w) == /\ pc[w] = "run"
             /\ done' = done \union {job[w]}
             /\ job' = [job EXCEPT ![w] = NoJob]
             /\ Goto(w, "dec")
             /\ UNCHANGED <<globals, phase, queue, bsem, counts, locks, clients,
                            signals, accepted>>

WorkingDec(w) == /\ pc[w] = "dec" /\ thcount = w
                 /\ working' = working - 1
                 /\ IF working = 1 THEN SignalAllIdle ELSE UNCHANGED allIdle
                 /\ thcount' = Nobody
                 /\ Goto(w, "loop")
                 /\ UNCHANGED <<globals, phase, queue, bsem, alive, rwmutex, job,
                                cpc, carry, signals, history>>

AliveDec(w) == /\ pc[w] = "exit" /\ thcount = w
               /\ alive' = alive - 1
               /\ Goto(w, "unlock")
               /\ UNCHANGED <<globals, phase, queue, bsem, working, locks, job,
                              clients, signals, history>>

\* The last thing a worker does is to unlock a mutex inside the pool.
ExitUnlock(w) == /\ pc[w] = "unlock"
                 /\ thcount' = Nobody
                 /\ Goto(w, "end")
                 /\ UNCHANGED <<globals, phase, queue, bsem, counts, rwmutex, job,
                                clients, signals, history>>

ThreadDo(w) == /\ w \notin held
               /\ \/ LockCount(w) \/ AliveInc(w) \/ LoopTest(w) \/ BsemWait(w)
                  \/ KeepTest(w) \/ WorkingInc(w) \/ LockQueue(w) \/ Pull(w)
                  \/ RunJob(w) \/ WorkingDec(w) \/ AliveDec(w) \/ ExitUnlock(w)

\* SIGUSR1 interrupts the worker anywhere; it is blocked inside its handler.
SigDeliver(w) == /\ w \in sigPending /\ w \notin held
                 /\ pc[w] \notin {"none", "end"}
                 /\ sigPending' = sigPending \ {w}
                 /\ held' = held \union {w}
                 /\ onHold' = TRUE
                 /\ UNCHANGED <<keepalive, phase, queue, bsem, counts, locks,
                                workers, clients, pauses, resumed, history>>

\* thread_hold returns when it finds threads_on_hold reset.
SigReturn(w) == /\ w \in held
                /\ ~onHold
                /\ held' = held \ {w}
                /\ UNCHANGED <<globals, phase, queue, bsem, counts, locks,
                               workers, clients, sigPending, pauses, resumed,
                               history>>

-----------------------------------------------------------------------------
(* The clients.                                                            *)

\* thpool_add_work allocates the job, so it is one nobody has seen before.
AddWork(c, j) == /\ phase = "ready" /\ cpc[c] = "idle"
                 /\ j \notin accepted /\ \A d \in Clients : carry[d] # j
                 /\ carry' = [carry EXCEPT ![c] = j]
                 /\ CGoto(c, "push")
                 /\ UNCHANGED <<globals, phase, queue, bsem, counts, locks,
                                workers, allIdle, signals, history>>

LockQueueC(c) == /\ cpc[c] = "push"
                 /\ rwmutex = Nobody
                 /\ rwmutex' = c
                 /\ UNCHANGED <<globals, phase, queue, bsem, counts, thcount,
                                workers, clients, signals, history>>

\* jobqueue_push
Push(c) == /\ cpc[c] = "push" /\ rwmutex = c
           /\ queue' = Append(queue, carry[c])
           /\ BsemPost
           /\ accepted' = accepted \union {carry[c]}
           /\ rwmutex' = Nobody
           /\ carry' = [carry EXCEPT ![c] = NoJob]
           /\ CGoto(c, "idle")
           /\ UNCHANGED <<globals, phase, counts, thcount, workers, allIdle,
                          signals, done>>

Wait(c) == /\ phase = "ready" /\ cpc[c] = "idle"
           /\ CGoto(c, "wait")
           /\ UNCHANGED <<globals, phase, queue, bsem, counts, locks, workers,
                          carry, allIdle, signals, history>>

LockCountC(c) == /\ cpc[c] = "wait" /\ c \notin allIdle
                 /\ thcount = Nobody
                 /\ thcount' = c
                 /\ UNCHANGED <<globals, phase, queue, bsem, counts, rwmutex,
                                workers, clients, signals, history>>

\* working cannot change while the client owns thcount_lock, so reading it
\* together with the length of the queue is the same as reading it after.
WaitTest(c) == /\ cpc[c] = "wait" /\ thcount = c
               /\ thcount' = Nobody
               /\ \/ /\ queue = <<>> /\ working = 0
                     /\ CGoto(c, "idle")
                     /\ UNCHANGED allIdle
                  \/ /\ queue # <<>> \/ working # 0
                     /\ allIdle' = allIdle \union {c}
                     /\ UNCHANGED cpc
               /\ UNCHANGED <<globals, phase, queue, bsem, counts, rwmutex,
                              workers, carry, signals, history>>

\* thpool_pause signals as many threads as are alive, in one step: delivery
\* is asynchronous anyway.
Pause(c) == /\ phase = "ready" /\ cpc[c] = "idle"
            /\ pauses < MaxPauses
            /\ pauses' = pauses + 1
            /\ \E S \in SUBSET Workers : /\ Cardinality(S) = alive
                                         /\ sigPending' = sigPending \union S
            /\ resumed' = FALSE
            /\ UNCHANGED <<globals, phase, queue, bsem, counts, locks, workers,
                           clients, held, history>>

Resume(c) == /\ phase = "ready" /\ cpc[c] = "idle"
             /\ onHold' = FALSE
             /\ resumed' = TRUE
             /\ UNCHANGED <<keepalive, phase, queue, bsem, counts, locks, workers,
                            clients, sigPending, held, pauses, history>>

InCall(c) == LockQueueC(c) \/ Push(c) \/ LockCountC(c) \/ WaitTest(c)

Call(c) == \/ \E j \in Jobs : AddWork(c, j)
           \/ Wait(c) \/ Pause(c) \/ Resume(c)

\* POSIX lets pthread_cond_wait return although nobody signalled.
SpuriousWake == /\ SpuriousWakes
                /\ \/ /\ \E w \in asleep : asleep' = asleep \ {w}
                      /\ UNCHANGED allIdle
                   \/ /\ \E c \in allIdle : allIdle' = allIdle \ {c}
                      /\ UNCHANGED asleep
                /\ UNCHANGED <<globals, phase, queue, bsemV, counts, locks,
                               workers, cpc, carry, signals, history>>

-----------------------------------------------------------------------------
Next == \/ Owner
        \/ \E w \in Workers : ThreadDo(w) \/ SigDeliver(w) \/ SigReturn(w)
        \/ \E c \in Clients : Call(c) \/ InCall(c)
        \/ SpuriousWake

Spec == Init /\ [][Next]_vars

\* Every thread that can run does run: a worker, the handler it is in, the
\* owner inside thpool_init or thpool_destroy, a client inside a call.  Nobody
\* is obliged to call anything, to send a signal or to resume.
Fairness == /\ WF_vars(InitReturn) /\ WF_vars(DestroyPost) /\ WF_vars(DestroyFree)
            /\ \A w \in Workers : /\ WF_vars(ThreadDo(w))
                                  /\ WF_vars(SigDeliver(w))
                                  /\ WF_vars(SigReturn(w))
            /\ \A c \in Clients : WF_vars(InCall(c))
            /\ <>[][~SpuriousWake]_vars

FairSpec == Spec /\ Fairness

-----------------------------------------------------------------------------
WorkerPC == {"none", "start", "loop", "bwait", "got", "inc", "pull", "run",
             "dec", "exit", "unlock", "end"}

\* Between num_threads_alive += 1 and num_threads_alive --
InAlive == {"loop", "bwait", "got", "inc", "pull", "run", "dec", "exit"}
\* Between num_threads_working++ and num_threads_working--
InWorking == {"pull", "run", "dec"}
\* Has taken the semaphore and has not yet looked into the queue
Fetching == {"got", "inc", "pull"}

WorkersAt(S) == {w \in Workers : pc[w] \in S}

\* The state of the pool has the types the declarations give it (thpool.cpp,
\* the structures bsem, jobqueue and thpool_).
TypeOK == /\ keepalive \in BOOLEAN /\ onHold \in BOOLEAN
          /\ phase \in {"none", "init", "ready", "destroying", "freed"}
          /\ queue \in Seq(Jobs)
          /\ bsemV \in {0, 1} /\ asleep \subseteq Workers
          /\ alive \in Nat /\ working \in Nat
          /\ rwmutex \in Workers \union Clients \union {Nobody}
          /\ thcount \in Workers \union Clients \union {Nobody}
          /\ pc \in [Workers -> WorkerPC]
          /\ job \in [Workers -> Jobs \union {NoJob}]
          /\ cpc \in [Clients -> {"idle", "push", "wait"}]
          /\ carry \in [Clients -> Jobs \union {NoJob}]
          /\ allIdle \subseteq Clients
          /\ sigPending \subseteq Workers /\ held \subseteq Workers
          /\ pauses \in 0..MaxPauses /\ resumed \in BOOLEAN
          /\ accepted \subseteq Jobs /\ done \subseteq Jobs

\* Both counters that thpool_wait and thpool_destroy rely on are exact: they
\* count the workers between the increment and the decrement in thread_do.
CountersExact == /\ working = Cardinality(WorkersAt(InWorking))
                 /\ alive = Cardinality(WorkersAt(InAlive))

\* While the pool is kept alive a queued job is never forgotten by the binary
\* semaphore: it is posted, or a worker took it and is on its way to the queue
\* (jobqueue_push and jobqueue_pull post it, bsem_wait resets it).
NoStrandedJob == keepalive /\ queue # <<>> =>
                    bsemV = 1 \/ WorkersAt(Fetching) # {}

\* The semaphore is never posted with every worker that waits for it asleep:
\* if one is blocked in bsem_wait, another one is awake there and will take it.
NoLostWakeup == bsemV = 1 /\ asleep # {} => WorkersAt({"bwait"}) \ asleep # {}

\* When thpool_destroy has freed the pool, no worker is in the loop of
\* thread_do any more: at most it still has to unlock thcount_lock.
FreedWhenQuiet == phase = "freed" => \A w \in Workers : pc[w] \in {"unlock", "end"}

\* thpool_wait returns only when every job the queue ever accepted has run.
WaitMeansDone ==
    [][\A c \in Clients :
          cpc[c] = "wait" /\ cpc'[c] = "idle" => accepted = done]_vars

\* The pool is a work pool: each accepted job is taken in FIFO order, once, by
\* one worker, and runs to its end; destroying the pool drops only queued jobs.
WP == INSTANCE WorkPool WITH line <- queue, holds <- job
ImplementsWorkPool == WP!WPSpec

\* As long as the pool is not destroyed every accepted job runs.
JobsComplete == \A j \in Jobs :
                   j \in accepted ~> (j \in done \/ phase \in {"destroying", "freed"} \/ onHold)

\* thpool.h, thpool_wait: "Once the queue is empty and all work has completed,
\* the calling thread (probably the main program) will continue."
WaitReturns == [](\A c, d \in Clients : cpc[c] = "wait" /\ cpc[d] = "wait" => c = d)
                   => \A c \in Clients : cpc[c] = "wait" ~> (cpc[c] = "idle" \/ onHold)

\* thpool_destroy stops every thread and frees the pool.
DestroyTerminates == phase = "destroying" ~> (phase = "freed" \/ onHold)

-----------------------------------------------------------------------------
(* The inductive invariant behind the safety properties.                   *)

\* Who owns a mutex is inside a section that needs it.
LockInv == /\ \A w \in Workers : rwmutex = w => pc[w] = "pull"
           /\ \A c \in Clients : rwmutex = c => cpc[c] = "push"
           /\ \A w \in Workers :
                 /\ thcount = w => pc[w] \in {"start", "inc", "dec", "exit", "unlock"}
                 /\ pc[w] = "unlock" => thcount = w
           /\ \A c \in Clients : thcount = c => cpc[c] = "wait"

\* The states of the owner and of the other threads go together.
PhaseInv == /\ phase = "none" => \A w \in Workers : pc[w] = "none"
            /\ phase # "none" => \A w \in Workers : pc[w] # "none"
            /\ phase \in {"ready", "destroying", "freed"} =>
                  \A w \in Workers : pc[w] # "start"
            /\ phase # "ready" => \A c \in Clients : cpc[c] = "idle"
            /\ phase \in {"none", "init"} => queue = <<>>
            /\ keepalive <=> phase \in {"init", "ready"}
            /\ keepalive => \A w \in Workers : pc[w] \notin {"exit", "unlock", "end"}

\* Only blocked workers are on the condition variable of the semaphore.
SleepInv == \A w \in asleep : pc[w] = "bwait"

\* A job is in one place: with the client that adds it, queued, run or done.
JobInv == /\ \A w \in Workers : job[w] # NoJob <=> pc[w] = "run"
          /\ \A c \in Clients : carry[c] # NoJob <=> cpc[c] = "push"
          /\ \A c \in Clients : carry[c] # NoJob => carry[c] \notin accepted
          /\ \A c, d \in Clients : carry[c] # NoJob /\ carry[c] = carry[d] => c = d
          /\ phase # "freed" =>
                \A j \in accepted : \/ j \in done
                                    \/ \E i \in 1..Len(queue) : queue[i] = j
                                    \/ \E w \in Workers : job[w] = j
          /\ done \subseteq accepted
          /\ \A i \in 1..Len(queue) : queue[i] \in accepted
          /\ \A w \in Workers : job[w] # NoJob => job[w] \in accepted

StateInv == /\ TypeOK /\ LockInv /\ PhaseInv /\ SleepInv /\ JobInv
            /\ NoStrandedJob /\ NoLostWakeup /\ FreedWhenQuiet

IInv == StateInv /\ CountersExact
=============================================================================
