------------------------------ MODULE TaskPool ------------------------------
(***************************************************************************)
(* ThreadTaskPool (thread_pool.hpp) on top of ThreadPoolSyncTaskQueue      *)
(* (thread_pool_task_queue.hpp): producers add tasks to a bounded queue,   *)
(* workers take and run them, and stop, called by any number of threads,   *)
(* runs once.                                                              *)
(*                                                                         *)
(* push and pop hold mutex_ except while they are blocked, so one test of  *)
(* the predicate with what follows is one step.  stop sets the flag under  *)
(* the mutex and notifies after it has released it: two steps.             *)
(***************************************************************************)
EXTENDS Naturals, Sequences, FiniteSets

CONSTANTS Workers,    \* the threads that execute run
          Producers,  \* the threads that call add_task
          Stoppers,   \* the threads that call stop, the destructor's included
          Tasks,      \* the tasks that are ever added
          NoTask,     \* a null thread_task_t
          Limit       \* max_size_

ASSUME TaskPoolAssumption == /\ IsFiniteSet(Workers) /\ IsFiniteSet(Producers)
                             /\ NoTask \notin Tasks
                             /\ Limit \in Nat

VARIABLES queue,     \* queue_
          stop,      \* stop_: no constructor initialises it
          running,   \* running_
          notEmpty,  \* the workers blocked on not_empty_
          notFull,   \* the producers blocked on not_full_
          pc,        \* where each worker is in run
          task,      \* t of each worker
          ppc,       \* idle, or push inside add_task
          item,      \* the task a producer is adding
          spc,       \* where each caller of stop is
          asked,     \* call_once has let a caller of stop through
          added,     \* history: the tasks that entered the queue
          ran        \* history: the tasks that have returned

vars == <<queue, stop, running, notEmpty, notFull, pc, task, ppc, item, spc,
          asked, added, ran>>

\* stop_ starts as whatever the memory held; the constructor sets running_
\* before it creates the threads.
Init == /\ queue = <<>>
        /\ stop \in BOOLEAN
        /\ running = TRUE
        /\ notEmpty = {} /\ notFull = {}
        /\ pc = [w \in Workers |-> "loop"]
        /\ task = [w \in Workers |-> NoTask]
        /\ ppc = [p \in Producers |-> "idle"]
        /\ item = [p \in Producers |-> NoTask]
        /\ spc = [s \in Stoppers |-> "idle"]
        /\ asked = FALSE
        /\ added = {} /\ ran = {}

Goto(w, l) == pc' = [pc EXCEPT ![w] = l]

-----------------------------------------------------------------------------
(* Faulty variants, used to test the properties.                           *)

\* push notifies only when the queue was empty.
NotifyIfFirst == IF queue = <<>> /\ notEmpty # {}
                   THEN \E w \in notEmpty : notEmpty' = notEmpty \ {w}
                   ELSE UNCHANGED notEmpty

\* push notifies nobody.
NotifyNone == UNCHANGED notEmpty

\* pop copies the front of the queue and forgets to remove it.
PopCopy(w) ==
    /\ pc[w] = "pop" /\ w \notin notEmpty
    /\ \/ stop /\ Goto(w, "end") /\ UNCHANGED <<notEmpty, task>>
       \/ /\ ~stop /\ queue # <<>>
          /\ task' = [task EXCEPT ![w] = Head(queue)]
          /\ Goto(w, "popped")
          /\ UNCHANGED notEmpty
       \/ /\ ~stop /\ queue = <<>>
          /\ notEmpty' = notEmpty \union {w}
          /\ UNCHANGED <<pc, task>>
    /\ UNCHANGED <<queue, stop, running, notFull, ppc, item, spc, asked, added, ran>>

\* stop notifies the producers only.
StopNotifyProducers(s) ==
    /\ spc[s] = "notify"
    /\ notFull' = {}
    /\ spc' = [spc EXCEPT ![s] = "clear"]
    /\ UNCHANGED <<queue, stop, running, notEmpty, pc, task, ppc, item, asked,
                   added, ran>>

-----------------------------------------------------------------------------
\* not_empty_.notify_one and not_full_.notify_one
NotifyNotEmpty == \/ notEmpty = {} /\ UNCHANGED notEmpty
                  \/ \E w \in notEmpty : notEmpty' = notEmpty \ {w}

NotifyNotFull == \/ notFull = {} /\ UNCHANGED notFull
                 \/ \E p \in notFull : notFull' = notFull \ {p}

\* add_task wraps the task, a new one each time.
AddTask(p, t) == /\ ppc[p] = "idle"
                 /\ t \notin added /\ \A q \in Producers : item[q] # t
                 /\ ppc' = [ppc EXCEPT ![p] = "push"]
                 /\ item' = [item EXCEPT ![p] = t]
                 /\ UNCHANGED <<queue, stop, running, notEmpty, notFull, pc, task,
                                spc, asked, added, ran>>

PushDone(p) == /\ ppc' = [ppc EXCEPT ![p] = "idle"]
               /\ item' = [item EXCEPT ![p] = NoTask]

\* push: refuse when stopped, append when there is room, else block.
Push(p) == /\ ppc[p] = "push" /\ p \notin notFull
           /\ \/ /\ stop
                 /\ PushDone(p)
                 /\ UNCHANGED <<queue, notEmpty, notFull, added>>
              \/ /\ ~stop /\ Len(queue) < Limit
                 /\ queue' = Append(queue, item[p])
                 /\ added' = added \union {item[p]}
                 /\ NotifyNotEmpty
                 /\ PushDone(p)
                 /\ UNCHANGED notFull
              \/ /\ ~stop /\ Len(queue) >= Limit
                 /\ notFull' = notFull \union {p}
                 /\ UNCHANGED <<queue, notEmpty, ppc, item, added>>
           /\ UNCHANGED <<stop, running, pc, task, spc, asked, ran>>

-----------------------------------------------------------------------------
\* while (running_)
LoopTest(w) == /\ pc[w] = "loop"
               /\ Goto(w, IF running THEN "pop" ELSE "end")
               /\ UNCHANGED <<queue, stop, running, notEmpty, notFull, task, ppc,
                              item, spc, asked, added, ran>>

\* pop: give up when stopped, take the front, or block on an empty queue.
Pop(w) == /\ pc[w] = "pop" /\ w \notin notEmpty
          /\ \/ /\ stop
                /\ Goto(w, "end")
                /\ UNCHANGED <<queue, notEmpty, notFull, task>>
             \/ /\ ~stop /\ queue # <<>>
                /\ task' = [task EXCEPT ![w] = Head(queue)]
                /\ queue' = Tail(queue)
                /\ NotifyNotFull
                /\ Goto(w, "popped")
                /\ UNCHANGED notEmpty
             \/ /\ ~stop /\ queue = <<>>
                /\ notEmpty' = notEmpty \union {w}
                /\ UNCHANGED <<queue, notFull, pc, task>>
          /\ UNCHANGED <<stop, running, ppc, item, spc, asked, added, ran>>

\* if (!ret || !t || !running_) return: a task taken too late is dropped.
Check(w) == /\ pc[w] = "popped"
            /\ \/ running /\ Goto(w, "run") /\ UNCHANGED task
               \/ ~running /\ Goto(w, "end") /\ task' = [task EXCEPT ![w] = NoTask]
            /\ UNCHANGED <<queue, stop, running, notEmpty, notFull, ppc, item, spc,
                           asked, added, ran>>

RunTask(w) == /\ pc[w] = "run"
              /\ ran' = ran \union {task[w]}
              /\ task' = [task EXCEPT ![w] = NoTask]
              /\ Goto(w, "loop")
              /\ UNCHANGED <<queue, stop, running, notEmpty, notFull, ppc, item,
                             spc, asked, added>>

Run(w) == LoopTest(w) \/ Pop(w) \/ Check(w) \/ RunTask(w)

-----------------------------------------------------------------------------
\* std::call_once: the first caller executes _stop, the others wait for it.
Stop(s) == /\ spc[s] = "idle"
           /\ asked' = TRUE
           /\ spc' = [spc EXCEPT ![s] =
                         IF ~asked THEN "flag"
                         ELSE IF \E t \in Stoppers : spc[t] = "done" THEN "done"
                         ELSE "waiting"]
           /\ UNCHANGED <<queue, stop, running, notEmpty, notFull, pc, task, ppc,
                          item, added, ran>>

StopFlag(s) == /\ spc[s] = "flag"
               /\ stop' = TRUE
               /\ spc' = [spc EXCEPT ![s] = "notify"]
               /\ UNCHANGED <<queue, running, notEmpty, notFull, pc, task, ppc,
                              item, asked, added, ran>>

StopNotify(s) == /\ spc[s] = "notify"
                 /\ notFull' = {} /\ notEmpty' = {}
                 /\ spc' = [spc EXCEPT ![s] = "clear"]
                 /\ UNCHANGED <<queue, stop, running, pc, task, ppc, item, asked,
                                added, ran>>

ClearRunning(s) == /\ spc[s] = "clear"
                   /\ running' = FALSE
                   /\ spc' = [spc EXCEPT ![s] = "join"]
                   /\ UNCHANGED <<queue, stop, notEmpty, notFull, pc, task, ppc,
                                  item, asked, added, ran>>

\* All threads joined: the first caller and those waiting for it return.
Join(s) == /\ spc[s] = "join"
           /\ \A w \in Workers : pc[w] = "end"
           /\ spc' = [t \in Stoppers |-> IF spc[t] # "idle" THEN "done" ELSE "idle"]
           /\ UNCHANGED <<queue, stop, running, notEmpty, notFull, pc, task, ppc,
                          item, asked, added, ran>>

StopStep(s) == StopFlag(s) \/ StopNotify(s) \/ ClearRunning(s) \/ Join(s)

-----------------------------------------------------------------------------
Next == \/ \E w \in Workers : Run(w)
        \/ \E p \in Producers : Push(p) \/ \E t \in Tasks : AddTask(p, t)
        \/ \E s \in Stoppers : Stop(s) \/ StopStep(s)

Spec == Init /\ [][Next]_vars

\* Threads inside the pool run; nobody is obliged to add a task or to stop.
Fairness == /\ \A w \in Workers : WF_vars(Run(w))
            /\ \A p \in Producers : WF_vars(Push(p))
            /\ \A s \in Stoppers : WF_vars(StopStep(s))

FairSpec == Spec /\ Fairness

-----------------------------------------------------------------------------
\* Types, and the bound: push never lets the queue grow beyond max_size_, however
\* many producers were blocked on it and woken.
TypeOK == /\ queue \in Seq(Tasks) /\ Len(queue) <= Limit
          /\ stop \in BOOLEAN /\ running \in BOOLEAN /\ asked \in BOOLEAN
          /\ notEmpty \subseteq Workers /\ notFull \subseteq Producers
          /\ pc \in [Workers -> {"loop", "pop", "popped", "run", "end"}]
          /\ task \in [Workers -> Tasks \union {NoTask}]
          /\ ppc \in [Producers -> {"idle", "push"}]
          /\ item \in [Producers -> Tasks \union {NoTask}]
          /\ spc \in [Stoppers -> {"idle", "waiting", "flag", "notify", "clear",
                                   "join", "done"}]
          /\ added \subseteq Tasks /\ ran \subseteq Tasks

Popping == {w \in Workers : pc[w] = "pop"} \ notEmpty
Pushing == {p \in Producers : ppc[p] = "push"} \ notFull

\* As long as some worker sleeps on not_empty_, enough workers are awake in pop
\* to take every queued task: no notify_one of push is lost or goes astray.
ConsumersAwake == ~stop /\ notEmpty # {} => Len(queue) <= Cardinality(Popping)

\* As long as some producer sleeps on not_full_, enough producers are awake in
\* push to use every free place.
ProducersAwake == ~stop /\ notFull # {} => Limit - Len(queue) <= Cardinality(Pushing)

\* When stop has returned, in whichever thread, no worker is running a task.
StoppedMeansQuiet == (\E s \in Stoppers : spc[s] = "done") =>
                         \A w \in Workers : pc[w] = "end"

\* A task is in one place at most: once in the queue, in the hands of one worker,
\* or run; so no task runs twice, whoever pushes, pops and stops.
OnceEach == LET queued == {queue[i] : i \in 1..Len(queue)}
                held == {task[w] : w \in Workers} \ {NoTask}
            IN /\ Cardinality(queued) = Len(queue)
               /\ queued \intersect held = {} /\ (queued \union held) \intersect ran = {}
               /\ \A v, w \in Workers : task[v] = task[w] /\ task[v] # NoTask => v = w

\* Nobody who sleeps on a condition variable is forgotten, whatever the order in
\* which push, pop and stop notify (thread_pool_task_queue.hpp).
NobodyForgotten == ConsumersAwake /\ ProducersAwake

\* What holds in every state: the types, one place at most for each task, and
\* quiet workers once stop has returned (thread_pool_task_queue.hpp).
Consistent == TypeOK /\ OnceEach /\ StoppedMeansQuiet

\* A task that entered the queue runs, unless the pool is stopped.
TasksRun == \A t \in Tasks : t \in added ~> (t \in ran \/ stop)

\* stop returns in every thread that called it.
StopReturns == \A s \in Stoppers : spc[s] # "idle" ~> spc[s] = "done"
=============================================================================
