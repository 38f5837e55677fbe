------------------------------ MODULE CxxPool ------------------------------
(***************************************************************************)
(* ThreadPool of thread_pool.hpp: workers that take committed tasks, a     *)
(* status that start, stop, pause and resume test and then set, and wait.  *)
(*                                                                         *)
(* The controllers call these functions from any thread.  A test of the    *)
(* atomic status and the assignment after it are two steps.  A worker      *)
(* evaluates the predicate of _cond and blocks in two steps, both with     *)
(* _mutex owned: stop changes the status without that mutex.               *)
(***************************************************************************)
EXTENDS Naturals, Sequences, FiniteSets

CONSTANTS Workers,     \* the threads of the pool (pool_size of them)
          Controllers, \* the threads that use the pool
          Owners,      \* those of them that start, stop, pause and resume it
          Tasks,       \* the tasks that are ever committed
          NoTask,      \* an empty Task
          Nobody       \* the owner of a free mutex

ASSUME CxxPoolAssumption == /\ IsFiniteSet(Workers)
                            /\ Workers \intersect Controllers = {}
                            /\ Owners \subseteq Controllers
                            /\ Nobody \notin Workers \union Controllers
                            /\ NoTask \notin Tasks

VARIABLES status,    \* STOP, RUNNING or PAUSE
          tasks,     \* tasks
          idle,      \* idle_num
          mutex,     \* the owner of _mutex
          blocked,   \* the workers blocked on _cond
          pc,        \* where each worker is; none before its thread exists
          task,      \* task of each worker
          cpc,       \* where each controller is in the function it calls
          item,      \* the task a controller is committing
          committed, \* history: the tasks committed so far
          ran,       \* history: the tasks that have run
          due,       \* history: what was committed when a controller entered wait
          missed     \* history: the workers that stop's notification came too early for

vars == <<status, tasks, idle, mutex, blocked, pc, task, cpc, item, committed,
          ran, due, missed>>

Init == /\ status = "STOP"
        /\ tasks = <<>>
        /\ idle = Cardinality(Workers)
        /\ mutex = Nobody /\ blocked = {}
        /\ pc = [w \in Workers |-> "none"]
        /\ task = [w \in Workers |-> NoTask]
        /\ cpc = [c \in Controllers |-> "idle"]
        /\ item = [c \in Controllers |-> NoTask]
        /\ committed = {} /\ ran = {}
        /\ due = [c \in Controllers |-> {}]
        /\ missed = {}

Goto(w, l) == pc' = [pc EXCEPT ![w] = l]
CGoto(c, l) == cpc' = [cpc EXCEPT ![c] = l]

-----------------------------------------------------------------------------
(* Faulty variants, used to test the properties.                           *)

\* wait does not look at idle_num.
WaitQueueOnly(c) == /\ cpc[c] = "empty"
                    /\ CGoto(c, "idle")
                    /\ UNCHANGED <<status, tasks, idle, mutex, blocked, pc, task,
                                   item, committed, ran, due, missed>>

\* stop notifies one worker and not all.
StopNotifyOne(c) == /\ cpc[c] = "notify"
                    /\ \/ blocked = {} /\ UNCHANGED blocked
                       \/ \E w \in blocked : blocked' = blocked \ {w}
                    /\ CGoto(c, "join")
                    /\ missed' = {w \in Workers : pc[w] = "block"}
                    /\ UNCHANGED <<status, tasks, idle, mutex, pc, task, item,
                                   committed, ran, due>>

\* The busy count is not touched when a task is taken.
TakeNoCount(w) ==
    /\ pc[w] = "take" /\ mutex = w
    /\ mutex' = Nobody
    /\ \/ /\ status = "STOP"
          /\ Goto(w, "end")
          /\ UNCHANGED <<tasks, idle, task>>
       \/ /\ status # "STOP" /\ tasks # <<>>
          /\ task' = [task EXCEPT ![w] = Head(tasks)]
          /\ tasks' = Tail(tasks)
          /\ Goto(w, "run")
          /\ UNCHANGED idle
    /\ UNCHANGED <<status, blocked, cpc, item, committed, ran, due, missed>>

\* commit notifies nobody.
CommitSilent(c) == /\ cpc[c] = "wake"
                   /\ CGoto(c, "idle")
                   /\ UNCHANGED <<status, tasks, idle, mutex, blocked, pc, task,
                                  item, committed, ran, due, missed>>

-----------------------------------------------------------------------------
(* The workers.                                                            *)

\* while (status != STOP) and the pause loop inside it
LoopTest(w) == /\ pc[w] = "loop"
               /\ \/ status = "STOP" /\ Goto(w, "end")
                  \/ status # "STOP" /\ Goto(w, "paused")
               /\ UNCHANGED <<status, tasks, idle, mutex, blocked, task, cpc, item,
                              committed, ran, due, missed>>

PauseTest(w) == /\ pc[w] = "paused"
                /\ status # "PAUSE"
                /\ Goto(w, "lock")
                /\ UNCHANGED <<status, tasks, idle, mutex, blocked, task, cpc, item,
                               committed, ran, due, missed>>

\* Own _mutex, at first or after _cond was signalled.
Lock(w) == /\ pc[w] = "lock" /\ w \notin blocked
           /\ mutex = Nobody
           /\ mutex' = w
           /\ Goto(w, "test")
           /\ UNCHANGED <<status, tasks, idle, blocked, task, cpc, item, committed,
                          ran, due, missed>>

\* The predicate of _cond.wait
TestPredicate(w) == /\ pc[w] = "test" /\ mutex = w
                    /\ Goto(w, IF status = "STOP" \/ tasks # <<>> THEN "take" ELSE "block")
                    /\ UNCHANGED <<status, tasks, idle, mutex, blocked, task, cpc,
                                   item, committed, ran, due, missed>>

\* pthread_cond_wait releases the mutex and blocks in one step.
Block(w) == /\ pc[w] = "block" /\ mutex = w
            /\ mutex' = Nobody
            /\ blocked' = blocked \union {w}
            /\ Goto(w, "lock")
            /\ UNCHANGED <<status, tasks, idle, task, cpc, item, committed, ran, due,
                           missed>>

\* After the wait: leave when stopped, else take the front task.
Take(w) == /\ pc[w] = "take" /\ mutex = w
           /\ mutex' = Nobody
           /\ \/ /\ status = "STOP"
                 /\ Goto(w, "end")
                 /\ UNCHANGED <<tasks, idle, task>>
              \/ /\ status # "STOP" /\ tasks # <<>>
                 /\ idle' = idle - 1
                 /\ task' = [task EXCEPT ![w] = Head(tasks)]
                 /\ tasks' = Tail(tasks)
                 /\ Goto(w, "run")
              \/ /\ status # "STOP" /\ tasks = <<>>
                 /\ Goto(w, "run")
                 /\ UNCHANGED <<tasks, idle, task>>
           /\ UNCHANGED <<status, blocked, cpc, item, committed, ran, due, missed>>

\* task() returns.  Calling an empty Task ends the process: no step follows.
RunTask(w) == /\ pc[w] = "run" /\ task[w] # NoTask
              /\ ran' = ran \union {task[w]}
              /\ task' = [task EXCEPT ![w] = NoTask]
              /\ Goto(w, "ran")
              /\ UNCHANGED <<status, tasks, idle, mutex, blocked, cpc, item,
                             committed, due, missed>>

Finish(w) == /\ pc[w] = "ran"
             /\ idle' = idle + 1
             /\ Goto(w, "loop")
             /\ UNCHANGED <<status, tasks, mutex, blocked, task, cpc, item,
                            committed, ran, due, missed>>

Worker(w) == \/ LoopTest(w) \/ PauseTest(w) \/ Lock(w) \/ TestPredicate(w)
             \/ Block(w) \/ Take(w) \/ RunTask(w) \/ Finish(w)

-----------------------------------------------------------------------------
(* The controllers.                                                        *)

\* start is called once, before anything else: a second start after a stop
\* would leave joined threads in workers.
Start(c) == /\ cpc[c] = "idle" /\ status = "STOP"
            /\ \A w \in Workers : pc[w] = "none"
            /\ status' = "RUNNING"
            /\ pc' = [w \in Workers |-> "loop"]
            /\ UNCHANGED <<tasks, idle, mutex, blocked, task, cpc, item, committed,
                           ran, due, missed>>

\* The test in stop, pause and resume; the assignment is a step of its own.
TestStop(c) == /\ cpc[c] = "idle"
               /\ \A d \in Controllers : cpc[d] \notin {"stop", "notify", "join"}
               /\ status # "STOP"
               /\ CGoto(c, "stop")
               /\ UNCHANGED <<status, tasks, idle, mutex, blocked, pc, task, item,
                              committed, ran, due, missed>>

SetStop(c) == /\ cpc[c] = "stop"
              /\ status' = "STOP"
              /\ CGoto(c, "notify")
              /\ UNCHANGED <<tasks, idle, mutex, blocked, pc, task, item, committed,
                             ran, due, missed>>

StopNotify(c) == /\ cpc[c] = "notify"
                 /\ blocked' = {}
                 /\ CGoto(c, "join")
                 /\ missed' = {w \in Workers : pc[w] = "block"}
                 /\ UNCHANGED <<status, tasks, idle, mutex, pc, task, item,
                                committed, ran, due>>

Join(c) == /\ cpc[c] = "join"
           /\ \A w \in Workers : pc[w] = "end"
           /\ CGoto(c, "idle")
           /\ UNCHANGED <<status, tasks, idle, mutex, blocked, pc, task, item,
                          committed, ran, due, missed>>

TestPause(c) == /\ cpc[c] = "idle"
                /\ \/ status = "RUNNING" /\ CGoto(c, "pause")
                   \/ status = "PAUSE" /\ CGoto(c, "resume")
                /\ UNCHANGED <<status, tasks, idle, mutex, blocked, pc, task, item,
                               committed, ran, due, missed>>

SetPause(c) == /\ \/ cpc[c] = "pause" /\ status' = "PAUSE"
                  \/ cpc[c] = "resume" /\ status' = "RUNNING"
               /\ CGoto(c, "idle")
               /\ UNCHANGED <<tasks, idle, mutex, blocked, pc, task, item, committed,
                              ran, due, missed>>

Commit(c, t) == /\ cpc[c] = "idle"
                /\ t \notin committed /\ \A d \in Controllers : item[d] # t
                /\ item' = [item EXCEPT ![c] = t]
                /\ CGoto(c, "commit")
                /\ UNCHANGED <<status, tasks, idle, mutex, blocked, pc, task,
                               committed, ran, due, missed>>

\* The lock_guard block of commit is one step.
Emplace(c) == /\ cpc[c] = "commit"
              /\ mutex = Nobody
              /\ tasks' = Append(tasks, item[c])
              /\ committed' = committed \union {item[c]}
              /\ item' = [item EXCEPT ![c] = NoTask]
              /\ CGoto(c, "wake")
              /\ UNCHANGED <<status, idle, mutex, blocked, pc, task, ran, due, missed>>

CommitNotify(c) == /\ cpc[c] = "wake"
                   /\ \/ blocked = {} /\ UNCHANGED blocked
                      \/ \E w \in blocked : blocked' = blocked \ {w}
                   /\ CGoto(c, "idle")
                   /\ UNCHANGED <<status, tasks, idle, mutex, pc, task, item,
                                  committed, ran, due, missed>>

Wait(c) == /\ cpc[c] = "idle"
           /\ CGoto(c, "wait")
           /\ due' = [due EXCEPT ![c] = committed]
           /\ UNCHANGED <<status, tasks, idle, mutex, blocked, pc, task, item,
                          committed, ran, missed>>

\* tasks.empty() is read without the mutex, then idle_num.
WaitEmpty(c) == /\ cpc[c] = "wait"
                /\ tasks = <<>>
                /\ CGoto(c, "empty")
                /\ UNCHANGED <<status, tasks, idle, mutex, blocked, pc, task, item,
                               committed, ran, due, missed>>

WaitIdle(c) == /\ cpc[c] = "empty"
               /\ CGoto(c, IF idle = Cardinality(Workers) THEN "idle" ELSE "wait")
               /\ UNCHANGED <<status, tasks, idle, mutex, blocked, pc, task, item,
                              committed, ran, due, missed>>

\* wait gives up when the pool is stopped.
WaitStopped(c) == /\ cpc[c] = "wait"
                  /\ status = "STOP"
                  /\ CGoto(c, "idle")
                  /\ UNCHANGED <<status, tasks, idle, mutex, blocked, pc, task, item,
                                 committed, ran, due, missed>>

Call(c) == \/ c \in Owners /\ (Start(c) \/ TestStop(c) \/ TestPause(c))
           \/ Wait(c)
           \/ \E t \in Tasks : Commit(c, t)

InCall(c) == \/ SetStop(c) \/ StopNotify(c) \/ Join(c) \/ SetPause(c)
             \/ Emplace(c) \/ CommitNotify(c)
             \/ WaitEmpty(c) \/ WaitIdle(c) \/ WaitStopped(c)

Next == \/ \E w \in Workers : Worker(w)
        \/ \E c \in Controllers : Call(c) \/ InCall(c)

Spec == Init /\ [][Next]_vars

Fairness == /\ \A w \in Workers : WF_vars(Worker(w))
            /\ \A c \in Controllers : WF_vars(InCall(c))

FairSpec == Spec /\ Fairness

-----------------------------------------------------------------------------
TypeOK == /\ status \in {"STOP", "RUNNING", "PAUSE"}
          /\ tasks \in Seq(Tasks)
          /\ idle \in 0..Cardinality(Workers)
          /\ mutex \in Workers \union {Nobody}
          /\ blocked \subseteq Workers
          /\ pc \in [Workers -> {"none", "loop", "paused", "lock", "test", "block",
                                 "take", "run", "ran", "end"}]
          /\ task \in [Workers -> Tasks \union {NoTask}]
          /\ cpc \in [Controllers -> {"idle", "stop", "notify", "join", "pause", "resume",
                                      "commit", "wake", "wait", "empty"}]
          /\ item \in [Controllers -> Tasks \union {NoTask}]
          /\ committed \subseteq Tasks /\ ran \subseteq Tasks
          /\ due \in [Controllers -> SUBSET Tasks]
          /\ missed \subseteq Workers

\* idle_num counts exactly the workers that have no task in hand: it goes down
\* with the queue and up after the task.
IdleExact == idle = Cardinality({w \in Workers : pc[w] \notin {"run", "ran"}})

\* wait returns by its second condition only when everything committed before
\* it was called has run, although it reads the queue without the mutex and
\* idle_num at another time.
WaitTruth == [][\A c \in Controllers :
                   cpc[c] = "empty" /\ cpc'[c] = "idle" => due[c] \subseteq ran]_vars

\* With one owner no worker calls an empty task, which would end the process:
\* when it left _cond.wait for another reason than STOP, there is a task.
NoEmptyCall == \A w \in Workers : pc[w] = "run" => task[w] # NoTask

\* What holds in every state: the types, the exact count of idle workers and a
\* task in the hands of each worker that runs one (thread_pool.hpp).
Consistent == TypeOK /\ IdleExact /\ NoEmptyCall

\* A committed task runs as long as nobody pauses or stops the pool.
TasksRun == \A t \in Tasks :
               t \in committed ~> (t \in ran \/ status # "RUNNING")

\* Once stop has notified, every worker leaves its loop (thread_pool.hpp:132,
\* 140-144, 162-170) but the ones its notification came too early for: those that
\* had found the predicate of _cond false before stop set the status and had not
\* blocked yet when it notified.  For these the join in stop may wait for ever.
StopLeaves == (status = "STOP" /\ \E c \in Controllers : cpc[c] = "join") ~>
                 \A w \in Workers : pc[w] = "end" \/ w \in missed
=============================================================================
