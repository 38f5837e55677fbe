--------------------------- MODULE CxxPoolProofs ---------------------------
(***************************************************************************)
(* Proofs about CxxPool, for any finite set of workers, any threads that   *)
(* use the pool and any tasks, with at most one of the threads starting,   *)
(* stopping, pausing and resuming it (OneOwner; with two owners the        *)
(* theorems are false).  The argument: with one owner the status never     *)
(* leaves STOP while a worker is between its predicate and its task        *)
(* (StatusInv, TakeInv), so no worker goes on without a task, so idle_num  *)
(* is exact, so wait can rely on it (PlaceInv).                            *)
(***************************************************************************)
EXTENDS CxxPool, TLAPS, FiniteSetTheorems

\* Only one thread starts, stops, pauses and resumes the pool.
OneOwner == \A c, d \in Owners : c = d

\* _mutex has the owner that the place of a worker says.
LockInv == \A w \in Workers : mutex = w <=> pc[w] \in {"test", "block", "take"}

\* A pause or a resume that has tested the status is not overtaken by a stop.
StatusInv == \A c \in Controllers :
                /\ cpc[c] \in {"stop", "notify", "join", "pause", "resume"} => c \in Owners
                /\ cpc[c] \in {"pause", "resume"} => status # "STOP"

\* The predicate of _cond still holds when the worker takes its task.
TakeInv == \A w \in Workers : pc[w] = "take" => status = "STOP" \/ tasks # <<>>

HandInv == \A w \in Workers : task[w] # NoTask <=> pc[w] = "run"

\* A committed task is queued, in a worker's hand or run; a wait that has found
\* the queue empty waits for none that is queued.
PlaceInv == /\ \A t \in committed : \/ t \in ran
                                    \/ \E w \in Workers : task[w] = t
                                    \/ \E i \in 1..Len(tasks) : tasks[i] = t
            /\ \A c \in Controllers :
                  /\ item[c] # NoTask <=> cpc[c] = "commit"
                  /\ item[c] \notin committed
                  /\ \A d \in Controllers : item[c] = item[d] /\ item[c] # NoTask => c = d
                  /\ due[c] \subseteq committed
                  /\ cpc[c] = "empty" => \A i \in 1..Len(tasks) : tasks[i] \notin due[c]

StateInv == LockInv /\ StatusInv /\ TakeInv /\ HandInv /\ PlaceInv

IInv == TypeOK /\ IdleExact /\ StateInv

Idlers == {w \in Workers : pc[w] \notin {"run", "ran"}}

-----------------------------------------------------------------------------
\* The idle workers are finitely many, and as many as there are workers only when
\* every worker is one.
LEMMA CountIdlers ==
  /\ IsFiniteSet(Idlers) /\ Cardinality(Idlers) \in 0..Cardinality(Workers)
  /\ Cardinality(Idlers) = Cardinality(Workers) => Idlers = Workers
<1>1. Idlers \in SUBSET Workers
  BY DEF Idlers
<1> QED BY <1>1, FS_Subset, FS_CardinalityType, CxxPoolAssumption

\* Every step of a worker preserves the invariant but for the count.
LEMMA WorkerStep ==
  ASSUME IInv, NEW w \in Workers, Worker(w)
  PROVE  StateInv'
<1> USE CxxPoolAssumption
    DEF IInv, TypeOK, StateInv, LockInv, StatusInv, TakeInv, HandInv, PlaceInv, Goto
<1>1. CASE LoopTest(w) \/ PauseTest(w)
  BY <1>1 DEF LoopTest, PauseTest
<1>2. CASE Lock(w) \/ TestPredicate(w) \/ Block(w)
  BY <1>2 DEF Lock, TestPredicate, Block
<1>3. CASE Take(w)
  <2>1. CASE status = "STOP"
    BY <1>3, <2>1 DEF Take
  <2>2. CASE status # "STOP"
    <3>1. /\ tasks # <<>> /\ mutex = w /\ pc[w] = "take" /\ mutex' = Nobody
          /\ task' = [task EXCEPT ![w] = Head(tasks)] /\ tasks' = Tail(tasks)
          /\ pc' = [pc EXCEPT ![w] = "run"]
          /\ UNCHANGED <<status, cpc, item, committed, ran, due>>
      BY <1>3, <2>2 DEF Take
    <3>2. /\ Len(tasks') = Len(tasks) - 1 /\ Len(tasks) \in Nat /\ Len(tasks) >= 1
          /\ Head(tasks) = tasks[1] /\ Head(tasks) \in Tasks
          /\ \A i \in 1..Len(tasks') : tasks'[i] = tasks[i + 1]
      BY <3>1
    <3>3. LockInv' /\ StatusInv' /\ TakeInv' /\ HandInv'
      BY <2>2, <3>1, <3>2
    <3>4. ASSUME NEW t \in committed, NEW i \in 1..Len(tasks), tasks[i] = t
          PROVE  (\E v \in Workers : task'[v] = t) \/ \E j \in 1..Len(tasks') : tasks'[j] = t
      <4>1. CASE i = 1
        BY <3>1, <3>2, <3>4, <4>1
      <4>2. CASE i # 1
        <5>1. i - 1 \in 1..Len(tasks') /\ tasks'[i - 1] = t
          BY <3>2, <3>4, <4>2
        <5> QED BY <5>1
      <4> QED BY <4>1, <4>2
    <3>5. ASSUME NEW t \in committed, NEW v \in Workers, task[v] = t
          PROVE  \E u \in Workers : task'[u] = t
      <4>1. t # NoTask /\ v # w
        BY <3>1, <3>5
      <4> QED BY <3>1, <3>5, <4>1
    <3>6. PlaceInv'
      <4>1. \A t \in committed' : \/ t \in ran' \/ \E v \in Workers : task'[v] = t
                                  \/ \E i \in 1..Len(tasks') : tasks'[i] = t
        <5> SUFFICES ASSUME NEW t \in committed
                     PROVE  \/ t \in ran \/ \E v \in Workers : task'[v] = t
                            \/ \E i \in 1..Len(tasks') : tasks'[i] = t
          BY <3>1
        <5> QED BY <3>4, <3>5
      <4>2. \A d \in Controllers : cpc[d] = "empty" =>
               \A i \in 1..Len(tasks') : tasks'[i] \notin due[d]
        BY <3>2
      <4> QED BY <3>1, <4>1, <4>2
    <3> QED BY <3>3, <3>6
  <2> QED BY <2>1, <2>2
<1>4. CASE RunTask(w)
  <2>1. LockInv' /\ StatusInv' /\ TakeInv' /\ HandInv'
    BY <1>4 DEF RunTask
  <2>2. PlaceInv'
    BY <1>4 DEF RunTask
  <2> QED BY <2>1, <2>2
<1>5. CASE Finish(w)
  BY <1>5 DEF Finish
<1> QED BY <1>1, <1>2, <1>3, <1>4, <1>5 DEF Worker

\* Every step of a thread that uses the pool preserves the invariant but for the
\* count.
LEMMA ControllerStep ==
  ASSUME IInv, OneOwner, NEW c \in Controllers, Call(c) \/ InCall(c)
  PROVE  StateInv'
<1> USE CxxPoolAssumption
    DEF IInv, TypeOK, StateInv, LockInv, StatusInv, TakeInv, HandInv, PlaceInv, CGoto
<1>1. CASE c \in Owners /\ Start(c)
  BY <1>1 DEF Start
<1>2. CASE c \in Owners /\ TestStop(c)
  BY <1>2 DEF TestStop
<1>3. CASE c \in Owners /\ TestPause(c)
  BY <1>3 DEF TestPause
<1>4. CASE Wait(c)
  BY <1>4 DEF Wait
<1>5. ASSUME NEW t \in Tasks, Commit(c, t)
      PROVE  StateInv'
  BY <1>5 DEF Commit
<1>6. CASE SetStop(c)
  BY <1>6 DEF SetStop, OneOwner
<1>7. CASE StopNotify(c) \/ Join(c)
  BY <1>7 DEF StopNotify, Join
<1>8. CASE SetPause(c)
  BY <1>8 DEF SetPause
<1>9. CASE Emplace(c)
  <2>1. /\ tasks' = Append(tasks, item[c]) /\ item[c] \in Tasks /\ cpc[c] = "commit"
        /\ committed' = committed \union {item[c]}
        /\ item' = [item EXCEPT ![c] = NoTask] /\ cpc' = [cpc EXCEPT ![c] = "wake"]
        /\ UNCHANGED <<status, mutex, pc, task, ran, due>>
    BY <1>9 DEF Emplace
  <2>2. /\ Len(tasks') = Len(tasks) + 1 /\ tasks'[Len(tasks) + 1] = item[c]
        /\ \A i \in 1..Len(tasks) : tasks'[i] = tasks[i]
        /\ Len(tasks) \in Nat /\ tasks' # <<>>
    BY <2>1, SMTT(40)
  <2>3. LockInv' /\ StatusInv' /\ TakeInv' /\ HandInv'
    BY <2>1, <2>2
  <2>4. ASSUME NEW t \in committed'
        PROVE  \/ t \in ran \/ \E w \in Workers : task[w] = t
               \/ \E i \in 1..Len(tasks') : tasks'[i] = t
    <3>1. CASE t \in committed
      BY <2>2, <3>1
    <3>2. CASE t = item[c]
      <4>1. Len(tasks) + 1 \in 1..Len(tasks') /\ tasks'[Len(tasks) + 1] = t
        BY <2>2, <3>2
      <4> QED BY <4>1
    <3> QED BY <2>1, <2>4, <3>1, <3>2
  <2>5. ASSUME NEW d \in Controllers
        PROVE  /\ item'[d] # NoTask <=> cpc'[d] = "commit"
               /\ item'[d] \notin committed'
               /\ \A e \in Controllers : item'[d] = item'[e] /\ item'[d] # NoTask => d = e
               /\ due'[d] \subseteq committed'
    BY <2>1
  <2>6. ASSUME NEW d \in Controllers, cpc'[d] = "empty", NEW i \in 1..Len(tasks')
        PROVE  tasks'[i] \notin due[d]
    <3>1. d # c /\ cpc[d] = "empty"
      BY <2>1, <2>6
    <3>2. CASE i = Len(tasks) + 1
      BY <2>1, <2>2, <3>2
    <3>3. CASE i \in 1..Len(tasks)
      BY <2>2, <3>1, <3>3
    <3> QED BY <2>2, <2>6, <3>2, <3>3
  <2>7. PlaceInv'
    <3>1. \A t \in committed' : \/ t \in ran' \/ \E w \in Workers : task'[w] = t
                                \/ \E i \in 1..Len(tasks') : tasks'[i] = t
      BY <2>1, <2>4
    <3>2. \A d \in Controllers : cpc'[d] = "empty" =>
             \A i \in 1..Len(tasks') : tasks'[i] \notin due'[d]
      BY <2>1, <2>6
    <3> QED BY <2>5, <3>1, <3>2
  <2> QED BY <2>3, <2>7
<1>10. CASE CommitNotify(c) \/ WaitIdle(c) \/ WaitStopped(c)
  BY <1>10 DEF CommitNotify, WaitIdle, WaitStopped
<1>11. CASE WaitEmpty(c)
  BY <1>11 DEF WaitEmpty
<1> QED
  BY <1>1, <1>2, <1>3, <1>4, <1>5, <1>6, <1>7, <1>8, <1>9, <1>10, <1>11
  DEF Call, InCall

\* Every step preserves the types and the count of idle workers.
LEMMA CountStep ==
  ASSUME IInv, [Next]_vars
  PROVE  TypeOK' /\ IdleExact'
<1> USE CxxPoolAssumption, CountIdlers DEF IInv, TypeOK, Goto, CGoto
<1>1. IdleExact <=> idle = Cardinality(Idlers)
  BY DEF IdleExact, Idlers
<1>2. IdleExact' <=> idle' = Cardinality(Idlers')
  BY DEF IdleExact, Idlers
<1>3. idle' = Cardinality(Idlers') => idle' \in 0..Cardinality(Workers)
  <2>1. Idlers' \in SUBSET Workers
    BY DEF Idlers
  <2> QED BY <2>1, FS_Subset, FS_CardinalityType
<1>4. ASSUME NEW w \in Workers, Take(w)
      PROVE  TypeOK' /\ IdleExact'
  <2>1. CASE status = "STOP"
    <3>1. Idlers' = Idlers /\ idle' = idle
      BY <1>4, <2>1 DEF Take, Idlers
    <3> QED BY <1>1, <1>2, <1>4, <2>1, <3>1 DEF Take
  <2>2. CASE status # "STOP"
    <3>1. tasks # <<>>
      BY <1>4, <2>2 DEF Take, StateInv, TakeInv
    <3>2. Idlers' = Idlers \ {w} /\ w \in Idlers /\ idle' = idle - 1
      BY <1>4, <2>2, <3>1 DEF Take, Idlers
    <3>3. Cardinality(Idlers') = Cardinality(Idlers) - 1
      BY <3>2, FS_RemoveElement
    <3>4. Head(tasks) \in Tasks /\ Tail(tasks) \in Seq(Tasks)
      BY <3>1
    <3>5. idle' = Cardinality(Idlers')
      BY <1>1, <3>2, <3>3
    <3>6. idle' \in 0..Cardinality(Workers)
      BY <1>3, <3>5
    <3>7. TypeOK'
      <4>1. /\ mutex' = Nobody /\ task' = [task EXCEPT ![w] = Head(tasks)]
            /\ tasks' = Tail(tasks) /\ pc' = [pc EXCEPT ![w] = "run"]
            /\ UNCHANGED <<status, blocked, cpc, item, committed, ran, due>>
        BY <1>4, <2>2, <3>1 DEF Take
      <4>2. mutex' \in Workers \union {Nobody} /\ missed' = missed
        BY <1>4, <4>1 DEF Take
      <4> QED BY <3>4, <3>6, <4>1, <4>2
    <3> QED BY <1>2, <3>5, <3>7
  <2> QED BY <2>1, <2>2
<1>5. ASSUME NEW w \in Workers, Finish(w)
      PROVE  TypeOK' /\ IdleExact'
  <2>1. Idlers' = Idlers \cup {w} /\ w \notin Idlers /\ idle' = idle + 1
    BY <1>5 DEF Finish, Idlers
  <2>2. Cardinality(Idlers') = Cardinality(Idlers) + 1
    BY <2>1, FS_AddElement
  <2> QED BY <1>1, <1>2, <1>3, <1>5, <2>1, <2>2 DEF Finish
<1>6. ASSUME NEW w \in Workers,
             \/ LoopTest(w) \/ PauseTest(w) \/ Lock(w) \/ TestPredicate(w)
             \/ Block(w) \/ RunTask(w)
      PROVE  TypeOK' /\ IdleExact'
  <2>1. Idlers' = Idlers /\ idle' = idle
    BY <1>6 DEF LoopTest, PauseTest, Lock, TestPredicate, Block, RunTask, Idlers
  <2>2. TypeOK'
    BY <1>6 DEF LoopTest, PauseTest, Lock, TestPredicate, Block, RunTask
  <2> QED BY <1>1, <1>2, <2>1, <2>2
<1>7. ASSUME NEW c \in Controllers, Start(c)
      PROVE  TypeOK' /\ IdleExact'
  <2>1. Idlers' = Idlers /\ idle' = idle
    BY <1>7 DEF Start, Idlers
  <2> QED BY <1>1, <1>2, <1>7, <2>1 DEF Start
<1>8. ASSUME NEW c \in Controllers,
             \/ TestStop(c) \/ TestPause(c) \/ Wait(c) \/ (\E t \in Tasks : Commit(c, t))
             \/ InCall(c)
      PROVE  TypeOK' /\ IdleExact'
  <2>1. pc' = pc /\ idle' = idle
    BY <1>8 DEF TestStop, TestPause, Wait, Commit, InCall, SetStop, StopNotify, Join,
                SetPause, Emplace, CommitNotify, WaitEmpty, WaitIdle, WaitStopped
  <2>2. TypeOK'
    <3>1. CASE Emplace(c)
      <4>1. item[c] \in Tasks
        BY <3>1 DEF Emplace, StateInv, PlaceInv
      <4> QED BY <3>1, <4>1 DEF Emplace
    <3>2. CASE TestStop(c) \/ TestPause(c) \/ Wait(c) \/ \E t \in Tasks : Commit(c, t)
      BY <3>2 DEF TestStop, TestPause, Wait, Commit
    <3>3. CASE SetStop(c) \/ StopNotify(c) \/ Join(c) \/ SetPause(c)
      BY <3>3 DEF SetStop, StopNotify, Join, SetPause
    <3>4. CASE CommitNotify(c) \/ WaitEmpty(c) \/ WaitIdle(c) \/ WaitStopped(c)
      BY <3>4 DEF CommitNotify, WaitEmpty, WaitIdle, WaitStopped
    <3> QED BY <1>8, <3>1, <3>2, <3>3, <3>4 DEF InCall
  <2> QED BY <2>1, <2>2 DEF IdleExact
<1>9. CASE UNCHANGED vars
  BY <1>9 DEF vars, IdleExact
<1> QED BY <1>4, <1>5, <1>6, <1>7, <1>8, <1>9 DEF Next, Worker, Call

-----------------------------------------------------------------------------
\* IInv holds in every state of a ThreadPool with one owner (thread_pool.hpp).
THEOREM Invariant ==
  ASSUME OneOwner
  PROVE  Spec => []IInv
<1>1. Init => IInv
  <2> SUFFICES ASSUME Init
               PROVE  IInv
    OBVIOUS
  <2>1. Idlers = Workers
    BY DEF Init, Idlers
  <2>2. IdleExact /\ Cardinality(Workers) \in Nat
    BY <2>1, CxxPoolAssumption, FS_CardinalityType DEF Init, IdleExact, Idlers
  <2>3. TypeOK
    BY <2>2, CxxPoolAssumption DEF Init, TypeOK
  <2>4. StateInv
    BY CxxPoolAssumption
    DEF Init, StateInv, LockInv, StatusInv, TakeInv, HandInv, PlaceInv
  <2> QED BY <2>2, <2>3, <2>4 DEF IInv
<1>2. IInv /\ [Next]_vars => IInv'
  <2> SUFFICES ASSUME IInv, [Next]_vars
               PROVE  IInv'
    OBVIOUS
  <2>1. TypeOK' /\ IdleExact'
    BY CountStep
  <2>2. CASE UNCHANGED vars
    BY <2>1, <2>2
    DEF vars, IInv, StateInv, LockInv, StatusInv, TakeInv, HandInv, PlaceInv
  <2>3. StateInv'
    BY <2>2, WorkerStep, ControllerStep DEF Next, IInv
  <2> QED BY <2>1, <2>3 DEF IInv
<1> QED BY <1>1, <1>2, PTL DEF Spec

\* With one owner idle_num is exact and no worker calls an empty task.
THEOREM ConsistentAlways ==
  ASSUME OneOwner
  PROVE  Spec => []Consistent
<1>1. IInv => Consistent
  BY DEF IInv, StateInv, HandInv, Consistent, NoEmptyCall
<1>2. Spec => []IInv
  BY Invariant
<1> QED BY <1>1, <1>2, PTL

\* With one owner wait returns by its second condition only when everything that
\* was committed before it was called has run.
THEOREM WaitTellsTheTruth ==
  ASSUME OneOwner
  PROVE  Spec => WaitTruth
<1>1. ASSUME IInv, [Next]_vars, NEW c \in Controllers, cpc[c] = "empty", cpc'[c] = "idle"
      PROVE  due[c] \subseteq ran
  <2>1. idle = Cardinality(Workers)
    BY <1>1
    DEF Next, vars, Worker, LoopTest, PauseTest, Lock, TestPredicate, Block, Take,
        RunTask, Finish, Call, InCall, Start, TestStop, TestPause, Wait, Commit,
        SetStop, StopNotify, Join, SetPause, Emplace, CommitNotify, WaitEmpty,
        WaitIdle, WaitStopped, CGoto, IInv, TypeOK
  <2>2. \A w \in Workers : pc[w] \notin {"run", "ran"}
    BY <1>1, <2>1, CountIdlers DEF IInv, IdleExact, Idlers
  <2>3. \A w \in Workers : task[w] = NoTask
    BY <1>1, <2>2 DEF IInv, StateInv, HandInv
  <2>4. NoTask \notin committed
    BY <1>1, CxxPoolAssumption DEF IInv, TypeOK
  <2> QED BY <1>1, <2>3, <2>4 DEF IInv, StateInv, PlaceInv
<1>2. IInv /\ [Next]_vars =>
        [\A c \in Controllers : cpc[c] = "empty" /\ cpc'[c] = "idle" => due[c] \subseteq ran]_vars
  BY <1>1
<1>3. Spec => []IInv
  BY Invariant
<1> QED BY <1>2, <1>3, PTL DEF Spec, WaitTruth
=============================================================================
