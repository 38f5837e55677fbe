--------------------------- MODULE TaskPoolProofs ---------------------------
(***************************************************************************)
(* Proofs about TaskPool, for any finite sets of workers and producers,    *)
(* any tasks and any bound of the queue: no consumer and no producer is    *)
(* forgotten by notify_one, no task is in two places, and stop returns to  *)
(* a quiet pool.  WaitersInv and PlaceInv are what these need to be        *)
(* inductive: a thread on a condition variable is inside push or pop, and  *)
(* the queue, the workers' hands and the tasks that ran hold added tasks.  *)
(***************************************************************************)
EXTENDS TaskPool, TLAPS, FiniteSetTheorems

\* The threads on a condition variable are inside the function that waits on it.
WaitersInv == /\ \A w \in notEmpty : pc[w] = "pop"
              /\ \A p \in notFull : ppc[p] = "push"

\* Where an item and a task can be: an item that a producer brings is in one hand
\* and not yet added, a queued one is at one place of the queue.
PlaceInv == /\ \A w \in Workers : task[w] # NoTask <=> pc[w] \in {"popped", "run"}
            /\ \A p \in Producers : /\ item[p] # NoTask <=> ppc[p] = "push"
                                    /\ item[p] \notin added
                                    /\ \A q \in Producers :
                                          item[p] = item[q] /\ item[p] # NoTask => p = q
            /\ \A i \in 1..Len(queue) :
                  /\ queue[i] \in added \ ran
                  /\ \A w \in Workers : task[w] # queue[i]
                  /\ \A j \in 1..Len(queue) : queue[i] = queue[j] => i = j
            /\ \A w \in Workers : task[w] # NoTask =>
                  /\ task[w] \in added \ ran
                  /\ \A v \in Workers : task[v] = task[w] => v = w
            /\ ran \subseteq added

IInv == /\ TypeOK /\ WaitersInv /\ PlaceInv
        /\ StoppedMeansQuiet /\ ConsumersAwake /\ ProducersAwake

-----------------------------------------------------------------------------
(* Counting.                                                               *)

\* The threads awake in pop and in push are finitely many.
LEMMA CountFinite ==
  /\ IsFiniteSet(Popping) /\ Cardinality(Popping) \in Nat
  /\ IsFiniteSet(Pushing) /\ Cardinality(Pushing) \in Nat
<1>1. Popping \in SUBSET Workers /\ Pushing \in SUBSET Producers
  BY DEF Popping, Pushing
<1>2. IsFiniteSet(Popping) /\ IsFiniteSet(Pushing)
  BY <1>1, FS_Subset, TaskPoolAssumption
<1> QED BY <1>2, FS_CardinalityType

\* A sequence without repetition has as many members as places.
LEMMA AsManyAsPlaces ==
  ASSUME NEW S, NEW q \in Seq(S),
         \A i, j \in 1..Len(q) : q[i] = q[j] => i = j
  PROVE  Cardinality({q[i] : i \in 1..Len(q)}) = Len(q)
<1> DEFINE T == {q[i] : i \in 1..Len(q)}
           f == [i \in 1..Len(q) |-> q[i]]
<1>1. f \in Bijection(1..Len(q), T)
  BY DEF Bijection, Injection, Surjection, IsInjective
<1>2. ExistsBijection(1..Len(q), T)
  BY <1>1 DEF ExistsBijection
<1>3. Len(q) \in Nat
  OBVIOUS
<1> QED BY <1>2, <1>3, FS_CountingElements

-----------------------------------------------------------------------------
\* Every step keeps the types, the places of the tasks and the quiet after stop.
LEMMA PlacesStep ==
  ASSUME IInv, [Next]_vars
  PROVE  TypeOK' /\ WaitersInv' /\ PlaceInv' /\ StoppedMeansQuiet'
<1> USE TaskPoolAssumption
    DEF IInv, TypeOK, WaitersInv, PlaceInv, StoppedMeansQuiet, Goto
<1>1. ASSUME NEW p \in Producers, NEW t \in Tasks, AddTask(p, t)
      PROVE  TypeOK' /\ WaitersInv' /\ PlaceInv' /\ StoppedMeansQuiet'
  BY <1>1 DEF AddTask
<1>2. ASSUME NEW p \in Producers, Push(p)
      PROVE  TypeOK' /\ WaitersInv' /\ PlaceInv' /\ StoppedMeansQuiet'
  <2>1. CASE stop
    BY <1>2, <2>1 DEF Push, PushDone
  <2>2. CASE ~stop /\ Len(queue) < Limit
    <3>1. /\ queue' = Append(queue, item[p]) /\ item[p] \in Tasks
          /\ added' = added \union {item[p]}
          /\ UNCHANGED <<stop, running, pc, task, spc, asked, ran, notFull>>
      BY <1>2, <2>2 DEF Push
    <3>2. PushDone(p) /\ notEmpty' \subseteq notEmpty
      BY <1>2, <2>2 DEF Push, NotifyNotEmpty
    <3>3. /\ queue' \in Seq(Tasks) /\ Len(queue') = Len(queue) + 1
          /\ queue'[Len(queue) + 1] = item[p]
          /\ \A i \in 1..Len(queue) : queue'[i] = queue[i]
      BY <3>1
    <3>4. TypeOK' /\ WaitersInv' /\ StoppedMeansQuiet'
      BY <1>2, <2>2, <3>1, <3>2, <3>3 DEF PushDone, Push
    <3>5. PlaceInv'
      BY <1>2, <3>1, <3>2, <3>3 DEF PushDone, Push
    <3> QED BY <3>4, <3>5
  <2>3. CASE ~stop /\ Len(queue) >= Limit
    BY <1>2, <2>3 DEF Push
  <2> QED BY <2>1, <2>2, <2>3
<1>3. ASSUME NEW w \in Workers, LoopTest(w) \/ Check(w) \/ RunTask(w)
      PROVE  TypeOK' /\ WaitersInv' /\ PlaceInv' /\ StoppedMeansQuiet'
  <2>1. CASE LoopTest(w)
    BY <2>1 DEF LoopTest
  <2>2. CASE Check(w)
    <3>1. CASE running
      BY <2>2, <3>1 DEF Check
    <3>2. CASE ~running
      <4>1. /\ task' = [task EXCEPT ![w] = NoTask] /\ Goto(w, "end") /\ pc[w] = "popped"
            /\ UNCHANGED <<queue, stop, running, notEmpty, notFull, ppc, item, spc,
                           asked, added, ran>>
        BY <2>2, <3>2 DEF Check
      <4>2. TypeOK' /\ WaitersInv' /\ StoppedMeansQuiet'
        BY <4>1
      <4>3. \A i \in 1..Len(queue) : queue[i] # NoTask
        OBVIOUS
      <4>4. PlaceInv'
        BY <4>1, <4>3
      <4> QED BY <4>2, <4>4
    <3> QED BY <3>1, <3>2
  <2>3. CASE RunTask(w)
    BY <2>3 DEF RunTask
  <2> QED BY <1>3, <2>1, <2>2, <2>3
<1>4. ASSUME NEW w \in Workers, Pop(w)
      PROVE  TypeOK' /\ WaitersInv' /\ PlaceInv' /\ StoppedMeansQuiet'
  <2>1. CASE stop \/ queue = <<>>
    BY <1>4, <2>1 DEF Pop
  <2>2. CASE ~stop /\ queue # <<>>
    <3>1. /\ task' = [task EXCEPT ![w] = Head(queue)] /\ queue' = Tail(queue)
          /\ pc' = [pc EXCEPT ![w] = "popped"] /\ pc[w] = "pop" /\ w \notin notEmpty
          /\ UNCHANGED <<stop, running, ppc, item, spc, asked, added, ran, notEmpty>>
          /\ notFull' \subseteq notFull
      BY <1>4, <2>2 DEF Pop, NotifyNotFull
    <3>2. /\ queue' \in Seq(Tasks) /\ Len(queue') = Len(queue) - 1
          /\ Head(queue) = queue[1] /\ Len(queue) >= 1
          /\ \A i \in 1..Len(queue') : queue'[i] = queue[i + 1]
      BY <2>2, <3>1
    <3>3. TypeOK' /\ WaitersInv' /\ StoppedMeansQuiet'
      BY <3>1, <3>2
    <3>4. PlaceInv'
      BY <3>1, <3>2
    <3> QED BY <3>3, <3>4
  <2> QED BY <2>1, <2>2
<1>5. ASSUME NEW s \in Stoppers, Stop(s) \/ StopStep(s)
      PROVE  TypeOK' /\ WaitersInv' /\ PlaceInv' /\ StoppedMeansQuiet'
  <2>1. CASE Stop(s)
    BY <2>1 DEF Stop
  <2>2. CASE StopFlag(s)
    BY <2>2 DEF StopFlag
  <2>3. CASE StopNotify(s)
    BY <2>3 DEF StopNotify
  <2>4. CASE ClearRunning(s)
    <3>1. running' \in BOOLEAN
      BY <2>4 DEF ClearRunning
    <3> QED BY <2>4, <3>1 DEF ClearRunning
  <2>5. CASE Join(s)
    BY <2>5 DEF Join
  <2> QED BY <1>5, <2>1, <2>2, <2>3, <2>4, <2>5 DEF StopStep
<1>6. CASE UNCHANGED vars
  BY <1>6 DEF vars
<1> QED BY <1>1, <1>2, <1>3, <1>4, <1>5, <1>6 DEF Next, Run

\* Every step keeps enough threads awake.
LEMMA AwakeStep ==
  ASSUME IInv, [Next]_vars
  PROVE  ConsumersAwake' /\ ProducersAwake'
<1> USE TaskPoolAssumption, CountFinite
    DEF IInv, TypeOK, WaitersInv, ConsumersAwake, ProducersAwake, Goto
<1>1. ASSUME NEW p \in Producers, NEW t \in Tasks, AddTask(p, t)
      PROVE  ConsumersAwake' /\ ProducersAwake'
  <2>1. Popping' = Popping
    BY <1>1 DEF AddTask, Popping
  <2>2. Pushing' = Pushing \cup {p} /\ p \notin Pushing
    BY <1>1 DEF AddTask, Pushing
  <2>3. Cardinality(Pushing') = Cardinality(Pushing) + 1
    BY <2>2, FS_AddElement
  <2> QED BY <1>1, <2>1, <2>3 DEF AddTask
<1>2. ASSUME NEW p \in Producers, Push(p)
      PROVE  ConsumersAwake' /\ ProducersAwake'
  <2>1. CASE stop
    BY <1>2, <2>1 DEF Push
  <2>2. CASE ~stop /\ Len(queue) < Limit
    <3>1. Len(queue') = Len(queue) + 1 /\ stop' = stop /\ notFull' = notFull
      BY <1>2, <2>2 DEF Push
    <3>2. Pushing' = Pushing \ {p} /\ p \in Pushing
      BY <1>2, <2>2 DEF Push, PushDone, Pushing
    <3>3. ProducersAwake'
      <4>1. Cardinality(Pushing') = Cardinality(Pushing) - 1
        BY <3>2, FS_RemoveElement
      <4> QED BY <2>2, <3>1, <4>1
    <3>4. CASE notEmpty = {}
      BY <1>2, <2>2, <3>3, <3>4 DEF Push, NotifyNotEmpty
    <3>5. CASE notEmpty # {}
      <4>1. PICK w \in notEmpty : notEmpty' = notEmpty \ {w}
        BY <1>2, <2>2, <3>5 DEF Push, NotifyNotEmpty
      <4>2. Popping' = Popping \cup {w} /\ w \notin Popping
        BY <1>2, <4>1 DEF Push, Popping
      <4>3. Cardinality(Popping') = Cardinality(Popping) + 1
        BY <4>2, FS_AddElement
      <4> QED BY <2>2, <3>1, <3>3, <3>5, <4>3
    <3> QED BY <3>4, <3>5
  <2>3. CASE ~stop /\ Len(queue) >= Limit
    <3>1. Popping' = Popping /\ UNCHANGED <<queue, stop, notEmpty>>
      BY <1>2, <2>3 DEF Push, Popping
    <3>2. Pushing' \in SUBSET Producers
      BY <1>2, <2>3 DEF Push, Pushing
    <3>3. Cardinality(Pushing') \in Nat
      BY <3>2, FS_Subset, FS_CardinalityType
    <3> QED BY <2>3, <3>1, <3>3
  <2> QED BY <2>1, <2>2, <2>3
<1>3. ASSUME NEW w \in Workers, LoopTest(w) \/ Check(w) \/ RunTask(w)
      PROVE  ConsumersAwake' /\ ProducersAwake'
  <2>1. UNCHANGED <<queue, stop, notEmpty, notFull>> /\ Pushing' = Pushing
    BY <1>3 DEF LoopTest, Check, RunTask, Pushing
  <2>2. \/ Popping' = Popping
        \/ Popping' = Popping \cup {w} /\ w \notin Popping
    BY <1>3 DEF LoopTest, Check, RunTask, Popping
  <2>3. Cardinality(Popping') \in {Cardinality(Popping), Cardinality(Popping) + 1}
    BY <2>2, FS_AddElement
  <2> QED BY <2>1, <2>3
<1>4. ASSUME NEW w \in Workers, Pop(w)
      PROVE  ConsumersAwake' /\ ProducersAwake'
  <2>1. CASE stop
    BY <1>4, <2>1 DEF Pop
  <2>2. CASE ~stop /\ queue # <<>>
    <3>1. Len(queue') = Len(queue) - 1 /\ stop' = stop /\ notEmpty' = notEmpty
      BY <1>4, <2>2 DEF Pop
    <3>2. Popping' = Popping \ {w} /\ w \in Popping
      BY <1>4, <2>2 DEF Pop, Popping
    <3>3. ConsumersAwake'
      <4>1. Cardinality(Popping') = Cardinality(Popping) - 1
        BY <3>2, FS_RemoveElement
      <4> QED BY <2>2, <3>1, <4>1
    <3>4. CASE notFull = {}
      BY <1>4, <2>2, <3>3, <3>4 DEF Pop, NotifyNotFull
    <3>5. CASE notFull # {}
      <4>1. PICK p \in notFull : notFull' = notFull \ {p}
        BY <1>4, <2>2, <3>5 DEF Pop, NotifyNotFull
      <4>2. Pushing' = Pushing \cup {p} /\ p \notin Pushing
        BY <1>4, <4>1 DEF Pop, Pushing
      <4>3. Cardinality(Pushing') = Cardinality(Pushing) + 1
        BY <4>2, FS_AddElement
      <4> QED BY <2>2, <3>1, <3>3, <3>5, <4>3
    <3> QED BY <3>4, <3>5
  <2>3. CASE ~stop /\ queue = <<>>
    <3>1. Pushing' = Pushing /\ UNCHANGED <<queue, stop, notFull>>
      BY <1>4, <2>3 DEF Pop, Pushing
    <3>2. Popping' \in SUBSET Workers
      BY <1>4, <2>3 DEF Pop, Popping
    <3>3. Cardinality(Popping') \in Nat
      BY <3>2, FS_Subset, FS_CardinalityType
    <3> QED BY <2>3, <3>1, <3>3
  <2> QED BY <2>1, <2>2, <2>3
<1>5. ASSUME NEW s \in Stoppers, Stop(s) \/ StopStep(s)
      PROVE  ConsumersAwake' /\ ProducersAwake'
  <2>1. CASE StopFlag(s) \/ StopNotify(s)
    BY <2>1 DEF StopFlag, StopNotify
  <2>2. CASE Stop(s) \/ ClearRunning(s) \/ Join(s)
    <3>1. UNCHANGED <<queue, stop, notEmpty, notFull, Popping, Pushing>>
      BY <2>2 DEF Stop, ClearRunning, Join, Popping, Pushing
    <3> QED BY <3>1
  <2> QED BY <1>5, <2>1, <2>2 DEF StopStep
<1>6. CASE UNCHANGED vars
  BY <1>6 DEF vars, Popping, Pushing
<1> QED BY <1>1, <1>2, <1>3, <1>4, <1>5, <1>6 DEF Next, Run

-----------------------------------------------------------------------------
\* IInv holds in every state of a ThreadTaskPool (thread_pool.hpp).
THEOREM Invariant == Spec => []IInv
<1>1. Init => IInv
  <2> SUFFICES ASSUME Init
               PROVE  IInv
    OBVIOUS
  <2>1. TypeOK
    <3>1. queue \in Seq(Tasks) /\ Len(queue) <= Limit
      BY TaskPoolAssumption DEF Init
    <3>2. stop \in BOOLEAN /\ running \in BOOLEAN /\ asked \in BOOLEAN
      BY DEF Init
    <3> QED BY <3>1, <3>2 DEF Init, TypeOK
  <2>2. WaitersInv /\ PlaceInv
    BY DEF Init, WaitersInv, PlaceInv
  <2>3. StoppedMeansQuiet /\ ConsumersAwake /\ ProducersAwake
    BY DEF Init, StoppedMeansQuiet, ConsumersAwake, ProducersAwake
  <2> QED BY <2>1, <2>2, <2>3 DEF IInv
<1>2. IInv /\ [Next]_vars => IInv'
  BY PlacesStep, AwakeStep DEF IInv
<1> QED BY <1>1, <1>2, PTL DEF Spec

\* While a thread sleeps on not_empty_ or not_full_, the threads that are awake
\* suffice for every queued task and every free place: notify_one is enough.
THEOREM Awake == Spec => []NobodyForgotten
<1>1. IInv => NobodyForgotten
  BY DEF IInv, NobodyForgotten
<1> QED BY <1>1, Invariant, PTL

\* The bound of the queue holds, each task is in one place at most, and a stop
\* that has returned leaves no worker running.
THEOREM ConsistentAlways == Spec => []Consistent
<1>1. ASSUME IInv
      PROVE  OnceEach
  <2>1. queue \in Seq(Tasks) /\ \A i, j \in 1..Len(queue) : queue[i] = queue[j] => i = j
    BY <1>1 DEF IInv, TypeOK, PlaceInv
  <2>2. Cardinality({queue[i] : i \in 1..Len(queue)}) = Len(queue)
    BY <2>1, AsManyAsPlaces
  <2> DEFINE queued == {queue[i] : i \in 1..Len(queue)}
             held == {task[w] : w \in Workers} \ {NoTask}
  <2>3. /\ queued \intersect held = {}
        /\ (queued \union held) \intersect ran = {}
    BY <1>1 DEF IInv, PlaceInv
  <2>4. \A v, w \in Workers : task[v] = task[w] /\ task[v] # NoTask => v = w
    BY <1>1 DEF IInv, PlaceInv
  <2> QED BY <2>2, <2>3, <2>4 DEF OnceEach
<1>2. IInv => Consistent
  BY <1>1 DEF IInv, Consistent
<1> QED BY <1>2, Invariant, PTL
=============================================================================
