---------------------------- MODULE ThPoolProofs ----------------------------
(***************************************************************************)
(* Proofs about ThPool, for any finite set of workers and any set of       *)
(* clients and jobs.  IInv is inductive: StateStep shows that every step   *)
(* preserves its first part, CountersStep its second, which needs          *)
(* cardinalities.  The safety theorems follow, and the refinement of       *)
(* WorkPool uses IInv in the one place where it is not a matter of form.   *)
(***************************************************************************)
EXTENDS ThPool, TLAPS, FiniteSetTheorems

USE DEF globals, bsem, counts, locks, workers, clients, signals, history

-----------------------------------------------------------------------------
(* Counting the workers at a set of places of thread_do.                   *)

\* The workers at some place are finitely many and their number is a natural.
LEMMA CountFinite ==
  ASSUME NEW S
  PROVE  IsFiniteSet(WorkersAt(S)) /\ Cardinality(WorkersAt(S)) \in Nat
<1>1. WorkersAt(S) \in SUBSET Workers
  BY DEF WorkersAt
<1>2. IsFiniteSet(WorkersAt(S))
  BY <1>1, FS_Subset, ThPoolAssumption
<1> QED BY <1>2, FS_CardinalityType

\* A counter that counts the workers at S is positive when one of them is there.
LEMMA CountPositive ==
  ASSUME NEW S, NEW w \in Workers, pc[w] \in S
  PROVE  Cardinality(WorkersAt(S)) >= 1
<1>1. WorkersAt(S) # {}
  BY DEF WorkersAt
<1>2. Cardinality(WorkersAt(S)) # 0
  BY <1>1, CountFinite, FS_EmptySet
<1> QED BY <1>2, CountFinite

\* What one worker's move does to the number of workers at S.
LEMMA CountMove ==
  ASSUME pc \in [Workers -> WorkerPC], NEW w \in Workers, NEW l, Goto(w, l), NEW S
  PROVE  Cardinality(WorkersAt(S)') =
           IF pc[w] \in S
             THEN IF l \in S THEN Cardinality(WorkersAt(S))
                             ELSE Cardinality(WorkersAt(S)) - 1
             ELSE IF l \in S THEN Cardinality(WorkersAt(S)) + 1
                             ELSE Cardinality(WorkersAt(S))
<1>1. pc[w] \in S <=> w \in WorkersAt(S)
  BY DEF WorkersAt
<1>2. CASE l \in S
  <2>1. WorkersAt(S)' = WorkersAt(S) \cup {w}
    BY <1>2 DEF WorkersAt, Goto
  <2> QED BY <1>1, <1>2, <2>1, CountFinite, FS_AddElement
<1>3. CASE l \notin S
  <2>1. WorkersAt(S)' = WorkersAt(S) \ {w}
    BY <1>3 DEF WorkersAt, Goto
  <2> QED BY <1>1, <1>3, <2>1, CountFinite, FS_RemoveElement
<1> QED BY <1>2, <1>3

\* When as many workers are alive as there are workers, all of them are.
LEMMA AllAlive ==
  ASSUME CountersExact, alive = Cardinality(Workers)
  PROVE  \A w \in Workers : pc[w] \in InAlive
<1>1. WorkersAt(InAlive) \in SUBSET Workers
  BY DEF WorkersAt
<1>2. WorkersAt(InAlive) = Workers
  BY <1>1, FS_Subset, ThPoolAssumption DEF CountersExact
<1> QED BY <1>2 DEF WorkersAt

\* When num_threads_alive is 0, no worker is in the loop of thread_do.
LEMMA NoneAlive ==
  ASSUME CountersExact, alive = 0
  PROVE  \A w \in Workers : pc[w] \notin InAlive
<1>1. WorkersAt(InAlive) = {}
  BY CountFinite, FS_EmptySet DEF CountersExact
<1> QED BY <1>1 DEF WorkersAt

\* A counter can be decremented by a worker it counts.
LEMMA Decrement ==
  ASSUME CountersExact, NEW w \in Workers
  PROVE  /\ pc[w] \in InWorking => working - 1 \in Nat
         /\ pc[w] \in InAlive => alive - 1 \in Nat
<1>1. pc[w] \in InWorking => working \in Nat /\ working >= 1
  BY CountPositive, CountFinite DEF CountersExact
<1>2. pc[w] \in InAlive => alive \in Nat /\ alive >= 1
  BY CountPositive, CountFinite DEF CountersExact
<1> QED BY <1>1, <1>2

\* When num_threads_working is 0, no worker holds a job.
LEMMA NoneWorking ==
  ASSUME CountersExact, JobInv, working = 0
  PROVE  \A w \in Workers : job[w] = NoJob
<1>1. WorkersAt(InWorking) = {}
  BY CountFinite, FS_EmptySet DEF CountersExact
<1> QED BY <1>1 DEF WorkersAt, InWorking, JobInv

-----------------------------------------------------------------------------
\* Every step preserves the first part of the inductive invariant.
LEMMA StateStep == IInv /\ [Next]_vars => StateInv'
<1> SUFFICES ASSUME IInv, [Next]_vars
             PROVE  StateInv'
  OBVIOUS
<1> USE ThPoolAssumption
    DEF StateInv, IInv, TypeOK, LockInv, PhaseInv, SleepInv, JobInv, WorkersAt,
        InWorking, InAlive, Fetching, NoStrandedJob, NoLostWakeup,
        FreedWhenQuiet, WorkerPC, Goto, CGoto, BsemPost, SignalAllIdle
<1>1. CASE ThpoolInit
  <2>1. TypeOK' /\ LockInv' /\ PhaseInv' /\ SleepInv'
    BY <1>1, ZenonT(60) DEF ThpoolInit
  <2>2. JobInv' /\ NoStrandedJob' /\ NoLostWakeup' /\ FreedWhenQuiet'
    BY <1>1 DEF ThpoolInit
  <2> QED BY <2>1, <2>2
<1>2. CASE InitReturn
  <2>1. \A w \in Workers : pc[w] \in InAlive
    BY <1>2, AllAlive DEF InitReturn
  <2> QED BY <1>2, <2>1 DEF InitReturn
<1>3. CASE DestroyBegin
  <2>1. TypeOK' /\ LockInv' /\ PhaseInv' /\ SleepInv'
    BY <1>3, ZenonT(60) DEF DestroyBegin
  <2>2. JobInv' /\ NoStrandedJob' /\ NoLostWakeup' /\ FreedWhenQuiet'
    BY <1>3 DEF DestroyBegin
  <2> QED BY <2>1, <2>2
<1>4. CASE DestroyPost
  BY <1>4 DEF DestroyPost
<1>5. CASE DestroyFree
  <2>1. \A w \in Workers : pc[w] \notin InAlive
    BY <1>5, NoneAlive DEF DestroyFree
  <2>2. TypeOK' /\ LockInv' /\ SleepInv' /\ JobInv' /\ NoStrandedJob' /\ NoLostWakeup'
    BY <1>5, <2>1 DEF DestroyFree
  <2>3. PhaseInv' /\ FreedWhenQuiet'
    BY <1>5, <2>1 DEF DestroyFree
  <2> QED BY <2>2, <2>3
<1>6. ASSUME NEW w \in Workers, LockCount(w)
      PROVE  StateInv'
  BY <1>6 DEF LockCount
<1>7. ASSUME NEW w \in Workers, AliveInc(w)
      PROVE  StateInv'
  BY <1>7 DEF AliveInc
<1>8. ASSUME NEW w \in Workers, LoopTest(w)
      PROVE  StateInv'
  BY <1>8 DEF LoopTest
<1>9. ASSUME NEW w \in Workers, BsemWait(w)
      PROVE  StateInv'
  BY <1>9 DEF BsemWait
<1>10. ASSUME NEW w \in Workers, KeepTest(w)
      PROVE  StateInv'
  BY <1>10 DEF KeepTest
<1>11. ASSUME NEW w \in Workers, WorkingInc(w)
      PROVE  StateInv'
  BY <1>11 DEF WorkingInc
<1>12. ASSUME NEW w \in Workers, LockQueue(w)
      PROVE  StateInv'
  BY <1>12 DEF LockQueue
<1>13. ASSUME NEW w \in Workers, Pull(w)
      PROVE  StateInv'
  <2>1. CASE queue = <<>>
    BY <1>13, <2>1 DEF Pull
  <2>2. CASE queue # <<>>
    <3>1. /\ Head(queue) \in Jobs /\ Tail(queue) \in Seq(Jobs)
          /\ Len(Tail(queue)) = Len(queue) - 1
          /\ Head(queue) = queue[1]
          /\ \A i \in 1..Len(Tail(queue)) : Tail(queue)[i] = queue[i + 1]
      BY <2>2
    <3>2. /\ job' = [job EXCEPT ![w] = Head(queue)]
          /\ queue' = Tail(queue)
          /\ pc' = [pc EXCEPT ![w] = "run"]
          /\ rwmutex' = Nobody
          /\ UNCHANGED <<globals, phase, counts, thcount, clients, signals, history>>
      BY <1>13, <2>2 DEF Pull
    <3>3. /\ bsemV' \in {0, 1} /\ asleep' \in SUBSET asleep
          /\ Len(queue) > 1 => bsemV' = 1
          /\ asleep' # asleep => bsemV' = 1
          /\ bsemV' = 1 => \/ bsemV = 1 /\ asleep' = asleep
                          \/ asleep = {}
                          \/ \E v \in asleep : asleep' = asleep \ {v}
      BY <1>13, <2>2 DEF Pull
    <3>4. TypeOK' /\ LockInv' /\ SleepInv'
      <4>1. TypeOK'
        BY <3>1, <3>2, <3>3
      <4>2. LockInv'
        BY <1>13, <3>2 DEF Pull
      <4>3. SleepInv'
        BY <1>13, <3>2, <3>3 DEF Pull
      <4> QED BY <4>1, <4>2, <4>3
    <3>5. PhaseInv' /\ FreedWhenQuiet'
      BY <1>13, <2>2, <3>2 DEF Pull
    <3>6. NoStrandedJob'
      BY <2>2, <3>1, <3>2, <3>3
    <3>7. NoLostWakeup'
      BY <1>13, <3>2, <3>3 DEF Pull
    <3>8. \A j : (\E i \in 1..Len(queue) : queue[i] = j) =>
                 j = Head(queue) \/ \E i \in 1..Len(Tail(queue)) : Tail(queue)[i] = j
      <4>1. SUFFICES ASSUME NEW j, NEW i \in 1..Len(queue), queue[i] = j, i # 1
                     PROVE  Tail(queue)[i - 1] = j /\ i - 1 \in 1..Len(Tail(queue))
        BY <3>1
      <4> QED BY <2>2, <3>1, <4>1
    <3>9. JobInv'
      <4>1. \A i \in 1..Len(queue') : queue'[i] \in accepted
        BY <3>1, <3>2
      <4>2. Head(queue) \in accepted /\ Head(queue) # NoJob
        BY <2>2, <3>1
      <4>3. \A v \in Workers : (job'[v] # NoJob <=> pc'[v] = "run")
                            /\ (job'[v] # NoJob => job'[v] \in accepted)
        BY <3>2, <4>2
      <4>4. \A j \in accepted : phase # "freed" =>
               \/ j \in done
               \/ \E i \in 1..Len(queue') : queue'[i] = j
               \/ \E v \in Workers : job'[v] = j
        <5>1. job[w] = NoJob /\ job'[w] = Head(queue)
          BY <1>13, <3>2 DEF Pull
        <5>2. \A v \in Workers : job[v] # NoJob => job'[v] = job[v]
          BY <3>2, <5>1
        <5>3. \A j \in accepted : j # NoJob
          OBVIOUS
        <5>4. ASSUME NEW j \in accepted, phase # "freed"
              PROVE  \/ j \in done
                     \/ \E i \in 1..Len(queue') : queue'[i] = j
                     \/ \E v \in Workers : job'[v] = j
          <6>1. CASE \E v \in Workers : job[v] = j
            BY <5>2, <5>3, <6>1
          <6>2. CASE \E i \in 1..Len(queue) : queue[i] = j
            <7>1. CASE j = Head(queue)
              BY <5>1, <7>1
            <7>2. CASE \E i \in 1..Len(Tail(queue)) : Tail(queue)[i] = j
              BY <3>2, <7>2
            <7> QED BY <3>8, <6>2, <7>1, <7>2
          <6> QED BY <5>4, <6>1, <6>2
        <5> QED BY <5>4
      <4> QED BY <3>2, <4>1, <4>3, <4>4
    <3> QED BY <3>4, <3>5, <3>6, <3>7, <3>9
  <2> QED BY <2>1, <2>2
<1>14. ASSUME NEW w \in Workers, RunJob(w)
      PROVE  StateInv'
  BY <1>14 DEF RunJob
<1>15. ASSUME NEW w \in Workers, WorkingDec(w)
      PROVE  StateInv'
  <2>1. working - 1 \in Nat
    BY <1>15, Decrement DEF WorkingDec
  <2>2. TypeOK' /\ LockInv' /\ PhaseInv' /\ SleepInv'
    BY <1>15, <2>1 DEF WorkingDec
  <2>3. JobInv' /\ NoStrandedJob' /\ NoLostWakeup' /\ FreedWhenQuiet'
    BY <1>15 DEF WorkingDec
  <2> QED BY <2>2, <2>3
<1>16. ASSUME NEW w \in Workers, AliveDec(w)
      PROVE  StateInv'
  <2>1. alive - 1 \in Nat
    BY <1>16, Decrement DEF AliveDec
  <2>2. TypeOK' /\ LockInv' /\ PhaseInv' /\ SleepInv'
    BY <1>16, <2>1 DEF AliveDec
  <2>3. JobInv' /\ NoStrandedJob' /\ NoLostWakeup' /\ FreedWhenQuiet'
    BY <1>16 DEF AliveDec
  <2> QED BY <2>2, <2>3
<1>17. ASSUME NEW w \in Workers, ExitUnlock(w)
      PROVE  StateInv'
  BY <1>17 DEF ExitUnlock
<1>18. ASSUME NEW w \in Workers, SigDeliver(w)
      PROVE  StateInv'
  BY <1>18 DEF SigDeliver
<1>19. ASSUME NEW w \in Workers, SigReturn(w)
      PROVE  StateInv'
  BY <1>19 DEF SigReturn
<1>20. ASSUME NEW c \in Clients, NEW j \in Jobs, AddWork(c, j)
      PROVE  StateInv'
  BY <1>20 DEF AddWork
<1>21. ASSUME NEW c \in Clients, LockQueueC(c)
      PROVE  StateInv'
  BY <1>21 DEF LockQueueC
<1>22. ASSUME NEW c \in Clients, Push(c)
      PROVE  StateInv'
  <2>1. carry[c] \in Jobs
    BY <1>22 DEF Push
  <2>2. /\ queue' \in Seq(Jobs) /\ Len(queue') = Len(queue) + 1
        /\ queue'[Len(queue) + 1] = carry[c]
        /\ \A i \in 1..Len(queue) : queue'[i] = queue[i]
    BY <1>22, <2>1 DEF Push
  <2>3. TypeOK' /\ LockInv' /\ PhaseInv' /\ SleepInv'
    BY <1>22, <2>1, <2>2 DEF Push
  <2>4. NoStrandedJob' /\ NoLostWakeup' /\ FreedWhenQuiet'
    BY <1>22 DEF Push
  <2>5. JobInv'
    BY <1>22, <2>1, <2>2 DEF Push
  <2> QED BY <2>3, <2>4, <2>5
<1>23. ASSUME NEW c \in Clients, Wait(c)
      PROVE  StateInv'
  BY <1>23 DEF Wait
<1>24. ASSUME NEW c \in Clients, LockCountC(c)
      PROVE  StateInv'
  BY <1>24 DEF LockCountC
<1>25. ASSUME NEW c \in Clients, WaitTest(c)
      PROVE  StateInv'
  BY <1>25 DEF WaitTest
<1>26. ASSUME NEW c \in Clients, Pause(c)
      PROVE  StateInv'
  <2>1. TypeOK'
    <3>1. sigPending' \subseteq Workers
      BY <1>26 DEF Pause
    <3>2. pauses' \in 0..MaxPauses
      BY <1>26 DEF Pause
    <3> QED BY <1>26, <3>1, <3>2 DEF Pause
  <2>2. LockInv' /\ PhaseInv' /\ SleepInv'
    BY <1>26 DEF Pause
  <2>3. JobInv' /\ NoStrandedJob' /\ NoLostWakeup' /\ FreedWhenQuiet'
    BY <1>26 DEF Pause
  <2> QED BY <2>1, <2>2, <2>3
<1>27. ASSUME NEW c \in Clients, Resume(c)
      PROVE  StateInv'
  <2>1. TypeOK'
    BY <1>27 DEF Resume
  <2>2. LockInv' /\ PhaseInv' /\ SleepInv'
    BY <1>27 DEF Resume
  <2>3. JobInv' /\ NoStrandedJob' /\ NoLostWakeup' /\ FreedWhenQuiet'
    BY <1>27 DEF Resume
  <2> QED BY <2>1, <2>2, <2>3
<1>28. CASE SpuriousWake
  BY <1>28 DEF SpuriousWake
<1>29. CASE UNCHANGED vars
  BY <1>29 DEF vars
<1> QED BY <1>1, <1>2, <1>3, <1>4, <1>5, <1>6, <1>7, <1>8, <1>9, <1>10, <1>11, <1>12, <1>13, <1>14, <1>15, <1>16, <1>17, <1>18, <1>19, <1>20, <1>21, <1>22, <1>23, <1>24, <1>25, <1>26, <1>27, <1>28, <1>29
    DEF Next, Owner, ThreadDo, Call, InCall

-----------------------------------------------------------------------------
\* Every step keeps the counters equal to the number of workers they count.
LEMMA CountersStep == IInv /\ [Next]_vars => CountersExact'
<1> SUFFICES ASSUME IInv, [Next]_vars
             PROVE  CountersExact'
  OBVIOUS
<1> USE DEF IInv, StateInv, TypeOK, CountersExact
<1> DEFINE Same(w) == \E l : /\ Goto(w, l)
                             /\ pc[w] \in InAlive <=> l \in InAlive
                             /\ pc[w] \in InWorking <=> l \in InWorking
<1>1. ASSUME NEW w \in Workers, Same(w), UNCHANGED counts
      PROVE  CountersExact'
  BY <1>1, CountMove
<1>2. ASSUME UNCHANGED <<pc, counts>>
      PROVE  CountersExact'
  BY <1>2 DEF WorkersAt
<1>3. CASE ThpoolInit
  <2>1. WorkersAt(InAlive)' = WorkersAt(InAlive) /\ WorkersAt(InWorking)' = WorkersAt(InWorking)
    BY <1>3 DEF ThpoolInit, PhaseInv, WorkersAt, InAlive, InWorking
  <2> QED BY <1>3, <2>1 DEF ThpoolInit
<1>4. ASSUME NEW w \in Workers, AliveInc(w)
      PROVE  CountersExact'
  <2>1. Goto(w, "loop") /\ alive' = alive + 1 /\ working' = working /\ pc[w] = "start"
    BY <1>4 DEF AliveInc
  <2> QED BY <2>1, CountMove DEF InAlive, InWorking
<1>5. ASSUME NEW w \in Workers, WorkingInc(w)
      PROVE  CountersExact'
  <2>1. Goto(w, "pull") /\ alive' = alive /\ working' = working + 1 /\ pc[w] = "inc"
    BY <1>5 DEF WorkingInc
  <2> QED BY <2>1, CountMove DEF InAlive, InWorking
<1>6. ASSUME NEW w \in Workers, WorkingDec(w)
      PROVE  CountersExact'
  <2>1. Goto(w, "loop") /\ alive' = alive /\ working' = working - 1 /\ pc[w] = "dec"
    BY <1>6 DEF WorkingDec
  <2> QED BY <2>1, CountMove DEF InAlive, InWorking
<1>7. ASSUME NEW w \in Workers, AliveDec(w)
      PROVE  CountersExact'
  <2>1. Goto(w, "unlock") /\ alive' = alive - 1 /\ working' = working /\ pc[w] = "exit"
    BY <1>7 DEF AliveDec
  <2> QED BY <2>1, CountMove DEF InAlive, InWorking
<1>8. ASSUME NEW w \in Workers,
             LoopTest(w) \/ KeepTest(w) \/ RunJob(w) \/ ExitUnlock(w)
      PROVE  Same(w) /\ UNCHANGED counts
  BY <1>8 DEF LoopTest, KeepTest, RunJob, ExitUnlock, InAlive, InWorking
<1>9. ASSUME NEW w \in Workers, Pull(w)
      PROVE  Same(w) /\ UNCHANGED counts
  BY <1>9 DEF Pull, InAlive, InWorking
<1>10. ASSUME NEW w \in Workers, BsemWait(w)
       PROVE  (Same(w) /\ UNCHANGED counts) \/ UNCHANGED <<pc, counts>>
  BY <1>10 DEF BsemWait, InAlive, InWorking
<1>11. ASSUME NEW w \in Workers,
              LockCount(w) \/ LockQueue(w) \/ SigDeliver(w) \/ SigReturn(w)
       PROVE  UNCHANGED <<pc, counts>>
  BY <1>11 DEF LockCount, LockQueue, SigDeliver, SigReturn
<1>12. ASSUME NEW c \in Clients, Call(c) \/ InCall(c)
       PROVE  UNCHANGED <<pc, counts>>
  BY <1>12 DEF Call, InCall, AddWork, LockQueueC, Push, Wait, LockCountC, WaitTest,
               Pause, Resume
<1>13. CASE InitReturn \/ DestroyBegin \/ DestroyPost \/ DestroyFree \/ SpuriousWake
  BY <1>2, <1>13 DEF InitReturn, DestroyBegin, DestroyPost, DestroyFree, SpuriousWake
<1>14. CASE UNCHANGED vars
  BY <1>2, <1>14 DEF vars
<1> QED
  BY <1>1, <1>2, <1>3, <1>4, <1>5, <1>6, <1>7, <1>8, <1>9, <1>10, <1>11, <1>12,
     <1>13, <1>14
  DEF Next, Owner, ThreadDo

-----------------------------------------------------------------------------
\* The invariant of the pool: it holds in the initial state and every step of
\* thread_do, of a client, of the owner or of a signal handler preserves it.
THEOREM Invariant == Spec => []IInv
<1>1. Init => IInv
  <2> SUFFICES ASSUME Init
               PROVE  IInv
    OBVIOUS
  <2>1. StateInv
    <3>1. TypeOK
      <4>1. queue \in Seq(Jobs) /\ pauses \in 0..MaxPauses
        BY ThPoolAssumption DEF Init
      <4>2. pc \in [Workers -> WorkerPC] /\ job \in [Workers -> Jobs \union {NoJob}]
        BY DEF Init, WorkerPC
      <4> QED BY <4>1, <4>2 DEF Init, TypeOK
    <3>2. LockInv /\ PhaseInv /\ SleepInv
      BY ThPoolAssumption DEF Init, LockInv, PhaseInv, SleepInv
    <3>3. JobInv /\ NoStrandedJob /\ NoLostWakeup /\ FreedWhenQuiet
      BY DEF Init, JobInv, NoStrandedJob, NoLostWakeup, FreedWhenQuiet
    <3> QED BY <3>1, <3>2, <3>3 DEF StateInv
  <2>2. WorkersAt(InAlive) = {} /\ WorkersAt(InWorking) = {}
    BY DEF Init, WorkersAt, InAlive, InWorking
  <2>3. CountersExact
    BY <2>2, FS_EmptySet DEF Init, CountersExact
  <2> QED BY <2>1, <2>3 DEF IInv
<1>2. IInv /\ [Next]_vars => IInv'
  BY StateStep, CountersStep DEF IInv
<1> QED BY <1>1, <1>2, PTL DEF Spec

\* The variables keep the types thpool.cpp declares.
THEOREM TypeCorrect == Spec => []TypeOK
<1>1. IInv => TypeOK
  BY DEF IInv, StateInv
<1> QED BY <1>1, Invariant, PTL

\* num_threads_alive and num_threads_working count exactly the workers that are
\* between the increment and the decrement.
THEOREM CountersCorrect == Spec => []CountersExact
<1>1. IInv => CountersExact
  BY DEF IInv
<1> QED BY <1>1, Invariant, PTL

\* The binary semaphore loses neither a queued job nor a wake-up.
THEOREM SemaphoreCorrect == Spec => [](NoStrandedJob /\ NoLostWakeup)
<1>1. IInv => NoStrandedJob /\ NoLostWakeup
  BY DEF IInv, StateInv
<1> QED BY <1>1, Invariant, PTL

\* thpool_destroy frees the pool only after every worker has left its loop.
THEOREM DestroySafe == Spec => []FreedWhenQuiet
<1>1. IInv => FreedWhenQuiet
  BY DEF IInv, StateInv
<1> QED BY <1>1, Invariant, PTL

\* A thread returns from thpool_wait only when every accepted job has run.
THEOREM WaitCorrect == Spec => WaitMeansDone
<1>1. ASSUME IInv, [Next]_vars, NEW c \in Clients, cpc[c] = "wait", cpc'[c] = "idle"
      PROVE  accepted = done
  <2>1. WaitTest(c)
    <3>1. cpc' # cpc
      BY <1>1
    <3>2. PICK d \in Clients : Call(d) \/ InCall(d)
      BY <1>1, <3>1
      DEF Next, vars, Owner, ThpoolInit, InitReturn, DestroyBegin, DestroyPost,
          DestroyFree, ThreadDo, LockCount, AliveInc, LoopTest, BsemWait, KeepTest,
          WorkingInc, LockQueue, Pull, RunJob, WorkingDec, AliveDec, ExitUnlock,
          SigDeliver, SigReturn, SpuriousWake
    <3>3. WaitTest(d)
      BY <1>1, <3>2
      DEF IInv, StateInv, TypeOK, Call, InCall, AddWork, LockQueueC, Push, Wait,
          LockCountC, WaitTest, Pause, Resume, CGoto
    <3> QED BY <1>1, <3>3 DEF WaitTest, CGoto, IInv, StateInv, TypeOK
  <2>2. queue = <<>> /\ working = 0
    BY <1>1, <2>1 DEF WaitTest
  <2>3. phase # "freed"
    BY <1>1 DEF IInv, StateInv, PhaseInv
  <2>4. \A w \in Workers : job[w] = NoJob
    BY <1>1, <2>2, NoneWorking DEF IInv, StateInv
  <2>5. \A j \in accepted : j # NoJob
    BY <1>1, ThPoolAssumption DEF IInv, StateInv, TypeOK
  <2>6. done \subseteq accepted
    BY <1>1 DEF IInv, StateInv, JobInv
  <2>7. accepted \subseteq done
    BY <1>1, <2>2, <2>3, <2>4, <2>5 DEF IInv, StateInv, JobInv
  <2> QED BY <2>6, <2>7
<1>2. IInv /\ [Next]_vars =>
        [\A c \in Clients : cpc[c] = "wait" /\ cpc'[c] = "idle" => accepted = done]_vars
  BY <1>1
<1> QED BY <1>2, Invariant, PTL DEF Spec, WaitMeansDone

-----------------------------------------------------------------------------
\* The pool implements WorkPool: adding is accepting, pulling is taking, the
\* return of the job's function is finishing, and freeing the pool closes it.
THEOREM Refinement == Spec => ImplementsWorkPool
<1>1. Init => WP!WPInit
  BY DEF Init, WP!WPInit
<1>2. ASSUME IInv, [Next]_vars
      PROVE  [WP!WPNext]_(WP!wpVars)
  <2> USE DEF WP!wpVars
  <2>1. ASSUME NEW c \in Clients, Push(c)
        PROVE  WP!Accept(carry[c]) /\ carry[c] \in Jobs
    BY <1>2, <2>1 DEF Push, WP!Accept, IInv, StateInv, TypeOK, JobInv
  <2>2. ASSUME NEW w \in Workers, Pull(w)
        PROVE  WP!Take(w) \/ UNCHANGED WP!wpVars
    BY <1>2, <2>2 DEF Pull, WP!Take, IInv, StateInv, JobInv
  <2>3. ASSUME NEW w \in Workers, RunJob(w)
        PROVE  WP!Finish(w)
    BY <1>2, <2>3 DEF RunJob, WP!Finish, IInv, StateInv, JobInv
  <2>4. CASE DestroyFree
    <3>1. \A w \in Workers : job[w] = NoJob
      BY <1>2, <2>4, NoneAlive DEF DestroyFree, IInv, StateInv, JobInv, InAlive
    <3>2. WP!Close
      BY <2>4, <3>1 DEF DestroyFree, WP!Close
    <3> QED BY <3>2 DEF WP!WPNext
  <2>5. CASE ThpoolInit \/ InitReturn \/ DestroyBegin \/ DestroyPost \/ SpuriousWake
    BY <2>5 DEF ThpoolInit, InitReturn, DestroyBegin, DestroyPost, SpuriousWake
  <2>6. ASSUME NEW w \in Workers,
               \/ LockCount(w) \/ AliveInc(w) \/ LoopTest(w) \/ BsemWait(w)
               \/ KeepTest(w) \/ WorkingInc(w) \/ LockQueue(w) \/ WorkingDec(w)
               \/ AliveDec(w) \/ ExitUnlock(w) \/ SigDeliver(w) \/ SigReturn(w)
        PROVE  UNCHANGED WP!wpVars
    BY <2>6 DEF LockCount, AliveInc, LoopTest, BsemWait, KeepTest, WorkingInc,
                LockQueue, WorkingDec, AliveDec, ExitUnlock, SigDeliver, SigReturn
  <2>7. ASSUME NEW c \in Clients,
               \/ Call(c) \/ LockQueueC(c) \/ LockCountC(c) \/ WaitTest(c)
        PROVE  UNCHANGED WP!wpVars
    BY <2>7 DEF Call, AddWork, Wait, Pause, Resume, LockQueueC, LockCountC, WaitTest
  <2>8. CASE UNCHANGED vars
    BY <2>8 DEF vars
  <2> QED
    BY <1>2, <2>1, <2>2, <2>3, <2>4, <2>5, <2>6, <2>7, <2>8
    DEF Next, Owner, ThreadDo, InCall, WP!WPNext
<1> QED BY <1>1, <1>2, Invariant, PTL DEF Spec, ImplementsWorkPool, WP!WPSpec
=============================================================================
