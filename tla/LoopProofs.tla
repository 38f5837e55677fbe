----------------------------- MODULE LoopProofs -----------------------------
(***************************************************************************)
(* Proofs about the event loop: the timers, idles and pending lists of     *)
(* LoopEvents, and how other threads reach the loop in LoopControl.        *)
(*                                                                         *)
(* LoopEvents, for any finite sets of timers, idles and io events, any     *)
(* delays and repeat counts: the events the loop walks over are allocated, *)
(* its counters are exact, nothing leaks, a deleted event is not called    *)
(* and a reset one not before its new time, all of it until a user deletes *)
(* a timer that was reset while the round still has to pass it (misused),  *)
(* for that deletion breaks the first of these at once.  It never comes    *)
(* where DelAfterReset is FALSE.                                           *)
(*                                                                         *)
(* An event is linked in the pending lists, or is the one whose callback   *)
(* runs, or neither.  LinkInv says how that goes with its flag pending,    *)
(* LifeInv how the flags go with its memory; ListInv is what makes taking  *)
(* the head of a list remove the event from all lists.                     *)
(*                                                                         *)
(* LoopControl, for any finite set of posting threads and any set of       *)
(* events: the bytes in the socket pair and the entries of custom_events   *)
(* never part, and posted events run as the jobs of a WorkPool with one    *)
(* worker.  Neither is inductive.  ByteInv counts the thread between its   *)
(* byte and its entry by the mutex it owns, and CarryInv says that an      *)
(* event on its way is not yet posted, which is what makes an append an    *)
(* Accept of WorkPool.                                                     *)
(***************************************************************************)
EXTENDS LoopEvents, LoopControl, TLAPS, FiniteSetTheorems

USE DEF objects, flags, counters, history

\* An event is linked once, in the list of its priority.
ListInv == \A p \in Priorities : \A i, j \in 1..Len(pendings[p]) :
              /\ Priority(pendings[p][i]) = p
              /\ pendings[p][i] = pendings[p][j] => i = j

\* A pending event is linked or running; only a reset timer is linked or running
\* and not pending, and that only while the round lasts.
LinkInv == /\ cur \notin Linked
           /\ pending \subseteq Linked \union {cur}
           /\ Idles \intersect (Linked \union {cur}) \subseteq pending
           /\ phase \in {"out", "top", "ended"} => Linked = {}
           /\ phase = "timers" => Linked \subseteq pending

\* Memory, flags and handles: what is to be deleted later is pending till then.
LifeInv == /\ Sources \subseteq live /\ Sources \subseteq active
           /\ destroy \intersect (unborn \union Sources) = {}
           /\ active \subseteq live
           /\ released \intersect (unborn \union active) = {}
           /\ live \ active \subseteq destroy
           /\ live \intersect destroy \subseteq pending

\* What is in the heap or in the list of idles has rounds left to run, and a timer
\* that waits for its time is not pending.
ArmInv == /\ \A e \in heap \union idles : repeat[e] >= 1
          /\ \A t \in Timeouts \ unborn : timeout[t] >= 1
          /\ waiting \intersect pending = {}

StateInv == TypeOK /\ LinkInv /\ LifeInv /\ ArmInv /\ NoUseAfterFree /\ WhereItIs

IInv == StateInv /\ ListInv /\ CountersExact

-----------------------------------------------------------------------------
(* The pending lists.                                                      *)

\* Each event has a priority, idles the lowest.
LEMMA PriorityType ==
  /\ \A e \in Events : Priority(e) \in Priorities
  /\ \A i \in Idles : Priority(i) = 1
BY LoopEventsAssumption DEF Priority, Priorities, Events, Timers

\* Where an event is linked.
LEMMA LinkedAt ==
  \A e : e \in Linked <=> \E p \in Priorities : \E i \in DOMAIN pendings[p] : pendings[p][i] = e
BY DEF Linked, ToSet

\* Lists that stay as they are.
LEMMA ListsSame ==
  ASSUME UNCHANGED pendings
  PROVE  Linked' = Linked /\ (ListInv => ListInv')
BY DEF Linked, ListInv

\* Linking an event that is not linked yet.
LEMMA ListsPend ==
  ASSUME TypeOK, ListInv, NEW e \in Events, e \notin Linked, e \notin pending, Pend(e)
  PROVE  /\ Linked' = Linked \union {e} /\ ListInv'
         /\ pendings' \in [Priorities -> Seq(Events)]
         /\ npendings' = npendings + 1 /\ pending' = pending \union {e}
<1> DEFINE p == Priority(e)
           s == pendings[p]
<1>1. p \in Priorities /\ s \in Seq(Events)
  BY PriorityType DEF TypeOK
<1>2. /\ pendings' = [pendings EXCEPT ![p] = <<e>> \o s]
      /\ npendings' = npendings + 1 /\ pending' = pending \union {e}
  BY <1>1 DEF Pend, TypeOK
<1> HIDE DEF p, s
<1> DEFINE l == <<e>> \o s
<1>3. /\ l \in Seq(Events) /\ Len(l) = Len(s) + 1 /\ Len(s) \in Nat
      /\ l[1] = e /\ \A i \in 2..Len(l) : l[i] = s[i - 1] /\ i - 1 \in 1..Len(s)
      /\ \A i \in 1..Len(s) : s[i] = l[i + 1] /\ i + 1 \in 2..Len(l)
      /\ DOMAIN l = 1..Len(l) /\ DOMAIN s = 1..Len(s)
  BY <1>1
<1>4. pendings'[p] = l /\ \A q \in Priorities : q # p => pendings'[q] = pendings[q]
  BY <1>1, <1>2 DEF TypeOK
<1> HIDE DEF l
<1>5. pendings' \in [Priorities -> Seq(Events)]
  BY <1>1, <1>2, <1>3 DEF TypeOK, l
<1>6. s = pendings[p]
  BY DEF s
<1>7. Linked' = Linked \union {e}
  <2>1. \A x : x \in Linked' <=>
              \E q \in Priorities : \E i \in DOMAIN pendings'[q] : pendings'[q][i] = x
    BY DEF Linked, ToSet
  <2>2. ASSUME NEW x \in Linked
        PROVE  x \in Linked'
    <3>1. PICK q \in Priorities : \E i \in DOMAIN pendings[q] : pendings[q][i] = x
      BY LinkedAt
    <3>2. PICK i \in DOMAIN pendings[q] : pendings[q][i] = x
      BY <3>1
    <3>3. CASE q = p
      <4>1. i + 1 \in DOMAIN l /\ l[i + 1] = x
        BY <1>3, <1>6, <3>2, <3>3
      <4> QED BY <1>1, <1>4, <2>1, <4>1
    <3>4. CASE q # p
      BY <1>4, <2>1, <3>2, <3>4
    <3> QED BY <3>3, <3>4
  <2>3. e \in Linked'
    <3>1. 1 \in DOMAIN l
      BY <1>3
    <3> QED BY <1>1, <1>3, <1>4, <2>1, <3>1
  <2>4. ASSUME NEW x \in Linked'
        PROVE  x \in Linked \union {e}
    <3>1. PICK q \in Priorities : \E i \in DOMAIN pendings'[q] : pendings'[q][i] = x
      BY <2>1
    <3>2. PICK i \in DOMAIN pendings'[q] : pendings'[q][i] = x
      BY <3>1
    <3>3. CASE q = p
      <4>1. i \in 1..Len(l) /\ l[i] = x
        BY <1>3, <1>4, <3>2, <3>3
      <4>2. i = 1 => x = e
        BY <1>3, <4>1
      <4>3. i # 1 => i - 1 \in DOMAIN s /\ s[i - 1] = x
        BY <1>3, <4>1
      <4> QED BY <1>1, <1>6, <4>2, <4>3, LinkedAt
    <3>4. CASE q # p
      BY <1>4, <3>2, <3>4, LinkedAt
    <3> QED BY <3>3, <3>4
  <2> QED BY <2>2, <2>3, <2>4
<1>8. ListInv'
  <2> SUFFICES ASSUME NEW q \in Priorities, NEW i \in 1..Len(pendings'[q]),
                      NEW j \in 1..Len(pendings'[q])
               PROVE  /\ Priority(pendings'[q][i]) = q
                      /\ pendings'[q][i] = pendings'[q][j] => i = j
    BY DEF ListInv
  <2>1. CASE q # p
    BY <1>4, <2>1 DEF ListInv
  <2>2. CASE q = p
    <3>1. \A k \in 1..Len(s) : Priority(s[k]) = p /\ s[k] # e
      BY <1>1, <1>3, <1>6, LinkedAt DEF ListInv
    <3>2. \A k, m \in 1..Len(s) : s[k] = s[m] => k = m
      BY <1>1, <1>6 DEF ListInv
    <3>3. Priority(e) = p
      BY DEF p
    <3> QED BY <1>3, <1>4, <2>2, <3>1, <3>2, <3>3
  <2> QED BY <2>1, <2>2
<1> QED BY <1>2, <1>5, <1>7, <1>8

\* Taking the head of the first list takes the event out of all lists.
LEMMA ListsVisit ==
  ASSUME TypeOK, ListInv, NEW e, Visit(e)
  PROVE  /\ e \in Linked /\ Linked' = Linked \ {e} /\ ListInv'
         /\ pendings' \in [Priorities -> Seq(Events)]
<1>1. PICK p \in Priorities : /\ pendings[p] # <<>> /\ e = Head(pendings[p])
                              /\ pendings' = [pendings EXCEPT ![p] = Tail(@)]
  BY DEF Visit
<1> DEFINE s == pendings[p]
           l == Tail(s)
<1>2. s \in Seq(Events) /\ s # <<>> /\ e = Head(s)
  BY <1>1 DEF TypeOK
<1>3. /\ l \in Seq(Events) /\ Len(s) \in Nat /\ Len(s) >= 1 /\ Len(l) = Len(s) - 1
      /\ s[1] = e /\ \A i \in 1..Len(l) : l[i] = s[i + 1] /\ i + 1 \in 2..Len(s)
      /\ \A i \in 2..Len(s) : s[i] = l[i - 1] /\ i - 1 \in 1..Len(l)
      /\ DOMAIN l = 1..Len(l) /\ DOMAIN s = 1..Len(s)
  BY <1>2
<1>4. pendings'[p] = l /\ \A q \in Priorities : q # p => pendings'[q] = pendings[q]
  BY <1>1 DEF TypeOK
<1>5. pendings' \in [Priorities -> Seq(Events)]
  BY <1>1, <1>3 DEF TypeOK
<1>6. s = pendings[p]
  OBVIOUS
<1> HIDE DEF s, l
<1>7. e \in Linked /\ Priority(e) = p
  BY <1>3, <1>6, LinkedAt DEF ListInv
<1>8. \A x : x \in Linked' <=>
            \E q \in Priorities : \E i \in DOMAIN pendings'[q] : pendings'[q][i] = x
  BY DEF Linked, ToSet
<1>9. ASSUME NEW x \in Linked, x # e
      PROVE  x \in Linked'
  <2>1. PICK q \in Priorities : \E i \in DOMAIN pendings[q] : pendings[q][i] = x
    BY LinkedAt
  <2>2. PICK i \in DOMAIN pendings[q] : pendings[q][i] = x
    BY <2>1
  <2>3. CASE q = p
    <3>1. i - 1 \in DOMAIN l /\ l[i - 1] = x
      BY <1>3, <1>6, <1>9, <2>2, <2>3
    <3> QED BY <1>4, <1>8, <3>1
  <2>4. CASE q # p
    BY <1>4, <1>8, <2>2, <2>4
  <2> QED BY <2>3, <2>4
<1>10. ASSUME NEW x \in Linked'
       PROVE  x \in Linked /\ x # e
  <2>1. PICK q \in Priorities : \E i \in DOMAIN pendings'[q] : pendings'[q][i] = x
    BY <1>8
  <2>2. PICK i \in DOMAIN pendings'[q] : pendings'[q][i] = x
    BY <2>1
  <2>3. CASE q = p
    <3>1. i + 1 \in 1..Len(s) /\ s[i + 1] = x /\ i + 1 # 1 /\ 1 \in 1..Len(s)
      BY <1>3, <1>4, <2>2, <2>3
    <3>2. x # e
      BY <1>3, <1>6, <3>1 DEF ListInv
    <3> QED BY <1>3, <1>6, <3>1, <3>2, LinkedAt
  <2>4. CASE q # p
    <3>1. i \in DOMAIN pendings[q] /\ pendings[q][i] = x
      BY <1>4, <2>2, <2>4
    <3>2. DOMAIN pendings[q] = 1..Len(pendings[q])
      BY DEF TypeOK
    <3>3. Priority(x) = q
      BY <3>1, <3>2 DEF ListInv
    <3> QED BY <1>7, <2>4, <3>1, <3>3, LinkedAt
  <2> QED BY <2>3, <2>4
<1>11. ListInv'
  <2> SUFFICES ASSUME NEW q \in Priorities, NEW i \in 1..Len(pendings'[q]),
                      NEW j \in 1..Len(pendings'[q])
               PROVE  /\ Priority(pendings'[q][i]) = q
                      /\ pendings'[q][i] = pendings'[q][j] => i = j
    BY DEF ListInv
  <2>1. CASE q # p
    BY <1>4, <2>1 DEF ListInv
  <2>2. CASE q = p
    <3>1. \A k, m \in 1..Len(s) : Priority(s[k]) = p /\ (s[k] = s[m] => k = m)
      BY <1>6 DEF ListInv
    <3> QED BY <1>3, <1>4, <2>2, <3>1, SMTT(40)
  <2> QED BY <2>1, <2>2
<1> QED BY <1>5, <1>7, <1>9, <1>10, <1>11

-----------------------------------------------------------------------------
(* Every step preserves the invariant but for the counters.                *)

\* The steps of users.
LEMMA UserStep ==
  ASSUME IInv, User, misused' = {}
  PROVE  StateInv' /\ ListInv'
<1> USE LoopEventsAssumption
    DEF IInv, StateInv, TypeOK, LinkInv, LifeInv, ArmInv, NoUseAfterFree, WhereItIs,
        UserMayCall, Held, Events, Timers
<1>1. UNCHANGED pendings
  BY DEF User, TimerAdd, TimerAddPeriod, IdleAdd, TimerReset, TimerDel, IdleDel
<1>2. Linked' = Linked /\ ListInv'
  BY <1>1, ListsSame
<1>3. ASSUME NEW t \in Timeouts, NEW d \in Delays, NEW r \in Repeats, TimerAdd(t, d, r)
      PROVE  StateInv'
  BY <1>2, <1>3 DEF TimerAdd, Add
<1>4. ASSUME NEW t \in Periods, NEW d \in Delays, NEW r \in Repeats,
             TimerAddPeriod(t, d, r)
      PROVE  StateInv'
  BY <1>2, <1>4, SMTT(40) DEF TimerAddPeriod, Add
<1>5. ASSUME NEW i \in Idles, NEW r \in Repeats, IdleAdd(i, r)
      PROVE  StateInv'
  BY <1>2, <1>5 DEF IdleAdd, Add
<1>6. ASSUME NEW t \in Timeouts, TimerReset(t)
      PROVE  StateInv'
  BY <1>2, <1>6 DEF TimerReset, Rearm, EventReset
<1>7. ASSUME NEW t \in Timers, TimerDel(t)
      PROVE  StateInv'
  <2>1. t \in pending \/ t \notin Linked \union {cur}
    BY <1>7 DEF TimerDel, Passing
  <2>2. CASE t \in destroy
    <3>1. t \in pending
      BY <1>7, <2>2 DEF TimerDel
    <3> QED BY <1>2, <1>7, <2>1, <2>2, <3>1 DEF TimerDel, Unheap, Del
  <2>3. CASE t \notin destroy /\ t \in pending
    BY <1>2, <1>7, <2>1, <2>3 DEF TimerDel, Unheap, Del
  <2>4. CASE t \notin destroy /\ t \notin pending
    <3>1. /\ live' = live \ {t} /\ active' = active \ {t} /\ heap' = heap \ {t}
          /\ destroy' = destroy \union {t} /\ released' = released \union {t}
          /\ left' = [left EXCEPT ![t] = 0] /\ repeat' = [repeat EXCEPT ![t] = 0]
          /\ UNCHANGED <<unborn, timeout, pending, idles, pendings, npendings, phase, cur,
                         waiting>>
      BY <1>7, <2>4 DEF TimerDel, Unheap, Del
    <3>2. TypeOK'
      BY <1>7, <3>1
    <3>3. LinkInv' /\ NoUseAfterFree'
      BY <1>2, <2>1, <2>4, <3>1
    <3>4. t \in live /\ t \notin unborn \union Sources
      BY <1>7 DEF TimerDel
    <3>5. LifeInv'
      BY <2>4, <3>1, <3>4
    <3>6. ArmInv' /\ WhereItIs'
      BY <1>7, <2>4, <3>1
    <3> QED BY <3>2, <3>3, <3>5, <3>6
  <2> QED BY <2>2, <2>3, <2>4
<1>8. ASSUME NEW i \in Idles, IdleDel(i)
      PROVE  StateInv'
  <2>1. i \in pending \/ i \notin Linked \union {cur}
    BY <1>8 DEF IdleDel
  <2>2. CASE i \in destroy
    <3>1. i \in pending
      BY <1>8, <2>2 DEF IdleDel
    <3> QED BY <1>2, <1>8, <2>1, <2>2, <3>1 DEF IdleDel, Unlist, Del
  <2>3. CASE i \notin destroy /\ i \in pending
    BY <1>2, <1>8, <2>1, <2>3 DEF IdleDel, Unlist, Del
  <2>4. CASE i \notin destroy /\ i \notin pending
    <3>1. /\ live' = live \ {i} /\ active' = active \ {i} /\ idles' = idles \ {i}
          /\ destroy' = destroy \union {i} /\ released' = released \union {i}
          /\ repeat' = [repeat EXCEPT ![i] = 0]
          /\ UNCHANGED <<unborn, timeout, pending, left, heap, pendings, npendings, phase,
                         cur, waiting>>
      BY <1>8, <2>4 DEF IdleDel, Unlist, Del
    <3>2. TypeOK'
      BY <1>8, <3>1
    <3>3. LinkInv' /\ NoUseAfterFree'
      BY <1>2, <2>1, <2>4, <3>1
    <3>4. i \in live /\ i \notin unborn \union Sources
      BY <1>8 DEF IdleDel
    <3>5. LifeInv'
      BY <2>4, <3>1, <3>4
    <3>6. ArmInv' /\ WhereItIs'
      BY <1>8, <2>4, <3>1
    <3> QED BY <3>2, <3>3, <3>5, <3>6
  <2> QED BY <2>2, <2>3, <2>4
<1> HIDE DEF IInv, StateInv
<1> QED BY <1>2, <1>3, <1>4, <1>5, <1>6, <1>7, <1>8 DEF User

\* The steps of a round that leave the pending lists alone.
LEMMA QuietStep ==
  ASSUME IInv, Run \/ Tick \/ Quit \/ SkipPoll \/ NoIdles \/ UNCHANGED vars
  PROVE  StateInv' /\ ListInv'
<1> USE LoopEventsAssumption
    DEF IInv, StateInv, TypeOK, LinkInv, LifeInv, ArmInv, NoUseAfterFree, WhereItIs,
        Events, Timers
<1>1. UNCHANGED pendings
  BY DEF Run, Tick, Quit, SkipPoll, NoIdles, vars
<1>2. Linked' = Linked /\ ListInv'
  BY <1>1, ListsSame
<1>3. CASE Tick
  BY <1>2, <1>3 DEF Tick, OneLater
<1>4. CASE Run \/ Quit \/ SkipPoll \/ NoIdles
  BY <1>2, <1>4 DEF Run, Quit, SkipPoll, NoIdles
<1>5. CASE UNCHANGED vars
  BY <1>2, <1>5 DEF vars
<1> QED BY <1>2, <1>3, <1>4, <1>5

\* The end of the poll, the timers that are due, the idles and the end of a round.
LEMMA PendStep ==
  ASSUME IInv, Poll \/ ProcessIdles \/ RoundDone \/ \E t \in Timers : FireTimer(t)
  PROVE  StateInv' /\ ListInv'
<1> USE LoopEventsAssumption
    DEF IInv, StateInv, TypeOK, LinkInv, LifeInv, ArmInv, NoUseAfterFree, WhereItIs,
        Events, Timers
<1>1. CASE Poll
  <2>0. left' \in [Timers -> Int]
    BY <1>1 DEF Poll, OneLater
  <2>1. CASE UNCHANGED <<pending, pendings, npendings>>
    <3>1. Linked' = Linked /\ ListInv'
      BY <2>1, ListsSame
    <3> QED BY <1>1, <2>0, <2>1, <3>1 DEF Poll
  <2>2. ASSUME NEW e \in Sources, Pend(e)
        PROVE  StateInv' /\ ListInv'
    <3>1. e \in Events /\ e \notin Linked /\ e \notin pending
      BY <1>1 DEF Poll
    <3>2. /\ Linked' = Linked \union {e} /\ ListInv'
          /\ pendings' \in [Priorities -> Seq(Events)]
          /\ npendings' = npendings + 1 /\ pending' = pending \union {e}
      BY <2>2, <3>1, ListsPend
    <3> QED BY <1>1, <2>0, <3>1, <3>2 DEF Poll
  <2> QED BY <1>1, <2>1, <2>2 DEF Poll
<1>2. ASSUME NEW t \in Timers, FireTimer(t)
      PROVE  StateInv' /\ ListInv'
  <2>1. t \in heap /\ phase = "timers" /\ phase' = "timers" /\ cur' = cur /\ cur = None
    BY <1>2 DEF FireTimer, Root
  <2>2. /\ Linked' = Linked \union {t} /\ ListInv'
        /\ pendings' \in [Priorities -> Seq(Events)]
        /\ npendings' \in Nat /\ pending' = pending \union {t}
    <3>1. Pend(t)
      BY <1>2 DEF FireTimer
    <3>2. CASE t \in pending
      <4>1. UNCHANGED <<pending, pendings, npendings>>
        BY <3>1, <3>2 DEF Pend
      <4>2. t \in Linked
        BY <2>1, <3>2
      <4> QED BY <3>2, <4>1, <4>2, ListsSame
    <3>3. CASE t \notin pending
      <4>1. t \notin Linked
        BY <2>1, <3>3
      <4> QED BY <3>1, <3>3, <4>1, ListsPend
    <3> QED BY <3>2, <3>3
  <2>3. /\ UNCHANGED <<live, unborn, timeout, active, idles, phase, cur, released, misused>>
        /\ waiting' = waiting \ {t}
    BY <1>2 DEF FireTimer
  <2> DEFINE r == IF repeat[t] = Forever THEN Forever ELSE repeat[t] - 1
  <2>4. r \in Nat /\ repeat' = [repeat EXCEPT ![t] = r]
    BY <1>2, <2>1 DEF FireTimer
  <2>5. CASE r = 0
    <3>1. heap' = heap \ {t} /\ left' = [left EXCEPT ![t] = 0] /\ destroy' = destroy \union {t}
      BY <1>2, <2>1, <2>5 DEF FireTimer, Unheap
    <3> HIDE DEF r
    <3> QED BY <2>1, <2>2, <2>3, <2>4, <2>5, <3>1
  <2>6. CASE r # 0
    <3>1. UNCHANGED <<heap, destroy>>
      BY <1>2, <2>6 DEF FireTimer
    <3>2. left' \in [Timers -> Int]
      <4>1. CASE t \in Timeouts
        <5>1. left' = [left EXCEPT ![t] = NextLeft(t)]
          BY <1>2, <2>6, <4>1 DEF FireTimer
        <5>2. timeout[t] \in Nat /\ timeout[t] >= 1 /\ left[t] \in Int
          BY <2>1, <4>1
        <5>3. NextLeft(t) \in Int
          BY <5>2 DEF NextLeft
        <5> QED BY <5>1, <5>3
      <4>2. CASE t \in Periods
        <5>1. PICK d \in Delays : left' = [left EXCEPT ![t] = d]
          BY <1>2, <2>6, <4>2 DEF FireTimer
        <5> QED BY <5>1
      <4> QED BY <4>1, <4>2
    <3> HIDE DEF r
    <3> QED BY <2>1, <2>2, <2>3, <2>4, <2>6, <3>1, <3>2, SMTT(40)
  <2> QED BY <2>5, <2>6
<1>3. CASE ProcessIdles
  <2> DEFINE left1(i) == IF repeat[i] = Forever THEN Forever ELSE repeat[i] - 1
             over == {i \in idles : left1(i) = 0}
  <2>1. /\ phase = "timers" /\ npendings = 0 /\ phase' = "pend" /\ cur = None
        /\ repeat' = [e \in DOMAIN repeat |-> IF e \in idles THEN left1(e) ELSE repeat[e]]
        /\ destroy' = destroy \union over /\ idles' = idles \ over
        /\ pending' = pending \union idles
        /\ npendings' = Cardinality(idles)
        /\ UNCHANGED <<live, unborn, timeout, active, left, heap, cur, history>>
    BY <1>3 DEF ProcessIdles
  <2>2. PICK list \in SetToSeqs(idles) : pendings' = [pendings EXCEPT ![1] = list]
    BY <1>3 DEF ProcessIdles
  <2>3. Linked = {}
    BY <2>1 DEF CountersExact
  <2>4. \A p \in Priorities : pendings[p] = <<>>
    <3> SUFFICES ASSUME NEW p \in Priorities, pendings[p] # <<>>
                 PROVE  FALSE
      OBVIOUS
    <3>1. pendings[p] \in Seq(Events)
      OBVIOUS
    <3>2. 1 \in DOMAIN pendings[p]
      BY <3>1
    <3>3. pendings[p][1] \in Linked
      BY <3>2, LinkedAt
    <3> QED BY <2>3, <3>3
  <2>5. Linked' = idles /\ ListInv' /\ pendings' \in [Priorities -> Seq(Events)]
    <3> DEFINE D == 1..Cardinality(idles)
    <3>1. IsFiniteSet(idles) /\ Cardinality(idles) \in Nat
      BY FS_Subset, FS_CardinalityType
    <3>2. IsFiniteSet(D) /\ Cardinality(D) = Cardinality(idles)
      BY <3>1, FS_Interval
    <3>3. list \in [D -> idles] /\ \A i, j \in D : list[i] = list[j] => i = j
      BY <2>2 DEF SetToSeqs
    <3>4. list \in Injection(D, idles)
      BY <3>3 DEF Injection, IsInjective
    <3>5. list \in Surjection(D, idles)
      BY <3>1, <3>2, <3>4, FS_Injection
    <3>6. \A x \in idles : \E i \in D : list[i] = x
      BY <3>5 DEF Surjection
    <3>7. list \in Seq(Events) /\ DOMAIN list = D /\ Len(list) = Cardinality(idles)
      <4> DEFINE n == Cardinality(idles)
      <4>1. list \in [1..n -> Events] /\ n \in Nat
        BY <3>1, <3>3
      <4> HIDE DEF n
      <4>2. list \in Seq(Events) /\ DOMAIN list = 1..n /\ Len(list) = n
        BY <4>1
      <4> QED BY <4>2 DEF n
    <3>8. /\ 1 \in Priorities /\ pendings'[1] = list
          /\ \A p \in Priorities : p # 1 => pendings'[p] = <<>>
      BY <2>2, <2>4 DEF Priorities
    <3>9. pendings' \in [Priorities -> Seq(Events)]
      BY <2>2, <3>7
    <3>10. \A x : x \in Linked' <=>
              \E q \in Priorities : \E i \in DOMAIN pendings'[q] : pendings'[q][i] = x
      BY DEF Linked, ToSet
    <3>11. Linked' = idles
      <4>1. ASSUME NEW x \in Linked'
            PROVE  x \in idles
        <5>1. PICK q \in Priorities : \E i \in DOMAIN pendings'[q] : pendings'[q][i] = x
          BY <3>10
        <5>2. q = 1
          BY <3>8, <5>1
        <5>3. PICK i \in D : list[i] = x
          BY <3>7, <3>8, <5>1, <5>2
        <5> QED BY <3>3, <5>3, ZenonT(60)
      <4>2. ASSUME NEW x \in idles
            PROVE  x \in Linked'
        <5>1. PICK i \in D : list[i] = x
          BY <3>6
        <5>2. i \in DOMAIN pendings'[1] /\ pendings'[1][i] = x
          BY <3>7, <3>8, <5>1
        <5> QED BY <3>8, <3>10, <5>2
      <4> QED BY <4>1, <4>2
    <3>12. ListInv'
      <4> SUFFICES ASSUME NEW q \in Priorities, NEW i \in 1..Len(pendings'[q]),
                          NEW j \in 1..Len(pendings'[q])
                   PROVE  /\ Priority(pendings'[q][i]) = q
                          /\ pendings'[q][i] = pendings'[q][j] => i = j
        BY DEF ListInv
      <4>1. q = 1
        BY <3>8
      <4>2. i \in D /\ j \in D
        BY <3>7, <3>8, <4>1
      <4>3. list[i] \in Idles
        BY <3>3, <4>2, ZenonT(60)
      <4> QED BY <3>3, <3>8, <4>1, <4>2, <4>3, PriorityType
    <3> QED BY <3>9, <3>11, <3>12
  <2>6. npendings' \in Nat
    BY <2>1, FS_Subset, FS_CardinalityType
  <2>7. \A i \in idles : left1(i) \in Nat
    OBVIOUS
  <2> HIDE DEF left1
  <2> QED BY <2>1, <2>3, <2>5, <2>6, <2>7
<1>4. CASE RoundDone
  <2>1. Linked = {}
    BY <1>4, LinkedAt DEF RoundDone
  <2>2. Linked' = Linked /\ ListInv'
    BY <1>4, ListsSame DEF RoundDone
  <2> QED BY <1>4, <2>1, <2>2 DEF RoundDone
<1> QED BY <1>1, <1>2, <1>3, <1>4

\* The walk over the pending lists.
LEMMA WalkStep ==
  ASSUME IInv, Return \/ \E e \in Events : Pass(e) \/ Call(e) \/ Discard(e)
  PROVE  StateInv' /\ ListInv'
<1> USE LoopEventsAssumption
    DEF IInv, StateInv, TypeOK, LinkInv, LifeInv, ArmInv, NoUseAfterFree, WhereItIs,
        Events, Timers
<1>1. CASE Return
  <2>1. Linked' = Linked /\ ListInv'
    BY <1>1, ListsSame DEF Return
  <2>2. cur # None /\ cur \in live
    BY <1>1 DEF Return
  <2>3. CASE cur \in destroy
    <3>1. /\ live' = live \ {cur} /\ active' = active \ {cur} /\ pending' = pending \ {cur}
          /\ cur' = None /\ phase' = "pend" /\ repeat' = [repeat EXCEPT ![cur] = 0]
          /\ UNCHANGED <<unborn, timeout, destroy, left, heap, idles, pendings, npendings,
                         released, waiting, misused>>
      BY <1>1, <2>3 DEF Return, Finish, Del
    <3>2. cur \in Timers \union Idles
      BY <2>2, <2>3
    <3>3. TypeOK'
      BY <3>1, <3>2
    <3>4. LinkInv' /\ LifeInv' /\ NoUseAfterFree'
      BY <2>1, <2>2, <2>3, <3>1, <3>2
    <3>5. ArmInv' /\ WhereItIs'
      BY <2>2, <2>3, <3>1, <3>2
    <3> QED BY <2>1, <3>3, <3>4, <3>5
  <2>4. CASE cur \notin destroy
    BY <1>1, <2>1, <2>2, <2>4 DEF Return, Finish
  <2> QED BY <2>3, <2>4
<1>2. ASSUME NEW e \in Events, Pass(e) \/ Call(e) \/ Discard(e)
      PROVE  StateInv' /\ ListInv'
  <2>1. Visit(e) /\ phase = "pend" /\ cur = None
    BY <1>2 DEF Pass, Call, Discard, Visit
  <2>2. /\ e \in Linked /\ Linked' = Linked \ {e} /\ ListInv'
        /\ pendings' \in [Priorities -> Seq(Events)]
    BY <2>1, ListsVisit
  <2>3. CASE Pass(e)
    BY <2>1, <2>2, <2>3 DEF Pass
  <2>4. CASE Call(e)
    BY <2>1, <2>2, <2>4 DEF Call
  <2>5. CASE Discard(e)
    <3>1. e \in destroy
      BY <2>2, <2>5 DEF Discard
    <3>2. /\ live' = live \ {e} /\ active' = active \ {e} /\ pending' = pending \ {e}
          /\ cur' = cur /\ phase' = "pend" /\ repeat' = [repeat EXCEPT ![e] = 0]
          /\ UNCHANGED <<unborn, timeout, destroy, left, heap, idles, npendings,
                         released, waiting, misused>>
      BY <2>5, <3>1 DEF Discard, Finish, Del
    <3>3. e \in Timers \union Idles
      BY <3>1
    <3>4. TypeOK'
      BY <2>1, <2>2, <3>2, <3>3
    <3>5. LinkInv' /\ LifeInv' /\ NoUseAfterFree'
      BY <2>1, <2>2, <3>1, <3>2, <3>3
    <3>6. ArmInv' /\ WhereItIs'
      BY <3>1, <3>2, <3>3
    <3> QED BY <2>2, <3>4, <3>5, <3>6
  <2> QED BY <1>2, <2>3, <2>4, <2>5
<1> QED BY <1>1, <1>2

-----------------------------------------------------------------------------
(* The counters.                                                           *)

\* What the counters count are finite sets, and one event more or less counts one.
LEMMA CountOne ==
  ASSUME TypeOK, WhereItIs, NEW S \in {active, heap, idles}
  PROVE  /\ IsFiniteSet(S) /\ Cardinality(S) \in Nat
         /\ \A e : e \notin S => Cardinality(S \union {e}) = Cardinality(S) + 1
         /\ \A e : e \in S => Cardinality(S \union {e}) = Cardinality(S)
         /\ \A e : e \in S => Cardinality(S \ {e}) = Cardinality(S) - 1
         /\ \A e : e \notin S => Cardinality(S \ {e}) = Cardinality(S)
<1>1. S \in SUBSET Events
  BY DEF TypeOK, WhereItIs, Events, Timers
<1>2. IsFiniteSet(S) /\ Cardinality(S) \in Nat
  BY <1>1, FS_Subset, FS_CardinalityType, LoopEventsAssumption
<1> QED BY <1>2, FS_AddElement, FS_RemoveElement

\* The counters after a user's call.
LEMMA CountUser ==
  ASSUME IInv, User
  PROVE  CountersExact'
<1>1. \A S \in {active, heap, idles} :
         /\ Cardinality(S) \in Nat
         /\ \A e : e \notin S => Cardinality(S \union {e}) = Cardinality(S) + 1
         /\ \A e : e \in S => Cardinality(S \union {e}) = Cardinality(S)
         /\ \A e : e \in S => Cardinality(S \ {e}) = Cardinality(S) - 1
  BY CountOne, Zenon DEF IInv, StateInv
<1> USE LoopEventsAssumption
    DEF IInv, StateInv, TypeOK, LifeInv, WhereItIs, CountersExact, Held, Events, Timers
<1>2. UNCHANGED <<pendings, npendings>>
  BY DEF User, TimerAdd, TimerAddPeriod, IdleAdd, TimerReset, TimerDel, IdleDel
<1>3. Linked' = Linked
  BY <1>2, ListsSame
<1>4. ASSUME NEW t \in Timeouts, NEW d \in Delays, NEW r \in Repeats, TimerAdd(t, d, r)
      PROVE  CountersExact'
  <2>1. t \notin active /\ t \notin heap
    BY <1>4 DEF TimerAdd
  <2> QED BY <1>1, <1>2, <1>3, <1>4, <2>1 DEF TimerAdd, Add
<1>5. ASSUME NEW t \in Periods, NEW d \in Delays, NEW r \in Repeats,
             TimerAddPeriod(t, d, r)
      PROVE  CountersExact'
  <2>1. t \notin active /\ t \notin heap
    BY <1>5 DEF TimerAddPeriod
  <2> QED BY <1>1, <1>2, <1>3, <1>5, <2>1 DEF TimerAddPeriod, Add
<1>6. ASSUME NEW i \in Idles, NEW r \in Repeats, IdleAdd(i, r)
      PROVE  CountersExact'
  <2>1. i \notin active /\ i \notin idles
    BY <1>6 DEF IdleAdd
  <2> QED BY <1>1, <1>2, <1>3, <1>6, <2>1 DEF IdleAdd, Add
<1>7. ASSUME NEW t \in Timeouts, TimerReset(t)
      PROVE  CountersExact'
  <2>1. t \in heap <=> t \notin destroy
    BY <1>7 DEF TimerReset
  <2> QED BY <1>1, <1>2, <1>3, <1>7, <2>1 DEF TimerReset, Rearm, EventReset
<1>8. ASSUME NEW t \in Timers, TimerDel(t)
      PROVE  CountersExact'
  <2>1. (t \in heap <=> t \notin destroy) /\ t \in active
    BY <1>8 DEF TimerDel
  <2>2. /\ active' = active \ {t} /\ nactives' = nactives - 1
        /\ UNCHANGED <<idles, nidles>>
    BY <1>8 DEF TimerDel, Del
  <2>3. ntimers' = Cardinality(heap')
    BY <1>1, <1>8, <2>1 DEF TimerDel, Unheap
  <2> QED BY <1>1, <1>2, <1>3, <2>1, <2>2, <2>3
<1>9. ASSUME NEW i \in Idles, IdleDel(i)
      PROVE  CountersExact'
  <2>1. (i \in idles <=> i \notin destroy) /\ i \in active
    BY <1>9 DEF IdleDel
  <2>2. /\ active' = active \ {i} /\ nactives' = nactives - 1
        /\ UNCHANGED <<heap, ntimers>>
    BY <1>9 DEF IdleDel, Del
  <2>3. nidles' = Cardinality(idles')
    BY <1>1, <1>9, <2>1 DEF IdleDel, Unlist
  <2> QED BY <1>1, <1>2, <1>3, <2>1, <2>2, <2>3
<1> QED BY <1>4, <1>5, <1>6, <1>7, <1>8, <1>9 DEF User

\* The counters after a step of the loop.
LEMMA CountLoop ==
  ASSUME IInv, Run \/ Tick \/ Loop \/ UNCHANGED vars
  PROVE  CountersExact'
<1> USE DEF IInv, StateInv, TypeOK, WhereItIs, CountersExact
<1>1. \A S \in {active, heap, idles} :
         /\ IsFiniteSet(S) /\ Cardinality(S) \in Nat
         /\ \A e : e \in S => Cardinality(S \ {e}) = Cardinality(S) - 1
         /\ \A e : e \notin S => Cardinality(S \ {e}) = Cardinality(S)
  BY CountOne, Zenon
<1>2. CASE Run \/ Tick \/ Quit \/ SkipPoll \/ NoIdles \/ UNCHANGED vars
  <2>1. UNCHANGED <<active, heap, idles, pendings, counters>>
    BY <1>2 DEF Run, Tick, Quit, SkipPoll, NoIdles, vars
  <2> QED BY <2>1, ListsSame
<1>3. CASE Poll
  <2>1. UNCHANGED <<active, heap, idles, nactives, ntimers, nidles>>
    BY <1>3 DEF Poll
  <2>2. npendings' = npendings + 1 \/ UNCHANGED <<pendings, npendings>>
    BY <1>3 DEF Poll, Pend
  <2> QED BY <2>1, <2>2, ListsSame
<1>4. ASSUME NEW t \in Timers, FireTimer(t)
      PROVE  CountersExact'
  <2>1. t \in heap /\ t \notin destroy /\ UNCHANGED <<active, idles, nactives, nidles>>
    BY <1>4 DEF FireTimer, Root
  <2>2. Unheap(t) \/ UNCHANGED <<heap, ntimers>>
    BY <1>4 DEF FireTimer
  <2>3. ntimers' = Cardinality(heap')
    BY <1>1, <2>1, <2>2 DEF Unheap
  <2>4. npendings' = npendings + 1 \/ UNCHANGED <<pendings, npendings>>
    BY <1>4 DEF FireTimer, Pend
  <2> QED BY <2>1, <2>3, <2>4, ListsSame
<1>5. CASE ProcessIdles
  <2> DEFINE left1(i) == IF repeat[i] = Forever THEN Forever ELSE repeat[i] - 1
             over == {i \in idles : left1(i) = 0}
  <2>1. /\ idles' = idles \ over /\ nidles' = nidles - Cardinality(over)
        /\ npendings' = Cardinality(idles) /\ nidles # 0
        /\ UNCHANGED <<active, heap, nactives, ntimers>>
    BY <1>5 DEF ProcessIdles
  <2>2. idles \intersect over = over
    OBVIOUS
  <2> HIDE DEF over
  <2>3. Cardinality(idles \ over) = Cardinality(idles) - Cardinality(over)
    <3>1. IsFiniteSet(idles)
      BY <1>1
    <3>2. Cardinality(idles \ over) = Cardinality(idles) - Cardinality(idles \intersect over)
      BY <3>1, FS_Difference, Zenon
    <3> QED BY <2>2, <3>2
  <2> QED BY <2>1, <2>3
<1>6. CASE RoundDone
  <2>1. Linked = {}
    BY <1>6, LinkedAt DEF RoundDone
  <2> QED BY <1>6, <2>1, ListsSame DEF RoundDone
<1>7. CASE Return
  <2>1. UNCHANGED <<heap, idles, pendings, ntimers, nidles, npendings>>
    BY <1>7 DEF Return, Finish
  <2>2. nactives' = Cardinality(active')
    BY <1>1, <1>7 DEF Return, Finish, Del
  <2> QED BY <2>1, <2>2, ListsSame
<1>8. ASSUME NEW e \in Events, Pass(e) \/ Call(e) \/ Discard(e)
      PROVE  CountersExact'
  <2>1. Visit(e) /\ UNCHANGED <<heap, idles, ntimers, nidles, npendings>>
    BY <1>8 DEF Pass, Call, Discard, Finish
  <2>2. Linked' = Linked \ {e}
    BY <2>1, ListsVisit
  <2>3. nactives' = Cardinality(active')
    BY <1>1, <1>8 DEF Pass, Call, Discard, Finish, Del
  <2> QED BY <2>1, <2>2, <2>3
<1> QED BY <1>2, <1>3, <1>4, <1>5, <1>6, <1>7, <1>8 DEF Loop

-----------------------------------------------------------------------------
(* The theorems.                                                           *)

\* A misuse is not forgotten, and with DelAfterReset FALSE there is none.
LEMMA Misuse ==
  ASSUME [Next]_vars
  PROVE  /\ misused' = {} => misused = {}
         /\ ~DelAfterReset /\ misused = {} => misused' = {}
<1>1. CASE User
  BY <1>1 DEF User, TimerAdd, TimerAddPeriod, IdleAdd, TimerReset, TimerDel, IdleDel
<1>2. CASE Loop
  BY <1>2 DEF Loop, Quit, SkipPoll, Poll, ProcessIdles, NoIdles, Return, RoundDone, FireTimer,
              Pass, Call, Discard, Finish
<1>3. CASE Run \/ Tick \/ UNCHANGED vars
  BY <1>3 DEF Run, Tick, vars
<1> QED BY <1>1, <1>2, <1>3 DEF Next

\* IInv holds in every state of the loop up to the first misuse (loop.cpp).
THEOREM Invariant == Spec => [](misused = {} => IInv)
<1>1. Init => IInv
  <2> SUFFICES ASSUME Init
               PROVE  IInv
    OBVIOUS
  <2> USE LoopEventsAssumption DEF Init, Events, Timers
  <2>1. pendings \in [Priorities -> Seq(Events)]
    OBVIOUS
  <2>2. Linked = {}
    BY LinkedAt
  <2>3. TypeOK
    BY <2>1 DEF TypeOK
  <2>4. LinkInv /\ LifeInv /\ ArmInv /\ NoUseAfterFree /\ WhereItIs
    BY <2>2 DEF LinkInv, LifeInv, ArmInv, NoUseAfterFree, WhereItIs
  <2>5. ListInv
    BY DEF ListInv
  <2>6. CountersExact
    BY <2>2, FS_EmptySet DEF CountersExact
  <2> QED BY <2>3, <2>4, <2>5, <2>6 DEF IInv, StateInv
<1>2. (misused = {} => IInv) /\ [Next]_vars => (misused = {} => IInv)'
  <2> SUFFICES ASSUME IInv, [Next]_vars, misused' = {}
               PROVE  IInv'
    BY Misuse
  <2>1. CASE User
    BY <2>1, UserStep, CountUser DEF IInv
  <2>2. CASE Run \/ Tick \/ Loop \/ UNCHANGED vars
    <3>1. StateInv' /\ ListInv'
      BY <2>2, QuietStep, PendStep, WalkStep DEF Loop
    <3> QED BY <2>2, <3>1, CountLoop DEF IInv
  <2> QED BY <2>1, <2>2 DEF Next
<1> QED BY <1>1, <1>2, PTL DEF Spec

\* Up to the first misuse the counters are exact, each event is where its flags
\* say it is, and nothing is left over between two rounds.
THEOREM ConsistentAlways == Spec => [](misused = {} => Consistent)
<1>1. IInv => Consistent
  <2> SUFFICES ASSUME IInv
               PROVE  Consistent
    OBVIOUS
  <2>1. ASSUME phase = "top"
        PROVE  \A e \in live : e \in active /\ e \notin destroy
    <3>1. Linked = {} /\ cur = None
      BY <2>1 DEF IInv, StateInv, LinkInv, TypeOK
    <3>2. pending = {}
      BY <3>1, LoopEventsAssumption DEF IInv, StateInv, LinkInv, TypeOK
    <3> QED BY <3>2 DEF IInv, StateInv, LifeInv
  <2> QED BY <2>1 DEF IInv, StateInv, Consistent, NoLeak
<1> QED BY <1>1, Invariant, PTL

\* What a pending list holds, and the event whose callback runs, is allocated, for
\* any users, as long as nobody has deleted a timer that was reset while the round
\* still has to pass it (event.hpp:203, loop.cpp:69).
THEOREM MemoryAlways == Spec => [](misused = {} => NoUseAfterFree)
<1>1. IInv => NoUseAfterFree
  BY DEF IInv, StateInv
<1> QED BY <1>1, Invariant, PTL

\* IInv holds in every state when no user ever does that.
LEMMA ProperUse == ASSUME ~DelAfterReset PROVE Spec => []IInv
<1>1. Init => misused = {}
  BY DEF Init
<1>2. misused = {} /\ [Next]_vars => (misused = {})'
  BY Misuse
<1> QED BY <1>1, <1>2, Invariant, PTL DEF Spec

\* A deleted event is not called any more, also when it was pending already, in a
\* loop whose users delete no timer they reset in the same round.
THEOREM DeletedStaysQuiet == ASSUME ~DelAfterReset PROVE Spec => DeletedNeverCalled
<1>1. IInv /\ [Next]_vars => [\A e \in Events : Call(e) => e \notin released]_vars
  BY DEF Call, IInv, StateInv, LifeInv
<1> QED BY <1>1, ProperUse, PTL DEF Spec, DeletedNeverCalled

\* A timer that was reset while it was pending is not called before its new time,
\* in a loop whose users delete no timer they reset in the same round.
THEOREM ResetIsHeeded == ASSUME ~DelAfterReset PROVE Spec => ResetPostpones
<1>1. IInv /\ [Next]_vars => [\A t \in Timers : Call(t) => t \notin waiting]_vars
  BY DEF Call, IInv, StateInv, ArmInv
<1> QED BY <1>1, ProperUse, PTL DEF Spec, ResetPostpones

-----------------------------------------------------------------------------
(* How other threads reach the loop.                                       *)

USE DEF control, mailbox, loopVars, posterVars

\* The bytes sockpair_read_cb has to answer and the event whose callback runs
\* are there only at their places of the loop.
PhaseInv == /\ place \notin {"take", "cb"} => inHand = 0
            /\ place = "cb" <=> current # NoEvent

\* ByteForEach, with the thread inside the mutex in place of a cardinality.
ByteInv == bytes + inHand = Len(queue) + (IF mutex = Nobody THEN 0 ELSE 1)

\* An event on its way is carried by one thread, is its own name when loop_stop
\* posts it, and was not posted before.
CarryInv == /\ posted \subseteq AllEvents
            /\ \A p \in Posters :
                  /\ carry[p] # NoEvent <=> pc[p] \in {"write", "push"}
                  /\ carry[p] \notin posted
                  /\ carry[p] \in Posters => carry[p] = p
                  /\ pc[p] = "tid" => p \in stopped
                  /\ p \notin stopped \/ pc[p] = "tid" => p \notin posted /\ carry[p] # p
                  /\ \A q \in Posters : carry[p] = carry[q] /\ carry[p] # NoEvent => p = q

ControlInv == ControlTypeOK /\ PhaseInv /\ ByteInv /\ CarryInv

-----------------------------------------------------------------------------
\* The threads between the byte and the entry are the owner of the mutex.
LEMMA OnePusher ==
  ASSUME ControlTypeOK
  PROVE  Cardinality({p \in Posters : pc[p] = "push"}) = IF mutex = Nobody THEN 0 ELSE 1
<1>1. CASE mutex = Nobody
  <2>1. {p \in Posters : pc[p] = "push"} = {}
    BY <1>1, LoopControlAssumption DEF ControlTypeOK
  <2> QED BY <1>1, <2>1, FS_EmptySet
<1>2. CASE mutex # Nobody
  <2>1. {p \in Posters : pc[p] = "push"} = {mutex}
    BY <1>2 DEF ControlTypeOK
  <2> QED BY <1>2, <2>1, FS_Singleton
<1> QED BY <1>1, <1>2

\* Every step of a posting thread preserves the invariant.
LEMMA PosterStep ==
  ASSUME ControlInv, NEW p \in Posters, Poster(p)
  PROVE  ControlInv'
<1> USE LoopControlAssumption DEF ControlInv, ControlTypeOK, PhaseInv, ByteInv, CarryInv,
            AllEvents, Goto, Fresh
<1>1. CASE Post(p)
  BY <1>1 DEF Post
<1>2. CASE PostWrite(p)
  BY <1>2 DEF PostWrite
<1>3. CASE PostPush(p)
  <2>1. mutex = p /\ carry[p] \in AllEvents
    BY <1>3 DEF PostPush
  <2>2. Len(queue') = Len(queue) + 1 /\ queue' \in Seq(AllEvents)
    BY <1>3, <2>1 DEF PostPush
  <2>3. ControlTypeOK' /\ PhaseInv' /\ ByteInv'
    BY <1>3, <2>1, <2>2 DEF PostPush
  <2>4. CarryInv'
    BY <1>3, <2>1 DEF PostPush
  <2> QED BY <2>3, <2>4
<1>4. CASE Stop(p)
  BY <1>4 DEF Stop
<1>5. CASE StopTid(p)
  BY <1>5 DEF StopTid
<1>6. CASE PauseTest(p)
  BY <1>6 DEF PauseTest
<1>7. CASE PauseSet(p)
  BY <1>7 DEF PauseSet
<1> QED BY <1>1, <1>2, <1>3, <1>4, <1>5, <1>6, <1>7 DEF Poster, InCall

\* Every step of the thread in loop_run preserves the invariant.
LEMMA LoopThreadStep ==
  ASSUME ControlInv,
         Enter \/ LoopStep \/ CallbackPosts \/ CallbackStops
  PROVE  ControlInv'
<1> USE LoopControlAssumption DEF ControlInv, ControlTypeOK, PhaseInv, ByteInv, CarryInv,
            AllEvents, Fresh
<1>1. CASE Enter \/ SetRunning \/ StatusTest \/ PollBytes \/ Leave
  BY <1>1 DEF Enter, SetRunning, StatusTest, PollBytes, Leave
<1>2. CASE Read
  BY <1>2 DEF Read
<1>3. CASE TakeEvent
  <2>1. /\ Head(queue) \in AllEvents /\ Tail(queue) \in Seq(AllEvents)
        /\ Len(Tail(queue)) = Len(queue) - 1 /\ inHand - 1 \in Nat
    BY <1>3 DEF TakeEvent
  <2> QED BY <1>3, <2>1 DEF TakeEvent
<1>4. CASE TakeEnds
  BY <1>4 DEF TakeEnds
<1>5. CASE CallbackReturns
  BY <1>5 DEF CallbackReturns
<1>6. CASE CallbackPosts
  <2>1. PICK e \in Customs : Fresh(e) /\ queue' = Append(queue, e)
                            /\ posted' = posted \union {e}
    BY <1>6 DEF CallbackPosts
  <2>2. Len(queue') = Len(queue) + 1 /\ queue' \in Seq(AllEvents)
    BY <2>1
  <2> QED BY <1>6, <2>1, <2>2 DEF CallbackPosts
<1>7. CASE CallbackStops
  BY <1>7 DEF CallbackStops
<1> QED BY <1>1, <1>2, <1>3, <1>4, <1>5, <1>6, <1>7 DEF LoopStep

-----------------------------------------------------------------------------
\* ControlInv holds in every state of an event loop reached by other threads (loop.cpp).
THEOREM ControlInvariant == ControlSpec => []ControlInv
<1>1. ControlInit => ControlInv
  BY LoopControlAssumption DEF ControlInit, ControlInv, ControlTypeOK, PhaseInv, ByteInv, CarryInv,
         AllEvents
<1>2. ControlInv /\ [ControlNext]_controlVars => ControlInv'
  <2> SUFFICES ASSUME ControlInv, [ControlNext]_controlVars
               PROVE  ControlInv'
    OBVIOUS
  <2>1. CASE UNCHANGED controlVars
    BY <2>1 DEF controlVars, ControlInv, ControlTypeOK, PhaseInv, ByteInv, CarryInv
  <2> QED BY <2>1, PosterStep, LoopThreadStep DEF ControlNext
<1> QED BY <1>1, <1>2, PTL DEF ControlSpec

\* Every queued event has its byte and every byte its event, whichever threads
\* and callbacks post, stop and pause the loop (loop_post_event and
\* sockpair_read_cb).
THEOREM ControlConsistentAlways == ControlSpec => []ControlConsistent
<1>1. ControlInv => ControlConsistent
  <2> SUFFICES ASSUME ControlInv
               PROVE  ControlConsistent
    OBVIOUS
  <2>1. ControlTypeOK /\ ByteInv
    BY DEF ControlInv
  <2>2. Cardinality({p \in Posters : pc[p] = "push"}) = IF mutex = Nobody THEN 0 ELSE 1
    BY <2>1, OnePusher
  <2>3. bytes + inHand = Len(queue) + Cardinality({p \in Posters : pc[p] = "push"})
    BY <2>1, <2>2 DEF ByteInv
  <2> QED BY <2>1, <2>3 DEF ControlConsistent, ByteForEach
<1> QED BY <1>1, ControlInvariant, PTL

\* Posted events run once each, one at a time, in the order in which they entered
\* custom_events: the loop's thread is the one worker of a WorkPool.
THEOREM ControlRefines == ControlSpec => ImplementsWorkPool
<1>1. ControlInit => WP!WPInit
  BY DEF ControlInit, WP!WPInit
<1>2. ASSUME ControlInv, [ControlNext]_controlVars
      PROVE  [WP!WPNext]_(WP!wpVars)
  <2> USE DEF WP!wpVars
  <2>1. ASSUME NEW p \in Posters, PostPush(p)
        PROVE  carry[p] \in AllEvents /\ WP!Accept(carry[p])
    BY <1>2, <2>1 DEF PostPush, WP!Accept, ControlInv, ControlTypeOK, CarryInv
  <2>2. CASE CallbackPosts
    <3>1. PICK e \in Customs : e \notin posted /\ queue' = Append(queue, e)
                              /\ posted' = posted \union {e}
      BY <2>2 DEF CallbackPosts, Fresh
    <3>2. WP!Accept(e) /\ e \in AllEvents
      BY <2>2, <3>1 DEF CallbackPosts, WP!Accept, AllEvents
    <3> QED BY <3>2 DEF WP!WPNext
  <2>3. CASE TakeEvent
    <3>1. current = NoEvent
      BY <1>2, <2>3 DEF TakeEvent, ControlInv, PhaseInv
    <3>2. WP!Take(Runner)
      BY <2>3, <3>1 DEF TakeEvent, WP!Take
    <3> QED BY <3>2 DEF WP!WPNext
  <2>4. CASE CallbackReturns
    <3>1. current # NoEvent
      BY <1>2, <2>4 DEF CallbackReturns, ControlInv, PhaseInv
    <3>2. WP!Finish(Runner)
      BY <2>4, <3>1 DEF CallbackReturns, WP!Finish
    <3> QED BY <3>2 DEF WP!WPNext
  <2>5. ASSUME NEW p \in Posters,
               \/ Post(p) \/ Stop(p) \/ PauseTest(p)
               \/ PostWrite(p) \/ StopTid(p) \/ PauseSet(p)
        PROVE  UNCHANGED WP!wpVars
    BY <2>5 DEF Post, Stop, PauseTest, PostWrite, StopTid, PauseSet
  <2>6. CASE \/ Enter \/ SetRunning \/ StatusTest \/ PollBytes \/ Read \/ TakeEnds
             \/ Leave \/ CallbackStops \/ UNCHANGED controlVars
    BY <2>6 DEF Enter, SetRunning, StatusTest, PollBytes, Read, TakeEnds, Leave,
                CallbackStops, controlVars
  <2> QED
    BY <1>2, <2>1, <2>2, <2>3, <2>4, <2>5, <2>6
    DEF ControlNext, Poster, InCall, LoopStep, WP!WPNext
<1> QED BY <1>1, <1>2, ControlInvariant, PTL DEF ControlSpec, ImplementsWorkPool, WP!WPSpec
=============================================================================
