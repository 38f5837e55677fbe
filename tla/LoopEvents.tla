----------------------------- MODULE LoopEvents -----------------------------
(***************************************************************************)
(* The timers and idles of the event loop (event/loop.cpp) and the lists   *)
(* of pending events it walks in every round (hloop_process_events).       *)
(*                                                                         *)
(* Everything here happens on the thread of the loop.  What can go wrong   *)
(* is the life of an event object: while a round is under way an event may *)
(* be linked in a pending list, in the heap or in the list of idles, its   *)
(* flags active, destroy and pending say what is still to be done with it, *)
(* and any callback of the round may reset or delete it.                   *)
(*                                                                         *)
(* Time is that of the loop's cached clock, in ticks; left[t] is           *)
(* next_timeout minus that clock, and 0 outside the heap, where nobody     *)
(* reads it (as is the repeat of freed memory).  Sources stands for the io *)
(* events, whose life is not modelled here: they are always active and     *)
(* their callbacks only give the user one more place to call from.  The    *)
(* shape of the heap and the order of loop->idles are left open.           *)
(***************************************************************************)
EXTENDS Integers, Sequences, SequencesExt, FiniteSets

CONSTANTS Timeouts,     \* timeout_t objects that are ever allocated
          Periods,      \* period_t objects that are ever allocated
          Idles,        \* idle_t objects that are ever allocated
          Sources,      \* io events
          Delays,       \* the timeouts a timer is added with, in ticks
          Repeats,      \* the repeat counts an event is added with
          Forever,      \* INFINITE
          None,         \* no event
          MaxLate,      \* bound: how far the loop may fall behind a timer
          DelAfterReset \* whether users delete a timer they reset in the round

Timers == Timeouts \union Periods
Events == Timers \union Idles \union Sources

ASSUME LoopEventsAssumption ==
    /\ Delays \subseteq Nat \ {0} /\ Delays # {}
    /\ Repeats \subseteq Nat \ {0} /\ Forever \in Nat
    /\ MaxLate \in Nat
    /\ None \notin Events
    /\ DelAfterReset \in BOOLEAN
    /\ IsFiniteSet(Events)
    /\ Timeouts \intersect Periods = {}
    /\ Timers \intersect (Idles \union Sources) = {}
    /\ Idles \intersect Sources = {}

VARIABLES live,      \* the events whose memory is allocated
          unborn,    \* the events not allocated yet
          active, destroy, pending,  \* the flags of the events, as sets
          repeat,    \* repeat of each timer and idle
          timeout,   \* timeout of each timeout_t
          left,      \* next_timeout - cur_hrtime of each timer
          heap,      \* the members of loop->timers
          idles,     \* the members of loop->idles
          pendings,  \* loop->pendings: one list for each priority, head first
          nactives, ntimers, nidles, npendings,
          phase,     \* what the loop is doing
          cur,       \* the event whose callback runs
          released,  \* history: the events their user has deleted
          waiting,   \* history: the timers not due since they were last set
          misused    \* history: the timers deleted while the round still had to pass them

objects == <<live, unborn, repeat, timeout>>
flags == <<active, destroy, pending>>
counters == <<nactives, ntimers, nidles, npendings>>
history == <<released, waiting, misused>>
vars == <<objects, flags, left, heap, idles, pendings, counters, phase, cur, history>>

\* ARS_EVENT_PRIORITY: timeouts, then periods, then io events, then idles
Priority(e) == CASE e \in Timeouts -> 4
                 [] e \in Periods -> 3
                 [] e \in Sources -> 2
                 [] e \in Idles -> 1
Priorities == 1..4

Linked == UNION {ToSet(pendings[p]) : p \in Priorities}

Init == /\ live = Sources /\ unborn = Timers \union Idles
        /\ active = Sources /\ destroy = {} /\ pending = {}
        /\ repeat = [e \in Timers \union Idles |-> 0]
        /\ timeout = [t \in Timeouts |-> 0]
        /\ left = [t \in Timers |-> 0]
        /\ heap = {} /\ idles = {}
        /\ pendings = [p \in Priorities |-> <<>>]
        /\ nactives = Cardinality(Sources)
        /\ ntimers = 0 /\ nidles = 0 /\ npendings = 0
        /\ phase = "out" /\ cur = None
        /\ released = {} /\ waiting = {} /\ misused = {}

-----------------------------------------------------------------------------
(* Faulty variants, used to test the properties.                           *)

\* The memory goes although a pending list still holds the event.
DelNow(e, stillPending) ==
    /\ active' = active \ {e}
    /\ nactives' = IF e \in active THEN nactives - 1 ELSE nactives
    /\ live' = live \ {e}
    /\ repeat' = [repeat EXCEPT ![e] = 0]

\* The event stays pending.
ResetKeepsPending(t) == /\ destroy' = destroy \ {t}
                        /\ active' = active \union {t}
                        /\ nactives' = IF t \in active THEN nactives ELSE nactives + 1
                        /\ UNCHANGED pending

-----------------------------------------------------------------------------
(* The macros of event.hpp.                                                *)

\* ARS_EVENT_PENDING
Pend(e) == IF e \in pending
           THEN UNCHANGED <<pending, pendings, npendings>>
           ELSE /\ pending' = pending \union {e}
                /\ pendings' = [pendings EXCEPT ![Priority(e)] = <<e>> \o @]
                /\ npendings' = npendings + 1

\* ARS_EVENT_ADD of a fresh object
Add(e) == /\ unborn' = unborn \ {e} /\ live' = live \union {e}
          /\ active' = active \union {e}
          /\ nactives' = nactives + 1

\* ARS_EVENT_DEL: the memory goes at once unless the event is pending.
Del(e, stillPending) ==
    /\ active' = active \ {e}
    /\ nactives' = IF e \in active THEN nactives - 1 ELSE nactives
    /\ \/ stillPending /\ UNCHANGED <<live, repeat>>
       \/ /\ ~stillPending
          /\ live' = live \ {e}
          /\ repeat' = [repeat EXCEPT ![e] = 0]

\* ARS_EVENT_RESET takes back pending, not the link in the list.
EventReset(t) == /\ destroy' = destroy \ {t}
                 /\ active' = active \union {t}
                 /\ nactives' = IF t \in active THEN nactives ELSE nactives + 1
                 /\ pending' = pending \ {t}

\* The first half of timer_reset
Rearm(t) == /\ repeat' = [repeat EXCEPT ![t] = IF @ = 0 THEN 1 ELSE @]
            /\ left' = [left EXCEPT ![t] = timeout[t]]
            /\ heap' = heap \union {t}
            /\ ntimers' = IF t \in destroy THEN ntimers + 1 ELSE ntimers

\* __htimer_del, __hidle_del
Unheap(t) == IF t \in destroy
             THEN UNCHANGED <<heap, ntimers, destroy, left>>
             ELSE /\ heap' = heap \ {t}
                  /\ left' = [left EXCEPT ![t] = 0]
                  /\ ntimers' = ntimers - 1
                  /\ destroy' = destroy \union {t}

Unlist(i) == IF i \in destroy
             THEN UNCHANGED <<idles, nidles, destroy>>
             ELSE /\ idles' = idles \ {i}
                  /\ nidles' = nidles - 1
                  /\ destroy' = destroy \union {i}

-----------------------------------------------------------------------------
(* What users call, before the loop runs or from a callback.  A handle is  *)
(* good until its user deletes it or the event has run out.                *)

UserMayCall == phase \in {"out", "cb"}
Held(e) == e \in live \ released

TimerAdd(t, d, r) ==
    /\ UserMayCall /\ t \in unborn \intersect Timeouts
    /\ Add(t)
    /\ repeat' = [repeat EXCEPT ![t] = r]
    /\ timeout' = [timeout EXCEPT ![t] = d]
    /\ left' = [left EXCEPT ![t] = d]
    /\ heap' = heap \union {t} /\ ntimers' = ntimers + 1
    /\ waiting' = waiting \union {t}
    /\ UNCHANGED <<destroy, pending, idles, pendings, nidles, npendings, phase,
                   cur, released, misused>>

\* timer_add_period: cron_next_timeout names a time in the future.
TimerAddPeriod(t, d, r) ==
    /\ UserMayCall /\ t \in unborn \intersect Periods
    /\ Add(t)
    /\ repeat' = [repeat EXCEPT ![t] = r]
    /\ left' = [left EXCEPT ![t] = d]
    /\ heap' = heap \union {t} /\ ntimers' = ntimers + 1
    /\ waiting' = waiting \union {t}
    /\ UNCHANGED <<timeout, destroy, pending, idles, pendings, nidles, npendings,
                   phase, cur, released, misused>>

IdleAdd(i, r) ==
    /\ UserMayCall /\ i \in unborn \intersect Idles
    /\ Add(i)
    /\ repeat' = [repeat EXCEPT ![i] = r]
    /\ idles' = idles \union {i} /\ nidles' = nidles + 1
    /\ UNCHANGED <<timeout, destroy, pending, left, heap, pendings, ntimers,
                   npendings, phase, cur, history>>

TimerReset(t) ==
    /\ UserMayCall /\ t \in Timeouts /\ Held(t)
    /\ Rearm(t)
    /\ EventReset(t)
    /\ waiting' = waiting \union {t}
    /\ UNCHANGED <<live, unborn, timeout, idles, pendings, nidles, npendings,
                   phase, cur, released, misused>>

\* The round still has to pass t, or is calling it, although t is not pending.
Passing(t) == t \in (Linked \union {cur}) \ pending

TimerDel(t) ==
    /\ UserMayCall /\ t \in Timers /\ Held(t) /\ t \in active
    /\ DelAfterReset \/ ~Passing(t)
    /\ Unheap(t)
    /\ Del(t, t \in pending)
    /\ released' = released \union {t}
    /\ misused' = IF Passing(t) THEN misused \union {t} ELSE misused
    /\ UNCHANGED <<unborn, timeout, pending, idles, pendings, nidles, npendings,
                   phase, cur, waiting>>

IdleDel(i) ==
    /\ UserMayCall /\ i \in Idles /\ Held(i) /\ i \in active
    /\ Unlist(i)
    /\ Del(i, i \in pending)
    /\ released' = released \union {i}
    /\ UNCHANGED <<unborn, timeout, pending, left, heap, pendings, ntimers,
                   npendings, phase, cur, waiting, misused>>

User == \/ \E t \in Timeouts, d \in Delays, r \in Repeats : TimerAdd(t, d, r)
        \/ \E t \in Periods, d \in Delays, r \in Repeats : TimerAddPeriod(t, d, r)
        \/ \E i \in Idles, r \in Repeats : IdleAdd(i, r)
        \/ \E t \in Timeouts : TimerReset(t)
        \/ \E t \in Timers : TimerDel(t)
        \/ \E i \in Idles : IdleDel(i)

-----------------------------------------------------------------------------
(* loop_run and hloop_process_events.                                      *)

\* loop_update_time finds that one unit has passed.
OneLater == [t \in Timers |-> IF t \in heap THEN left[t] - 1 ELSE left[t]]

\* The cached clock moves at the start of a round and in timer_add.
Tick == /\ phase \in {"top", "cb"}
        /\ \A t \in heap : left[t] > -MaxLate
        /\ left' = OneLater
        /\ UNCHANGED <<objects, flags, heap, idles, pendings, counters, phase, cur,
                       history>>

Run == /\ phase = "out"
       /\ phase' = "top"
       /\ UNCHANGED <<objects, flags, left, heap, idles, pendings, counters, cur,
                      history>>

\* The root of the heap
Root(t) == t \in heap /\ \A u \in heap : left[t] <= left[u]
DueNow == \E t \in heap : left[t] <= 0

\* Faulty variant: a due timer keeps the loop from its timers too.
SkipTimers == /\ phase = "top" /\ nactives > Cardinality(Sources)
              /\ DueNow
              /\ phase' = "pend"
              /\ UNCHANGED <<objects, flags, left, heap, idles, pendings, counters,
                             cur, history>>

\* ARS_LOOP_FLAG_QUIT_WHEN_NO_ACTIVE_EVENTS: only the io events of the loop's
\* own are left.
Quit == /\ phase = "top" /\ nactives <= Cardinality(Sources)
        /\ phase' = "ended"
        /\ UNCHANGED <<objects, flags, left, heap, idles, pendings, counters, cur,
                       history>>

\* A timer that is due already keeps the loop from polling.
SkipPoll == /\ phase = "top" /\ nactives > Cardinality(Sources)
            /\ DueNow
            /\ phase' = "timers"
            /\ UNCHANGED <<objects, flags, left, heap, idles, pendings, counters,
                           cur, history>>

\* iowatcher_poll_events returns with some io event or with none; the clock is
\* read again behind it, so timers may be due in the same round.
Poll == /\ phase = "top" /\ nactives > Cardinality(Sources)
        /\ ~DueNow
        /\ phase' = "timers"
        /\ \/ UNCHANGED <<pending, pendings, npendings>>
           \/ \E e \in Sources : Pend(e)
        /\ left' \in {left, OneLater}
        /\ UNCHANGED <<objects, active, destroy, heap, idles, nactives,
                       ntimers, nidles, cur, history>>

\* The first time after now that next_timeout reaches by whole timeouts
NextLeft(t) == 1 + ((left[t] - 1) % timeout[t])

\* hloop_process_timers, one round of its loop
FireTimer(t) ==
    /\ phase = "timers" /\ ntimers # 0
    /\ Root(t) /\ left[t] <= 0
    /\ LET r == IF repeat[t] = Forever THEN Forever ELSE repeat[t] - 1
       IN /\ repeat' = [repeat EXCEPT ![t] = r]
          /\ \/ r = 0 /\ Unheap(t)
             \/ /\ r # 0 /\ t \in Timeouts
                /\ left' = [left EXCEPT ![t] = NextLeft(t)]
                /\ UNCHANGED <<heap, ntimers, destroy>>
             \/ /\ r # 0 /\ t \in Periods
                /\ \E d \in Delays : left' = [left EXCEPT ![t] = d]
                /\ UNCHANGED <<heap, ntimers, destroy>>
    /\ Pend(t)
    /\ waiting' = waiting \ {t}
    /\ UNCHANGED <<live, unborn, timeout, active, idles, nactives, nidles, phase,
                   cur, released, misused>>

\* hloop_process_idles runs when nothing else is pending.
ProcessIdles ==
    /\ phase = "timers" /\ (ntimers = 0 \/ ~DueNow)
    /\ npendings = 0 /\ nidles # 0
    /\ LET left1(i) == IF repeat[i] = Forever THEN Forever ELSE repeat[i] - 1
           over == {i \in idles : left1(i) = 0}
       IN /\ repeat' = [e \in DOMAIN repeat |->
                           IF e \in idles THEN left1(e) ELSE repeat[e]]
          /\ destroy' = destroy \union over
          /\ idles' = idles \ over
          /\ nidles' = nidles - Cardinality(over)
          /\ pending' = pending \union idles
          /\ \E list \in SetToSeqs(idles) : pendings' = [pendings EXCEPT ![1] = list]
          /\ npendings' = Cardinality(idles)
    /\ phase' = "pend"
    /\ UNCHANGED <<live, unborn, timeout, active, left, heap, nactives, ntimers,
                   cur, history>>

NoIdles == /\ phase = "timers" /\ (ntimers = 0 \/ ~DueNow)
           /\ npendings # 0 \/ nidles = 0
           /\ phase' = "pend"
           /\ UNCHANGED <<objects, flags, left, heap, idles, pendings, counters, cur,
                          history>>

\* The next event of hloop_process_pendings, from high to low priority
Visit(e) == /\ phase = "pend"
            /\ \E p \in Priorities :
                  /\ pendings[p] # <<>> /\ e = Head(pendings[p])
                  /\ \A q \in Priorities : q > p => pendings[q] = <<>>
                  /\ pendings' = [pendings EXCEPT ![p] = Tail(@)]

\* Faulty variants: the callback of an event that is not active any more is
\* called; the deletion that was put off is forgotten.
CallInactive(e) == /\ Visit(e)
                   /\ e \in pending
                   /\ phase' = "cb" /\ cur' = e
                   /\ UNCHANGED <<objects, flags, left, heap, idles, counters, history>>

FinishNoDelete(e) == /\ pending' = pending \ {e}
                     /\ phase' = "pend"
                     /\ UNCHANGED <<objects, active, destroy, left, heap, idles,
                                    counters, history>>

\* An event that is no longer pending is passed over.
Pass(e) == /\ Visit(e)
           /\ e \notin pending
           /\ UNCHANGED <<objects, flags, left, heap, idles, counters, phase, cur,
                          history>>

Call(e) == /\ Visit(e)
           /\ e \in pending /\ e \in active
           /\ phase' = "cb" /\ cur' = e
           /\ UNCHANGED <<objects, flags, left, heap, idles, counters, history>>

\* cur->pending = 0, and the deletion that was put off
Finish(e) == /\ pending' = pending \ {e}
             /\ IF e \in destroy THEN Del(e, FALSE)
                ELSE UNCHANGED <<active, nactives, live, repeat>>
             /\ phase' = "pend"
             /\ UNCHANGED <<unborn, timeout, destroy, left, heap, idles, ntimers,
                            nidles, npendings, history>>

Return == /\ phase = "cb"
          /\ Finish(cur)
          /\ cur' = None
          /\ UNCHANGED pendings

\* A pending event that was deleted meanwhile is not called.
Discard(e) == /\ Visit(e)
              /\ e \in pending /\ e \notin active
              /\ Finish(e)
              /\ UNCHANGED cur

RoundDone == /\ phase = "pend" /\ \A p \in Priorities : pendings[p] = <<>>
             /\ npendings' = 0
             /\ phase' = "top"
             /\ UNCHANGED <<objects, flags, left, heap, idles, pendings, nactives,
                            ntimers, nidles, cur, history>>

Loop == \/ Quit \/ SkipPoll \/ Poll \/ ProcessIdles \/ NoIdles \/ Return \/ RoundDone
        \/ \E t \in Timers : FireTimer(t)
        \/ \E e \in Events : Pass(e) \/ Call(e) \/ Discard(e)

Next == Run \/ User \/ Tick \/ Loop

Spec == Init /\ [][Next]_vars

\* The loop goes on, callbacks return, and time passes however the loop fares.
FairSpec == Spec /\ WF_vars(Loop) /\ SF_vars(Tick)

-----------------------------------------------------------------------------
TypeOK == /\ live \subseteq Events /\ unborn \subseteq Timers \union Idles
          /\ live \intersect unborn = {}
          /\ active \subseteq Events /\ destroy \subseteq Events
          /\ pending \subseteq Events
          /\ repeat \in [Timers \union Idles -> Nat] /\ timeout \in [Timeouts -> Nat]
          /\ pendings \in [Priorities -> Seq(Events)] /\ npendings \in Nat
          /\ released \subseteq Events /\ waiting \subseteq Timers /\ misused \subseteq Timers
          /\ left \in [Timers -> Int]
          /\ heap \subseteq Timers
          /\ phase \in {"out", "top", "timers", "pend", "cb", "ended"}
          /\ cur \in Events \union {None}
          /\ cur # None <=> phase = "cb"

\* The counters of the loop agree with what they count: nactives decides when
\* the loop quits, ntimers and nidles whether timers and idles are looked at.
CountersExact == /\ nactives = Cardinality(active)
                 /\ ntimers = Cardinality(heap)
                 /\ nidles = Cardinality(idles)
                 /\ npendings = 0 => Linked = {}

\* No memory is freed that a pending list or the walk over it still uses
\* (hloop_process_pendings reads pending and destroy of what it visits).
NoUseAfterFree == Linked \union (IF cur = None THEN {} ELSE {cur}) \subseteq live

\* An event is in the heap or in the list of idles exactly as long as it lives
\* and is not marked destroy: heap_remove and list_del never meet an event
\* that is not there.
WhereItIs == /\ heap = {t \in Timers \intersect live : t \notin destroy}
             /\ idles = {i \in Idles \intersect live : i \notin destroy}

\* Between two rounds nothing lingers: whatever ran out or was deleted has been
\* freed, although its deletion was put off while it was pending.
NoLeak == phase = "top" => \A e \in live : e \in active /\ e \notin destroy

\* What holds in every state of the loop: the types, exact counters, each event
\* where its flags say it is, and nothing left over between two rounds (loop.cpp).
Consistent == TypeOK /\ CountersExact /\ WhereItIs /\ NoLeak

\* A deleted event is not called any more, also when it was pending already.
DeletedNeverCalled ==
    [][\A e \in Events : Call(e) => e \notin released]_vars

\* A timer that is reset while it is pending is not called before its new time.
ResetPostpones == [][\A t \in Timers : Call(t) => t \notin waiting]_vars

\* A timer that stays in the heap is called over and over, unless it is reset
\* over and over.
TimersFire == \A t \in Timers :
                 <>[](t \in heap /\ phase # "out") => \/ []<>(phase = "cb" /\ cur = t)
                                    \/ []<><<TimerReset(t)>>_vars
=============================================================================
