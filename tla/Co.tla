--------------------------------- MODULE Co ---------------------------------
(***************************************************************************)
(* The coroutine scheduler: class CoSchedule (schedule/co.cpp) over the    *)
(* coroutines of schedule/_co.cpp.  One thread runs the scheduler; the     *)
(* coroutines take turns on it, start others, yield and return.  Other     *)
(* threads stop the scheduler and wait until it has stopped.               *)
(*                                                                         *)
(* stop_ and stoped_ are written under mtx_, but entry reads stop_ without *)
(* it, so every read is a step.  Memory is always there: co_new does not   *)
(* fail.  A coroutine does not stop its own scheduler, which would wait    *)
(* for itself.                                                             *)
(***************************************************************************)
EXTENDS Naturals, Sequences, SequencesExt, FiniteSets

CONSTANTS Coroutines,  \* the coroutines that are ever started
          Stoppers,    \* the threads that call sch_stop
          Null,        \* the null pointer
          MaxRuns      \* bound: calls of sch_run that run the scheduler

ASSUME CoAssumption == /\ Null \notin Coroutines
                       /\ IsFiniteSet(Coroutines) /\ IsFiniteSet(Stoppers)
                       /\ MaxRuns \in Nat

VARIABLES cos,      \* CoSchedule::cos_: the coroutines, in the order of the list
          cur,      \* CoSchedule::cur_: the node to resume next
          st,       \* co_s::st of every coroutine
          ns,       \* schedule_s::ns, what co_num returns
          running,  \* schedule_s::cur: the coroutine that has the thread
          stop,     \* CoSchedule::stop_
          stoped,   \* CoSchedule::stoped_
          pc,       \* where the scheduling thread is
          node,     \* the local variable of entry
          spc,      \* where each stopper is
          runs,     \* how often the scheduler was run
          asked,    \* history: the run that each stopper asked to end
          served    \* history: who was resumed since this one was, or was added

coroutines == <<cos, cur, st, ns, running, served>>
flags == <<stop, stoped>>
vars == <<coroutines, flags, pc, node, spc, asked, runs>>

Init == /\ cos = <<>> /\ cur = Null
        /\ st = [c \in Coroutines |-> "none"]
        /\ ns = 0 /\ running = Null
        /\ stop = FALSE /\ stoped = TRUE
        /\ pc = "idle" /\ node = Null
        /\ spc = [s \in Stoppers |-> "idle"]
        /\ asked = [s \in Stoppers |-> 0]
        /\ runs = 0
        /\ served = [c \in Coroutines |-> {}]

\* The node behind c in the ring that list_head closes, without the head.
Position(c) == CHOOSE i \in DOMAIN cos : cos[i] = c
NextOf(c) == IF Position(c) = Len(cos) THEN Head(cos) ELSE cos[Position(c) + 1]

-----------------------------------------------------------------------------
(* Faulty variants, used to test the properties.                           *)

\* A coroutine that returns leaves cur_ where it is.
ReturnDangling == /\ pc = "running"
                  /\ st' = [st EXCEPT ![running] = "dead"]
                  /\ ns' = ns - 1
                  /\ cos' = RemoveAt(cos, Position(running))
                  /\ running' = Null
                  /\ pc' = "switch"
                  /\ UNCHANGED <<cur, served, flags, node, spc, asked, runs>>

\* A new coroutine goes to the head of the list.
AddHead(c) == /\ pc \in {"idle", "running"} /\ st[c] = "none"
              /\ st' = [st EXCEPT ![c] = "ready"]
              /\ ns' = ns + 1
              /\ cos' = <<c>> \o cos
              /\ cur' = c
              /\ served' = [served EXCEPT ![c] = {}]
              /\ UNCHANGED <<running, flags, pc, node, spc, asked, runs>>

\* Nobody is notified.
EndSilent == /\ pc = "end"
             /\ stop' = FALSE /\ stoped' = TRUE
             /\ pc' = "idle"
             /\ UNCHANGED <<coroutines, node, spc, asked, runs>>

-----------------------------------------------------------------------------
(* The coroutines.                                                         *)

\* CoSchedule::add, by the thread of the scheduler: between two runs, or in
\* the coroutine that has the thread.
Add(c) == /\ pc \in {"idle", "running"} /\ st[c] = "none"
          /\ st' = [st EXCEPT ![c] = "ready"]
          /\ ns' = ns + 1
          /\ cos' = Append(cos, c)
          /\ cur' = IF cur = Null THEN c ELSE cur
          /\ served' = [served EXCEPT ![c] = {}]
          /\ UNCHANGED <<running, flags, pc, node, spc, asked, runs>>

Yield == /\ pc = "running"
         /\ st' = [st EXCEPT ![running] = "suspend"]
         /\ running' = Null
         /\ pc' = "switch"
         /\ UNCHANGED <<cos, cur, ns, served, flags, node, spc, asked, runs>>

\* The function returns: infunc, _del_co and its close callback co_quit, which
\* takes the node out of the list and moves cur_ on.
Return == /\ pc = "running"
          /\ st' = [st EXCEPT ![running] = "dead"]
          /\ ns' = ns - 1
          /\ cos' = RemoveAt(cos, Position(running))
          /\ cur' = IF Len(cos) = 1 THEN Null ELSE NextOf(running)
          /\ running' = Null
          /\ pc' = "switch"
          /\ UNCHANGED <<served, flags, node, spc, asked, runs>>

-----------------------------------------------------------------------------
(* sch_run and entry.                                                      *)

Run == /\ pc = "idle" /\ stoped /\ runs < MaxRuns
       /\ stoped' = FALSE /\ stop' = FALSE
       /\ pc' = "outer"
       /\ runs' = runs + 1
       /\ UNCHANGED <<coroutines, node, spc, asked>>

TestOuter == /\ pc = "outer"
             /\ pc' = IF stop THEN "end" ELSE "inner"
             /\ UNCHANGED <<coroutines, flags, node, spc, asked, runs>>

TestInner == /\ pc = "inner"
             /\ pc' = IF ~stop /\ ns > 0 THEN "fetch" ELSE "outer"
             /\ UNCHANGED <<coroutines, flags, node, spc, asked, runs>>

Fetch == /\ pc = "fetch"
         /\ node' = cur
         /\ pc' = IF cur = Null THEN "inner" ELSE "resume"
         /\ UNCHANGED <<coroutines, flags, spc, asked, runs>>

\* co_resume
Resume == /\ pc = "resume" /\ running = Null /\ st[node] \in {"ready", "suspend"}
          /\ st' = [st EXCEPT ![node] = "running"]
          /\ running' = node
          /\ served' = [c \in Coroutines |-> IF c = node THEN {} ELSE served[c] \union {node}]
          /\ pc' = "running"
          /\ UNCHANGED <<cos, cur, ns, flags, node, spc, asked, runs>>

\* cur_ moves on unless the coroutine returned and has moved it already.
Switch == /\ pc = "switch"
          /\ \/ cos = <<>> /\ cur' = Null /\ pc' = "outer"
             \/ cos # <<>> /\ cur' = (IF node = cur THEN NextOf(node) ELSE cur) /\ pc' = "inner"
          /\ UNCHANGED <<cos, st, ns, running, served, flags, node, spc, asked, runs>>

End == /\ pc = "end"
       /\ stop' = FALSE /\ stoped' = TRUE
       /\ spc' = [s \in Stoppers |-> IF spc[s] = "wait" THEN "notified" ELSE spc[s]]
       /\ pc' = "idle"
       /\ UNCHANGED <<coroutines, node, asked, runs>>

-----------------------------------------------------------------------------
(* sch_stop: cond_.wait with its predicate, also after a spurious wake-up. *)

Stop(s) == /\ spc[s] = "idle" /\ ~stoped
           /\ stop' = TRUE
           /\ spc' = [spc EXCEPT ![s] = "wait"]
           /\ asked' = [asked EXCEPT ![s] = runs]
           /\ UNCHANGED <<coroutines, stoped, pc, node, runs>>

Wake(s) == /\ spc[s] = "notified"
           /\ spc' = [spc EXCEPT ![s] = IF stoped THEN "idle" ELSE "wait"]
           /\ UNCHANGED <<coroutines, flags, pc, node, asked, runs>>

Spurious(s) == /\ spc[s] = "wait"
               /\ spc' = [spc EXCEPT ![s] = "notified"]
               /\ UNCHANGED <<coroutines, flags, pc, node, asked, runs>>

-----------------------------------------------------------------------------
Entry == TestOuter \/ TestInner \/ Fetch \/ Resume \/ Switch \/ End
LetGo == Yield \/ Return

Next == \/ \E c \in Coroutines : Add(c)
        \/ Run \/ Entry \/ LetGo
        \/ \E s \in Stoppers : Stop(s) \/ Wake(s) \/ Spurious(s)

Spec == Init /\ [][Next]_vars

\* entry goes on, a coroutine lets go of the thread some time, a notified
\* thread gets the mutex.
Fairness == /\ WF_vars(Entry) /\ WF_vars(LetGo)
            /\ \A s \in Stoppers : WF_vars(Wake(s))
FairSpec == Spec /\ Fairness

-----------------------------------------------------------------------------
TypeOK == /\ cos \in Seq(Coroutines) /\ cur \in Coroutines \union {Null}
          /\ st \in [Coroutines -> {"none", "ready", "running", "suspend", "dead"}]
          /\ ns \in Nat /\ running \in Coroutines \union {Null}
          /\ node \in Coroutines \union {Null}
          /\ served \in [Coroutines -> SUBSET Coroutines]
          /\ stop \in BOOLEAN /\ stoped \in BOOLEAN
          /\ pc \in {"idle", "outer", "inner", "fetch", "resume", "running", "switch", "end"}
          /\ spc \in [Stoppers -> {"idle", "wait", "notified"}]

\* cur_ never dangles: it is null exactly when no coroutine is left, else a
\* node of the list; the two counts of coroutines agree, and what is about to
\* be resumed may be resumed, which co_resume asserts.
CurLives == /\ cur = Null <=> cos = <<>>
            /\ cur # Null => cur \in ToSet(cos)
            /\ ns = Len(cos) /\ ToSet(cos) = {c \in Coroutines : st[c] \notin {"none", "dead"}}
            /\ pc = "resume" => st[node] \in {"ready", "suspend"}

\* What holds in every state: the types, and a cur_ that lives (co.cpp, _co.cpp).
Consistent == TypeOK /\ CurLives

\* Turns are taken in order: nobody is resumed twice while a coroutine that is
\* in the list waits, whoever starts, yields or returns meanwhile and however
\* often the scheduler is stopped and run again.
TakesTurns == [][running' # Null /\ running = Null
                   => \A c \in ToSet(cos) \ {running'} : running' \notin served[c]]_vars

\* A stopped scheduler ends and its stopper returns; only a thread that runs the
\* scheduler again at once may keep it waiting.
StopReturns == \A s \in Stoppers :
                   (spc[s] # "idle" /\ asked[s] = runs) ~> (spc[s] = "idle" \/ runs > asked[s])
=============================================================================
