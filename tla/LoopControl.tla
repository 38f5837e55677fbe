---------------------------- MODULE LoopControl ----------------------------
(***************************************************************************)
(* How other threads reach an event loop (event/loop.cpp): they post       *)
(* custom events, stop, pause and resume it.  A posted event is one byte   *)
(* in a socket pair and one entry of custom_events; the loop reads the     *)
(* bytes and takes an entry for each.  loop->status is a plain field that  *)
(* every thread tests and assigns in separate steps.                       *)
(*                                                                         *)
(* Some names start with Control or differ from those of LoopEvents, so    *)
(* that one module may extend both.                                        *)
(*                                                                         *)
(* Timers, idles and other descriptors are in LoopEvents; here a poll      *)
(* either finds bytes or times out.  The loop is not freed: it may be run  *)
(* again after it has ended (no ARS_LOOP_FLAG_AUTO_FREE).                  *)
(***************************************************************************)
EXTENDS Naturals, Sequences, FiniteSets

CONSTANTS Posters,  \* the threads other than the loop's
          Creator,  \* the one of them that called loop_new
          Runner,   \* the thread that calls loop_run
          Customs,  \* the custom events that are ever posted
          NoEvent,  \* no event
          Nobody,   \* the owner of a free mutex
          MaxRuns   \* bound: calls of loop_run

\* The event that loop_stop posts is named by the thread that called it.
AllEvents == Customs \union Posters

ASSUME LoopControlAssumption ==
    /\ IsFiniteSet(Posters)
    /\ Creator \in Posters /\ Runner \notin Posters
    /\ Customs \intersect Posters = {}
    /\ NoEvent \notin AllEvents /\ Nobody \notin Posters
    /\ MaxRuns \in Nat

VARIABLES status,   \* loop->status
          tid,      \* loop->tid
          mutex,    \* the owner of custom_events_mutex
          bytes,    \* the bytes in the socket pair
          queue,    \* loop->custom_events
          place,    \* where the loop's thread is
          inHand,   \* the bytes sockpair_read_cb still has to answer
          current,  \* the event whose callback runs
          pc,       \* where each poster is
          carry,    \* the event it posts
          stopped,  \* history: the posters that have called loop_stop
          posted,   \* history: the events that entered custom_events
          ran,      \* history: the events whose callback has returned
          runs      \* calls of loop_run so far

control == <<status, tid, stopped, runs>>
mailbox == <<mutex, bytes, queue, posted>>
loopVars == <<place, inHand, current, ran>>
posterVars == <<pc, carry>>
controlVars == <<control, mailbox, loopVars, posterVars>>

ControlInit == /\ status = "STOP" /\ tid = Creator
               /\ mutex = Nobody /\ bytes = 0 /\ queue = <<>>
               /\ place = "new" /\ inHand = 0 /\ current = NoEvent
               /\ pc = [p \in Posters |-> "idle"]
               /\ carry = [p \in Posters |-> NoEvent]
               /\ stopped = {} /\ posted = {} /\ ran = {} /\ runs = 0

Goto(p, l) == pc' = [pc EXCEPT ![p] = l]

\* An event nobody has posted and nobody is posting
Fresh(e) == /\ e \in Customs \ posted
            /\ \A p \in Posters : carry[p] # e

-----------------------------------------------------------------------------
(* Faulty variants, used to test the properties.                           *)

\* The byte is written before the mutex is locked.
WriteUnlocked(p) == /\ pc[p] = "write"
                    /\ bytes' = bytes + 1
                    /\ Goto(p, "push")
                    /\ UNCHANGED <<control, mutex, queue, posted, loopVars, carry>>

\* One event is taken for all bytes of a read.
TakeOne == /\ place = "take" /\ inHand > 0
           /\ mutex = Nobody
           /\ queue # <<>>
           /\ current' = Head(queue) /\ queue' = Tail(queue)
           /\ inHand' = 0
           /\ place' = "cb"
           /\ UNCHANGED <<control, mutex, bytes, posted, ran, posterVars>>

\* The front event is copied and not popped.
TakeCopy == /\ place = "take" /\ inHand > 0
            /\ mutex = Nobody
            /\ queue # <<>>
            /\ current' = Head(queue)
            /\ inHand' = inHand - 1
            /\ place' = "cb"
            /\ UNCHANGED <<control, mailbox, ran, posterVars>>

\* loop_stop trusts the status alone.
StopSilent(p) == /\ pc[p] = "tid"
                 /\ Goto(p, "idle")
                 /\ UNCHANGED <<control, mailbox, loopVars, carry>>

-----------------------------------------------------------------------------
(* loop_post_event, loop_stop, loop_pause and loop_resume.                 *)

Post(p) == /\ pc[p] = "idle"
           /\ \E e \in Customs : Fresh(e) /\ carry' = [carry EXCEPT ![p] = e]
           /\ Goto(p, "write")
           /\ UNCHANGED <<control, mailbox, loopVars>>

\* Under the mutex first the byte ...
PostWrite(p) == /\ pc[p] = "write"
                /\ mutex = Nobody /\ mutex' = p
                /\ bytes' = bytes + 1
                /\ Goto(p, "push")
                /\ UNCHANGED <<control, queue, posted, loopVars, carry>>

\* ... and then the event.
PostPush(p) == /\ pc[p] = "push"
               /\ queue' = Append(queue, carry[p])
               /\ posted' = posted \union {carry[p]}
               /\ mutex' = Nobody
               /\ carry' = [carry EXCEPT ![p] = NoEvent]
               /\ Goto(p, "idle")
               /\ UNCHANGED <<control, bytes, loopVars>>

\* Each thread stops the loop at most once.
Stop(p) == /\ pc[p] = "idle" /\ p \notin stopped
           /\ status' = "STOP"
           /\ stopped' = stopped \union {p}
           /\ Goto(p, "tid")
           /\ UNCHANGED <<tid, runs, mailbox, loopVars, carry>>

StopTid(p) == /\ pc[p] = "tid"
              /\ \/ tid = p /\ Goto(p, "idle") /\ UNCHANGED carry
                 \/ /\ tid # p /\ Goto(p, "write")
                    /\ carry' = [carry EXCEPT ![p] = p]
              /\ UNCHANGED <<control, mailbox, loopVars>>

PauseTest(p) == /\ pc[p] = "idle"
                /\ \/ status = "RUNNING" /\ Goto(p, "pause")
                   \/ status = "PAUSE" /\ Goto(p, "resume")
                /\ UNCHANGED <<control, mailbox, loopVars, carry>>

PauseSet(p) == /\ \/ pc[p] = "pause" /\ status' = "PAUSE"
                  \/ pc[p] = "resume" /\ status' = "RUNNING"
               /\ Goto(p, "idle")
               /\ UNCHANGED <<tid, stopped, runs, mailbox, loopVars, carry>>

InCall(p) == PostWrite(p) \/ PostPush(p) \/ StopTid(p) \/ PauseSet(p)
Poster(p) == Post(p) \/ Stop(p) \/ PauseTest(p) \/ InCall(p)

-----------------------------------------------------------------------------
(* loop_run, hloop_process_events and sockpair_read_cb.                    *)

Enter == /\ place \in {"new", "ended"} /\ runs < MaxRuns
         /\ tid' = Runner /\ runs' = runs + 1
         /\ place' = "entered"
         /\ UNCHANGED <<status, stopped, mailbox, inHand, current, ran, posterVars>>

\* The status is set whatever it was.
SetRunning == /\ place = "entered"
              /\ status' = "RUNNING"
              /\ place' = "test"
              /\ UNCHANGED <<tid, stopped, runs, mailbox, inHand, current, ran,
                             posterVars>>

\* A paused loop looks at its status only, every HLOOP_PAUSE_TIME.
StatusTest == /\ place = "test"
              /\ \/ status = "STOP" /\ place' = "leave"
                 \/ status = "RUNNING" /\ place' = "poll"
              /\ UNCHANGED <<control, mailbox, inHand, current, ran, posterVars>>

\* The poll ends with bytes to read or by its timeout.
PollBytes == /\ place = "poll"
             /\ place' = IF bytes > 0 THEN "polled" ELSE "test"
             /\ UNCHANGED <<control, mailbox, inHand, current, ran, posterVars>>

\* A loop that is stopped by then leaves what the poll found for another run.
Read == /\ place = "polled"
        /\ \/ status = "STOP" /\ place' = "test" /\ UNCHANGED <<inHand, bytes>>
           \/ /\ status # "STOP" /\ place' = "take"
              /\ inHand' = bytes /\ bytes' = 0
        /\ UNCHANGED <<control, mutex, queue, posted, current, ran, posterVars>>

TakeEvent == /\ place = "take" /\ inHand > 0
             /\ mutex = Nobody
             /\ queue # <<>>
             /\ current' = Head(queue) /\ queue' = Tail(queue)
             /\ inHand' = inHand - 1
             /\ place' = "cb"
             /\ UNCHANGED <<control, mutex, bytes, posted, ran, posterVars>>

\* No byte is left, or none has an event.
TakeEnds == /\ place = "take"
            /\ inHand = 0 \/ (mutex = Nobody /\ queue = <<>>)
            /\ inHand' = 0
            /\ place' = "test"
            /\ UNCHANGED <<control, mailbox, current, ran, posterVars>>

\* The callback of a posted event may post and may stop the loop.
CallbackPosts == /\ place = "cb" /\ mutex = Nobody
                 /\ \E e \in Customs :
                       /\ Fresh(e)
                       /\ queue' = Append(queue, e)
                       /\ posted' = posted \union {e}
                 /\ bytes' = bytes + 1
                 /\ UNCHANGED <<control, mutex, loopVars, posterVars>>

CallbackStops == /\ place = "cb" /\ current \in Customs
                 /\ status' = "STOP"
                 /\ UNCHANGED <<tid, stopped, runs, mailbox, loopVars, posterVars>>

\* hloop_stop_event_cb is the callback of the events loop_stop posts.
CallbackReturns == /\ place = "cb"
                   /\ status' = IF current \in Posters THEN "STOP" ELSE status
                   /\ ran' = ran \union {current}
                   /\ current' = NoEvent
                   /\ place' = "take"
                   /\ UNCHANGED <<tid, stopped, runs, mailbox, inHand, posterVars>>

Leave == /\ place = "leave"
         /\ status' = "STOP"
         /\ place' = "ended"
         /\ UNCHANGED <<tid, stopped, runs, mailbox, inHand, current, ran, posterVars>>

LoopStep == SetRunning \/ StatusTest \/ PollBytes \/ Read \/ TakeEvent \/ TakeEnds
            \/ CallbackReturns \/ Leave

ControlNext == \/ Enter \/ LoopStep \/ CallbackPosts \/ CallbackStops
               \/ \E p \in Posters : Poster(p)

ControlSpec == ControlInit /\ [][ControlNext]_controlVars

\* The thread in loop_run and the threads inside a call go on; nobody has to
\* make a call.
ControlFairSpec == /\ ControlSpec /\ WF_controlVars(LoopStep)
                   /\ \A p \in Posters : WF_controlVars(InCall(p))

-----------------------------------------------------------------------------
ControlTypeOK == /\ status \in {"STOP", "RUNNING", "PAUSE"}
                 /\ tid \in Posters \union {Runner}
                 /\ mutex \in Posters \union {Nobody}
                 /\ bytes \in Nat /\ inHand \in Nat
                 /\ queue \in Seq(AllEvents)
                 /\ place \in {"new", "entered", "test", "poll", "polled", "take", "cb",
                               "leave", "ended"}
                 /\ current \in AllEvents \union {NoEvent}
                 /\ pc \in [Posters -> {"idle", "write", "push", "tid", "pause", "resume"}]
                 /\ carry \in [Posters -> AllEvents \union {NoEvent}]
                 /\ \A p \in Posters : mutex = p <=> pc[p] = "push"

\* Every event in custom_events has its byte, in the socket pair or in the hands
\* of sockpair_read_cb, and every byte its event: no event waits for a byte
\* that was spent on an earlier look at an empty queue.
ByteForEach == bytes + inHand = Len(queue) + Cardinality({p \in Posters : pc[p] = "push"})

\* What holds in every state: the types, and a byte for each event (loop.cpp).
ControlConsistent == ControlTypeOK /\ ByteForEach

\* Posted events run once each, one at a time, in the order in which they
\* entered custom_events, also when several threads and callbacks post.
WP == INSTANCE WorkPool WITH Workers <- {Runner}, Jobs <- AllEvents, NoJob <- NoEvent,
                             line <- queue, holds <- [w \in {Runner} |-> current],
                             done <- ran, accepted <- posted
ImplementsWorkPool == WP!WPSpec

\* A posted event runs if the loop runs on.
PostedRun == <>[](status = "RUNNING" /\ place \notin {"new", "ended"})
                 => \A e \in AllEvents : e \in posted ~> e \in ran

\* The stop of a thread that the loop does not take for its own ends the loop,
\* also when loop_run has yet to set the status to RUNNING; nobody pauses or
\* resumes the loop meanwhile.
StopEndsLoop == [](\A p \in Posters : pc[p] \notin {"pause", "resume"})
                   => \A p \in Posters : (pc[p] = "tid" /\ tid # p)
                                             ~> place \in {"new", "ended"}
=============================================================================
