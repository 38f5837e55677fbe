------------------------------ MODULE WorkPool ------------------------------
(***************************************************************************)
(* What a pool of worker threads promises to the threads that hand jobs to *)
(* it, with no lock, semaphore or counter in sight: every job is accepted  *)
(* once, waits its turn in a first-in first-out line, is held by exactly   *)
(* one worker while its function runs, and is then done.  Jobs that are    *)
(* still in line when the pool is closed may be dropped.  ThPool is shown  *)
(* to implement this module, and so is LoopControl, with the thread of an  *)
(* event loop as the only worker and posted events as the jobs.            *)
(***************************************************************************)
EXTENDS Sequences

CONSTANTS Workers,  \* the threads of the pool
          Jobs,     \* the jobs that are ever handed to it
          NoJob     \* what a worker that runs no job holds

VARIABLES line,     \* the accepted jobs that no worker has taken yet
          holds,    \* the job each worker is running, or NoJob
          done,     \* the jobs whose function has returned
          accepted  \* the jobs the pool has taken responsibility for

wpVars == <<line, holds, done, accepted>>

WPInit == /\ line = <<>>
          /\ holds = [w \in Workers |-> NoJob]
          /\ done = {}
          /\ accepted = {}

Accept(j) == /\ j \notin accepted
             /\ accepted' = accepted \union {j}
             /\ line' = Append(line, j)
             /\ UNCHANGED <<holds, done>>

\* Only the oldest job in line can be taken, and only by an idle worker.
Take(w) == /\ line # <<>>
           /\ holds[w] = NoJob
           /\ holds' = [holds EXCEPT ![w] = Head(line)]
           /\ line' = Tail(line)
           /\ UNCHANGED <<done, accepted>>

Finish(w) == /\ holds[w] # NoJob
             /\ done' = done \union {holds[w]}
             /\ holds' = [holds EXCEPT ![w] = NoJob]
             /\ UNCHANGED <<line, accepted>>

\* The pool may be closed only when no worker is in the middle of a job.
Close == /\ \A w \in Workers : holds[w] = NoJob
         /\ line' = <<>>
         /\ UNCHANGED <<holds, done, accepted>>

WPNext == \/ \E j \in Jobs : Accept(j)
          \/ \E w \in Workers : Take(w) \/ Finish(w)
          \/ Close

WPSpec == WPInit /\ [][WPNext]_wpVars
=============================================================================
