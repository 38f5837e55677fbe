--------------------------- MODULE ThPoolNeighbour ---------------------------
(***************************************************************************)
(* A pool of ThPool in a process where a second pool lives.  The two share *)
(* nothing but the globals threads_keepalive and threads_on_hold, so the   *)
(* second pool, whose own workers are of no interest here, is reduced to   *)
(* what its thpool_init and thpool_destroy do to these.                    *)
(***************************************************************************)
EXTENDS ThPool

VARIABLE neighbour  \* the second pool: none, live or gone

nbVars == <<vars, neighbour>>

NbInit == Init /\ neighbour = "none"

\* thpool_init of the second pool
NeighbourInit == /\ neighbour = "none"
                 /\ neighbour' = "live"
                 /\ keepalive' = TRUE /\ onHold' = FALSE
                 /\ UNCHANGED <<phase, queue, bsem, counts, locks, workers,
                                clients, signals, history>>

\* thpool_destroy of the second pool
NeighbourDestroy == /\ neighbour = "live"
                    /\ neighbour' = "gone"
                    /\ keepalive' = FALSE
                    /\ UNCHANGED <<onHold, phase, queue, bsem, counts, locks,
                                   workers, clients, signals, history>>

NbNext == \/ Next /\ UNCHANGED neighbour
          \/ NeighbourInit
          \/ NeighbourDestroy

NbSpec == NbInit /\ [][NbNext]_nbVars

NbFairSpec == NbSpec /\ Fairness

\* thpool.h, thpool_destroy, destroys one of two pools and goes on with the
\* other; thpool.h, thpool_wait: "Will wait for all jobs - both queued and
\* currently running to finish."  So an accepted job runs whatever becomes of
\* the other pool.
NeighbourJobsComplete == JobsComplete
=============================================================================
