-------------------------------- MODULE Resync -------------------------------
(***************************************************************************)
(* The promise behind resync_requested, resync_completed and               *)
(* resync_outstanding_since (src/collector/reconciler/mod.rs), which is    *)
(* all that the health check sees of the reconciler: requests are counted, *)
(* a pass serves those counted when it started, and the time kept is since *)
(* when one has been outstanding.  Reconciler implements it.               *)
(***************************************************************************)
EXTENDS Naturals

VARIABLES
    requested, completed,   \* the counters
    since,                  \* resync_outstanding_since, 0 for none
    target,                 \* what the pass under way will complete, 0 for none
    pass_start,
    clock

rvars == <<requested, completed, since, target, pass_start, clock>>

\* A new reconciler requests its first resync.
RInit ==
    /\ requested = 1 /\ completed = 0 /\ since = 1
    /\ target = 0 /\ pass_start = 0
    /\ clock = 1

\* The clock is read just before the lock is taken: one step.
Requests ==
    /\ requested' = requested + 1
    /\ since' = IF requested = completed THEN clock ELSE since
    /\ UNCHANGED completed

Request == Requests /\ UNCHANGED <<target, pass_start, clock>>

BeginPass ==
    /\ target = 0 /\ requested > completed
    /\ target' = requested /\ pass_start' = clock
    /\ UNCHANGED <<requested, completed, since, clock>>

\* Slip: what is left is taken to be outstanding from now on.
FinishPassNow ==
    /\ target # 0
    /\ completed' = IF target > completed THEN target ELSE completed
    /\ since' = IF requested = completed' THEN 0 ELSE clock
    /\ target' = 0 /\ pass_start' = 0
    /\ UNCHANGED <<requested, clock>>

\* Requests raised during the pass stay outstanding, since its start.
FinishPass ==
    /\ target # 0
    /\ completed' = IF target > completed THEN target ELSE completed
    /\ since' = IF requested = completed' THEN 0 ELSE pass_start
    /\ target' = 0 /\ pass_start' = 0
    /\ UNCHANGED <<requested, clock>>

\* A list fails, a shutdown drops the pass, or it panics, which requests another.
AbandonPass ==
    /\ target # 0
    /\ target' = 0 /\ pass_start' = 0
    /\ \/ UNCHANGED <<requested, completed, since>>
       \/ Requests
    /\ UNCHANGED clock

RTick == clock' = clock + 1 /\ UNCHANGED <<requested, completed, since, target, pass_start>>

RNext == Request \/ BeginPass \/ FinishPass \/ AbandonPass \/ RTick

RSpec == RInit /\ [][RNext]_rvars

=============================================================================
