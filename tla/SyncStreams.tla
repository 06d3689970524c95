---------------------------- MODULE SyncStreams -----------------------------
(***************************************************************************)
(* SyncJobs with the streams of /sync/stream, on which somebody follows a  *)
(* job to its end (subscribe, services/content_aggregator_sync_jobs.py),   *)
(* and with the fairness under which jobs and streams end.                 *)
(***************************************************************************)
EXTENDS SyncJobs

CONSTANT Followed   \* the jobs somebody follows

VARIABLE follow     \* the streams that are open

svars == <<vars, follow>>

(* subscribe, and each look it takes, woken by notify or by its timeout. *)
Subscribe(j) ==
    /\ j \in Followed \ follow /\ status[j] \in Active
    /\ follow' = follow \cup {j}
    /\ UNCHANGED vars

Look(j) ==
    /\ j \in follow /\ status[j] \in Terminal
    /\ follow' = follow \ {j}
    /\ UNCHANGED vars

StreamInit == Init /\ follow = {}

StreamNext ==
    \/ Next /\ UNCHANGED follow
    \/ \E j \in Jobs : Subscribe(j) \/ Look(j)

(* The loop and its tasks go on, a process that ended is started again, a  *)
(* stream looks once a second.                                             *)
Fairness ==
    /\ \A w \in Workers :
         WF_svars(Work(w) /\ UNCHANGED follow) /\ WF_svars(Reconcile(w) /\ UNCHANGED follow)
    /\ \A w \in Workers, j \in Jobs, c \in Courses :
         WF_svars((\E t \in TasksOf(w, j) : t.course = c /\ Copy(t)) /\ UNCHANGED follow)
    /\ \A j \in Jobs : WF_svars(Look(j))

FairSpec == StreamInit /\ [][StreamNext]_svars /\ Fairness

(* Every job ends, faults or not, and whoever follows it is told: what a   *)
(* dead process had is taken up again, unless the database failed in all   *)
(* three attempts to end the job or a starting process took it by mistake. *)
JobsEnd ==
    \A j \in Jobs : status[j] \in Active ~>
        ((status[j] \in Terminal /\ j \notin follow) \/ j \in orphans \cup touched)
=============================================================================
