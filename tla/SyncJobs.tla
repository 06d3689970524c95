------------------------------ MODULE SyncJobs ------------------------------
(***************************************************************************)
(* The synchronization of Subodha courses into the content aggregator:     *)
(* consumers/sync_job_consumer.py works off the jobs, services/            *)
(* subodha_service.py copies every course in a task of its own.            *)
(* SyncStreams adds the streams that report to whoever follows a job.      *)
(*                                                                         *)
(* A course at Subodha is its version, 0 when it is not there.  A stored *)
(* course is the version whose content_hash its root carries, the version  *)
(* of the nodes every version has, and the set of the versions that left   *)
(* nodes of their own.  upsert_tree writes the batch with the root first.  *)
(***************************************************************************)
EXTENDS Naturals, FiniteSets

CONSTANTS
    Courses,     \* the courses of one tenant
    Jobs,        \* documents of contentAggregatorSyncJobs
    Workers,     \* the processes with a consumer
    Nothing,     \* no job
    MaxRetries,  \* MAX_INTERRUPTED_RETRIES
    Scopes,      \* what is asked for: "all", "new" (all with only_new), courses
    Dry,         \* the jobs with dry_run
    MaxChanges,  \* bound: times a course is published, withdrawn or deleted
    MaxFaults    \* bound: errors and processes that end, in all

ASSUME SyncAssumption ==
    /\ IsFiniteSet(Courses)
    /\ Scopes \subseteq {"all", "new"} \cup Courses
    /\ Nothing \notin Jobs \cup Scopes
    /\ MaxRetries \in Nat /\ MaxChanges \in Nat /\ MaxFaults \in Nat

NoCourse == [root |-> 0, common |-> 0, own |-> {}]
Whole(v) == [root |-> v, common |-> v, own |-> {v}]

VARIABLES
    live,        \* the courses at Subodha
    tree,        \* contentAggregatorNodes
    asked,       \* requests between the check for active jobs and the insert
    status, scope, retries, counted,  \* the jobs; counted is finished_total
    items,       \* contentAggregatorSyncJobItems: how many of a job and course
    worker,      \* each consumer: at, job, what its reconciliation found
    tasks,       \* the tasks process_one that run
    faults,      \* bound: faults so far
    changes,     \* bound: courses changed so far
    torn,        \* history: courses whose upsert failed, died or met another
    stray,       \* history: jobs whose tasks outlived them
    touched,     \* history: jobs reconciled by mistake
    raced,       \* history: scopes two requests asked for at once
    orphans      \* history: jobs left running because both endings failed

catalogue == <<live, tree, torn, changes>>
job == <<status, scope, retries, counted, items>>
requests == <<asked, raced>>
marks == <<stray, touched, orphans>>
vars == <<catalogue, job, requests, worker, tasks, faults, marks>>

Terminal == {"completed", "failed"}
Active == {"pending", "running"}
Unseen == [j \in Jobs |-> 0]
Idle == [at |-> "poll", job |-> Nothing, seen |-> Unseen]
Places == {"poll", "list", "sync", "fail", "fail_again", "down", "purge",
           "requeue"}
Task == [worker : Workers, job : Jobs, course : Courses, version : Nat,
         at : {"fetch", "compare", "first", "rest", "prune", "report"}]

TypeOK ==
    /\ live \in [Courses -> Nat]
    /\ tree \in [Courses -> [root : Nat, common : Nat,
                               own : SUBSET (1..MaxChanges + 1)]]
    /\ status \in [Jobs -> {"absent"} \cup Active \cup Terminal]
    /\ scope \in [Jobs -> Scopes \cup {Nothing}]
    /\ retries \in [Jobs -> 0..MaxRetries + 1]
    /\ counted \in [Jobs -> Nat]
    /\ items \in [Jobs -> [Courses -> Nat]]
    /\ worker \in [Workers -> [at : Places, job : Jobs \cup {Nothing},
                               seen : [Jobs -> 0..MaxRetries + 1]]]
    /\ tasks \subseteq Task
    /\ asked \in [Scopes -> Nat] /\ raced \subseteq Scopes
    /\ faults \in 0..MaxFaults /\ changes \in 0..MaxChanges
    /\ torn \subseteq Courses
    /\ stray \subseteq Jobs /\ touched \subseteq Jobs /\ orphans \subseteq Jobs

Init ==
    /\ live = [c \in Courses |-> 1]
    /\ tree = [c \in Courses |-> NoCourse]
    /\ asked = [s \in Scopes |-> 0] /\ raced = {}
    /\ status = [j \in Jobs |-> "absent"]
    /\ scope = [j \in Jobs |-> Nothing]
    /\ retries = [j \in Jobs |-> 0] /\ counted = [j \in Jobs |-> 0]
    /\ items = [j \in Jobs |-> [c \in Courses |-> 0]]
    /\ worker = [w \in Workers |-> Idle]
    /\ tasks = {} /\ faults = 0 /\ changes = 0
    /\ torn = {} /\ stray = {} /\ touched = {} /\ orphans = {}

-----------------------------------------------------------------------------
(* Subodha and the endpoints. *)

Changes == changes < MaxChanges /\ changes' = changes + 1

(* A new version of the course, or the course again after it was away. *)
Publish(c) ==
    /\ Changes
    /\ live' = [live EXCEPT ![c] = changes' + 1]
    /\ UNCHANGED <<tree, torn, job, requests, worker, tasks, faults, marks>>

Withdraw(c) ==
    /\ Changes
    /\ live' = [live EXCEPT ![c] = 0]
    /\ UNCHANGED <<tree, torn, job, requests, worker, tasks, faults, marks>>

DeleteCourse(c) ==
    /\ Changes
    /\ tree[c] # NoCourse
    /\ tree' = [tree EXCEPT ![c] = NoCourse]
    /\ UNCHANGED <<live, torn, job, requests, worker, tasks, faults, marks>>

Unused == {j \in Jobs : status[j] = "absent"}

(* has_active_all_sync and has_active_course_sync: a sync of everything    *)
(* and one of a course do not exclude each other.                          *)
Same(s, t) == s = t \/ {s, t} \subseteq {"all", "new"}

ActiveSync(s) ==
    \E j \in Jobs : status[j] \in Active /\ Same(scope[j], s)

(* What a function counts, one by one. *)
Documents(f) == UNION {{x} \X (1..f[x]) : x \in DOMAIN f}

Asking(s) == \E t \in Scopes : Same(s, t) /\ asked[t] > 0

AskSync(s) ==
    /\ ~ActiveSync(s)
    /\ Cardinality(Documents(asked)) < Cardinality(Unused)
    /\ asked' = [asked EXCEPT ![s] = @ + 1]
    /\ raced' = IF Asking(s) THEN raced \cup {t \in Scopes : Same(s, t)}
                ELSE raced
    /\ UNCHANGED <<catalogue, job, worker, tasks, faults, marks>>

CreateJob(s) ==
    /\ asked[s] > 0
    /\ \E j \in Unused :
        /\ status' = [status EXCEPT ![j] = "pending"]
        /\ scope' = [scope EXCEPT ![j] = s]
    /\ asked' = [asked EXCEPT ![s] = @ - 1]
    /\ UNCHANGED <<catalogue, retries, counted, items, raced, worker,
                   tasks, faults, marks>>

-----------------------------------------------------------------------------
(* The consumer. *)

Happens == faults < MaxFaults /\ faults' = faults + 1

Job(w) == worker[w].job
TasksOf(w, j) == {t \in tasks : t.worker = w /\ t.job = j}
Held(j) == \E w \in Workers : worker[w].job = j
Goes(w, place) == worker' = [worker EXCEPT ![w].at = place]
Polls(w) == worker' = [worker EXCEPT ![w] = Idle]

ClaimFailedToo(w) == \* mutant: a failed job is taken up again
    /\ worker[w].at = "poll"
    /\ \E j \in Jobs :
        /\ status[j] \in {"pending", "failed"}
        /\ status' = [status EXCEPT ![j] = "running"]
        /\ worker' = [worker EXCEPT ![w].at = "list", ![w].job = j]
    /\ UNCHANGED <<catalogue, scope, retries, counted, items, requests,
                   tasks, faults, marks>>

Claim(w) ==
    /\ worker[w].at = "poll"
    /\ \E j \in Jobs :
        /\ status[j] = "pending"
        /\ status' = [status EXCEPT ![j] = "running"]
        /\ worker' = [worker EXCEPT ![w].at = "list", ![w].job = j]
    /\ UNCHANGED <<catalogue, scope, retries, counted, items, requests,
                   tasks, faults, marks>>

(* The courses of a job: all, those without a stored root, or just one,  *)
(* which has to be there.                                                  *)
Listed == {c \in Courses : live[c] > 0}
Wanted(j) ==
    CASE scope[j] = "all" -> Listed
      [] scope[j] = "new" -> {c \in Listed : tree[c].root = 0}
      [] OTHER -> Listed \cap {scope[j]}

List(w) ==
    /\ worker[w].at = "list"
    /\ \/ /\ scope[Job(w)] \in Courses => Wanted(Job(w)) # {}
          /\ tasks' = tasks \cup
                {[worker |-> w, job |-> Job(w), course |-> c, version |-> 0,
                  at |-> "fetch"] : c \in Wanted(Job(w))}
          /\ Goes(w, "sync")
       \/ /\ scope[Job(w)] \in Courses \ Listed
          /\ Goes(w, "fail") /\ UNCHANGED tasks
    /\ UNCHANGED <<catalogue, job, requests, faults, marks>>

(* get_session or list_all_courses fails. *)
SourceError(w) ==
    /\ worker[w].at = "list"
    /\ Happens
    /\ Goes(w, "fail")
    /\ UNCHANGED <<catalogue, job, requests, tasks, marks>>

Total(j) == Cardinality(Documents(items[j]))

(* finish_job: get_stats, then set_job_status whatever the status is. *)
FinishJob(w, s) ==
    /\ status' = [status EXCEPT ![Job(w)] = s]
    /\ counted' = [counted EXCEPT ![Job(w)] = Total(Job(w))]
    /\ UNCHANGED <<scope, retries, items>>

Complete(w) ==
    /\ worker[w].at = "sync" /\ TasksOf(w, Job(w)) = {}
    /\ FinishJob(w, "completed") /\ Polls(w)
    /\ UNCHANGED <<catalogue, requests, tasks, faults, marks>>

Fail(w) ==
    /\ worker[w].at \in {"fail", "fail_again"}
    /\ FinishJob(w, "failed") /\ Polls(w)
    /\ UNCHANGED <<catalogue, requests, tasks, faults, marks>>

(* The database fails in finish_job, its write done or not: the first time *)
(* _run_sync_job, the second time process finish the job as failed, then   *)
(* the error reaches run() and the job is left.                            *)
DatabaseError(w) ==
    /\ Happens
    /\ \/ worker[w].at = "sync" /\ TasksOf(w, Job(w)) = {}
       \/ worker[w].at \in {"fail", "fail_again"}
    /\ \/ FinishJob(w, IF worker[w].at = "sync" THEN "completed" ELSE "failed")
       \/ UNCHANGED job
    /\ IF worker[w].at = "fail_again"
       THEN Polls(w) /\ orphans' = orphans \cup {Job(w)}
       ELSE /\ Goes(w, IF worker[w].at = "sync" THEN "fail" ELSE "fail_again")
            /\ UNCHANGED orphans
    /\ UNCHANGED <<catalogue, requests, tasks, touched, stray>>

-----------------------------------------------------------------------------
(* process_one: one course in its task. *)

Becomes(t, place) == tasks' = (tasks \ {t}) \cup {[t EXCEPT !.at = place]}
TaskOnly == UNCHANGED <<job, requests, worker, faults, marks>>

Fetch(t) ==
    /\ t.at = "fetch"
    /\ IF live[t.course] = 0 \/ t.job \in Dry THEN Becomes(t, "report")
       ELSE tasks' = (tasks \ {t}) \cup
                {[t EXCEPT !.at = "compare", !.version = live[t.course]]}
    /\ UNCHANGED catalogue /\ TaskOnly

Compare(t) ==
    /\ t.at = "compare"
    /\ Becomes(t, IF tree[t.course].root = t.version THEN "report"
                  ELSE "first")
    /\ UNCHANGED catalogue /\ TaskOnly

UpsertedNoPrune(n, t) == \* mutant: the nodes of other versions stay
    CASE t.at = "first" -> [n EXCEPT !.root = t.version]
      [] t.at = "rest"  -> [n EXCEPT !.common = t.version,
                                     !.own = @ \cup {t.version}]
      [] t.at = "prune" -> n

(* upsert_tree on the nodes n of a course: the batch with the root, the    *)
(* other batches, delete_many.                                             *)
Upserted(n, t) ==
    CASE t.at = "first" -> [n EXCEPT !.root = t.version]
      [] t.at = "rest"  -> [n EXCEPT !.common = t.version,
                                     !.own = @ \cup {t.version}]
      [] t.at = "prune" -> [n EXCEPT !.own = @ \cap {t.version}]

UpsertStep(t) == tree' = [tree EXCEPT ![t.course] = Upserted(@, t)]

Writing(t) == t.at \in {"first", "rest", "prune"}
Meets(t) == \E u \in tasks \ {t} : u.course = t.course /\ Writing(u)
Following == [first |-> "rest", rest |-> "prune", prune |-> "report"]

UpsertTree(t) ==
    /\ Writing(t)
    /\ UpsertStep(t) /\ Becomes(t, Following[t.at])
    /\ torn' = IF Meets(t) THEN torn \cup {t.course}
               ELSE IF tree'[t.course] = Whole(t.version)
               THEN torn \ {t.course} ELSE torn
    /\ UNCHANGED <<live, changes>> /\ TaskOnly

(* Any exception in process_course becomes the result "failed".            *)
CourseFails(t) ==
    /\ t.at # "report"
    /\ Happens
    /\ \/ UNCHANGED tree
       \/ Writing(t) /\ UpsertStep(t)
    /\ torn' = IF Writing(t) THEN torn \cup {t.course} ELSE torn
    /\ Becomes(t, "report")
    /\ UNCHANGED <<live, changes, job, requests, worker, marks>>

RecordItem(t) == items' = [items EXCEPT ![t.job][t.course] = @ + 1]

Report(t) ==
    /\ t.at = "report"
    /\ RecordItem(t)
    /\ tasks' = tasks \ {t}
    /\ UNCHANGED <<catalogue, status, scope, retries, counted, requests,
                   worker, faults, marks>>

(* The item is not stored: gather raises, the other tasks run on. *)
ReportFails(t) ==
    /\ Happens
    /\ t.at = "report"
    /\ tasks' = tasks \ {t}
    /\ IF Job(t.worker) = t.job /\ worker[t.worker].at = "sync"
       THEN Goes(t.worker, "fail") ELSE UNCHANGED worker
    /\ stray' = IF TasksOf(t.worker, t.job) # {t} THEN stray \cup {t.job}
                ELSE stray
    /\ UNCHANGED <<catalogue, job, requests, touched, orphans>>

-----------------------------------------------------------------------------
(* A process ends; the next one reconciles before it polls. *)

Crash(w) ==
    /\ worker[w].at # "down"
    /\ Happens
    /\ worker' = [worker EXCEPT ![w] = [Idle EXCEPT !.at = "down"]]
    /\ tasks' = {t \in tasks : t.worker # w}
    /\ torn' = torn \cup {t.course : t \in {u \in tasks : u.worker = w
                                                          /\ Writing(u)}}
    /\ UNCHANGED <<live, tree, changes, job, requests, marks>>

FindInterruptedHere(w) == \* mutant: a job that was retried is not found
    /\ worker[w].at = "down"
    /\ worker' = [worker EXCEPT ![w] = [at |-> "purge", job |-> Nothing,
            seen |-> [j \in Jobs |-> IF status[j] = "running" /\ retries[j] = 0
                                     THEN 1 ELSE 0]]]
    /\ UNCHANGED <<catalogue, job, requests, tasks, faults, marks>>

(* reconcile_interrupted_jobs reads the running jobs ... *)
FindInterrupted(w) ==
    /\ worker[w].at = "down"
    /\ worker' = [worker EXCEPT ![w] = [at |-> "purge", job |-> Nothing,
            seen |-> [j \in Jobs |-> IF status[j] = "running"
                                     THEN retries[j] + 1 ELSE 0]]]
    /\ UNCHANGED <<catalogue, job, requests, tasks, faults, marks>>

Requeued(w) == {j \in Jobs : worker[w].seen[j] \in 1..MaxRetries}
GivenUp(w) == {j \in Jobs : worker[w].seen[j] > MaxRetries}

(* Jobs that are not, or not any more, what the reconciliation has read:   *)
(* a live process has them, or another one has put them back already.      *)
Mistaken(w) ==
    {j \in Requeued(w) \cup GivenUp(w) :
        Held(j) \/ status[j] # "running" \/ worker[w].seen[j] # retries[j] + 1}

PurgeNothing(w) == \* mutant: the items of the first try stay
    /\ worker[w].at = "purge"
    /\ touched' = touched \cup Mistaken(w)
    /\ Goes(w, "requeue")
    /\ UNCHANGED <<catalogue, job, requests, tasks, faults, stray, orphans>>

(* ... deletes the items of those that get another try ... *)
PurgeItems(w) ==
    /\ worker[w].at = "purge"
    /\ items' = [j \in Jobs |-> IF j \in Requeued(w)
                                THEN [c \in Courses |-> 0] ELSE items[j]]
    /\ touched' = touched \cup Mistaken(w)
    /\ Goes(w, "requeue")
    /\ UNCHANGED <<catalogue, status, scope, retries, counted, requests,
                   tasks, faults, stray, orphans>>

Reconciled(w) ==
    [j \in Jobs |-> IF j \in Requeued(w) THEN "pending"
                    ELSE IF j \in GivenUp(w) THEN "failed" ELSE status[j]]

(* ... and updates them by _id, whatever has become of them. *)
Requeue(w) ==
    /\ worker[w].at = "requeue"
    /\ status' = Reconciled(w)
    /\ retries' = [j \in Jobs |-> IF j \in Requeued(w) \cup GivenUp(w)
                                  THEN worker[w].seen[j] ELSE retries[j]]
    /\ touched' = touched \cup Mistaken(w)
    /\ orphans' = orphans \ (Requeued(w) \cup GivenUp(w))
    /\ Polls(w)
    /\ UNCHANGED <<catalogue, scope, counted, items, requests, tasks,
                   faults, stray>>

-----------------------------------------------------------------------------
Work(w) == Claim(w) \/ List(w) \/ Complete(w) \/ Fail(w)
Reconcile(w) == FindInterrupted(w) \/ PurgeItems(w) \/ Requeue(w)
Copy(t) == Fetch(t) \/ Compare(t) \/ UpsertTree(t) \/ Report(t)

Next ==
    \/ \E c \in Courses : Publish(c) \/ Withdraw(c) \/ DeleteCourse(c)
    \/ \E s \in Scopes : AskSync(s) \/ CreateJob(s)
    \/ \E w \in Workers : Work(w) \/ Reconcile(w)
    \/ \E t \in tasks : Copy(t)
    \/ \E t \in tasks : CourseFails(t) \/ ReportFails(t)
    \/ \E w \in Workers : 
        SourceError(w) \/ DatabaseError(w) \/ Crash(w)

Spec == Init /\ [][Next]_vars

-----------------------------------------------------------------------------
(* Properties. *)

(* A root carries the hash of a version only if every other node is of     *)
(* that version, while nobody is writing, unless the last upsert failed,   *)
(* died or met another: then the hash, written first, hides the gap.       *)
TreesWhole ==
    \A c \in Courses \ torn :
        (\A t \in tasks : t.course = c => ~Writing(t)) /\ tree[c].root > 0
            => tree[c] = Whole(tree[c].root)

(* However often a job is interrupted and run again, no course is counted  *)
(* twice in it, unless a starting process took it from a live one, from    *)
(* the tasks it left behind or from another that had just put it back.     *)
ItemsOnce ==
    \A j \in Jobs \ (touched \cup stray) : \A c \in Courses : items[j][c] <= 1

(* The total an ended job shows is the number of its items, unless tasks   *)
(* it left behind still report or its process died once too often.         *)
CountsAgree ==
    \A j \in Jobs \ (touched \cup stray) :
        status[j] \in Terminal /\ retries[j] <= MaxRetries =>
            counted[j] = Total(j)

(* No two syncs of the same scope are active, unless their requests both   *)
(* looked before either had inserted its job.                              *)
OneActiveSync ==
    \A i, j \in Jobs \ touched :
        (i # j /\ {status[i], status[j]} \subseteq Active
            /\ Same(scope[i], scope[j])) => scope[i] \in raced

(* Jobs and their items tell the same story, once per course, and no two   *)
(* jobs tell it of the same scope.                                         *)
Consistent == TypeOK /\ ItemsOnce /\ CountsAgree /\ OneActiveSync

StageOf(j) ==
    IF j \in touched \/ retries[j] > 0 THEN "reopened"
    ELSE CASE status[j] = "pending" -> "waiting"
           [] status[j] = "running" -> "taken"
           [] status[j] = "completed" -> "done"
           [] status[j] = "failed" -> "buried"
           [] OTHER -> "absent"

Lifecycle == INSTANCE JobLifecycle WITH stage <- [j \in Jobs |-> StageOf(j)]

(* Sync jobs keep the promise of JobLifecycle until a starting process     *)
(* puts them back.                                                         *)
KeepsLifecycle == Lifecycle!Spec
=============================================================================
