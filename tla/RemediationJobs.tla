--------------------------- MODULE RemediationJobs --------------------------
(***************************************************************************)
(* The remediation of uploaded textbooks: the consumer of                  *)
(* consumers/textbook_remediation_consumer.py under the retries of         *)
(* BaseConsumer, the review done through                                   *)
(* controllers/textbook_remediation_controller.py while it runs, and the   *)
(* reconciliation each process does when it starts.                        *)
(*                                                                         *)
(* A document is 0 (none), 1 (what the pipeline made) or 1 + n, made from  *)
(* the n-th draft.  A worker `at':                                         *)
(*   start     download, first update_progress    pipeline  the subprocess *)
(*   upload    render, upload, record_artifacts   translate if wanted      *)
(*   clear     update_progress(empty)             finish    READY_TO_REVIEW*)
(*   dead      finish(FAILED)                     dead_clear  its progress *)
(*   down      the process has ended and has still to restart              *)
(***************************************************************************)
EXTENDS Naturals, FiniteSets

CONSTANTS
    Jobs,         \* documents of textbookRemediationJobs
    Wanted,       \* the jobs created with a target_language
    Workers,      \* the consumers, one in each process
    Users,        \* requests of reviewers that can be served at a time
    Nothing,      \* no job
    MaxAttempts,  \* MAX_TRANSIENT_RETRIES
    Faults,       \* what may go wrong
    MaxDrafts,    \* bound: drafts saved in all
    MaxCrashes    \* bound: processes that end in all

FaultKinds == {"database", "error", "permanent", "translation", "request"}

ASSUME RemediationAssumption ==
    /\ Wanted \subseteq Jobs
    /\ Nothing \notin Jobs
    /\ MaxAttempts \in Nat \ {0}
    /\ Faults \subseteq FaultKinds
    /\ MaxDrafts \in Nat /\ MaxCrashes \in Nat

Statuses == {"absent", "pending", "running", "ready_to_review", "in_review",
             "verified", "failed"}
Terminal == {"ready_to_review", "verified", "failed"}   \* _TERMINAL
Processing == {"start", "pipeline", "upload", "translate", "clear", "finish"}
Places == Processing \cup {"poll", "dead", "dead_clear", "down"}
UserPlaces == {"idle", "draft", "compile", "mark", "translate", "unset"}

VARIABLES
    status, deleted, draft, docx,
    translated,   \* jobs with translated artifacts
    terror,       \* jobs with a translation_error
    progress,     \* jobs that show progress
    worker,       \* each consumer: at, job, attempt
    user,         \* each request: at, job, the draft it read or saves
    watched,      \* jobs somebody follows on /stream
    drafts,       \* bound: drafts saved so far
    crashes,      \* bound: processes ended so far
    touched,      \* history: jobs reviewed, or reconciled under a live worker
    raced,        \* history: jobs whose review ran into other work on them
    orphans       \* history: jobs a worker gave up without an end

doc == <<status, deleted, draft, docx, translated, terror, progress>>
history == <<touched, raced, orphans>>
bounds == <<drafts, crashes>>
vars == <<doc, worker, user, watched, bounds, history>>

IdleWorker == [at |-> "poll", job |-> Nothing, attempt |-> 0]
IdleUser == [at |-> "idle", job |-> Nothing, draft |-> 0]

TypeOK ==
    /\ status \in [Jobs -> Statuses]
    /\ draft \in [Jobs -> 0..MaxDrafts] /\ docx \in [Jobs -> 0..MaxDrafts + 1]
    /\ translated \subseteq Jobs /\ terror \subseteq Jobs
    /\ progress \subseteq Jobs /\ deleted \subseteq Jobs /\ watched \subseteq Jobs
    /\ worker \in [Workers -> [at : Places, job : Jobs \cup {Nothing},
                               attempt : 0..MaxAttempts]]
    /\ user \in [Users -> [at : UserPlaces, job : Jobs \cup {Nothing},
                           draft : 0..MaxDrafts]]
    /\ drafts \in 0..MaxDrafts /\ crashes \in 0..MaxCrashes
    /\ touched \subseteq Jobs /\ raced \subseteq Jobs /\ orphans \subseteq Jobs
    /\ \A w \in Workers :
         worker[w].at \notin {"poll", "down"} => worker[w].job \in Jobs
    /\ \A u \in Users : user[u].at # "idle" => user[u].job \in Jobs

Init ==
    /\ status = [j \in Jobs |-> "absent"]
    /\ draft = [j \in Jobs |-> 0] /\ docx = [j \in Jobs |-> 0]
    /\ translated = {} /\ terror = {} /\ progress = {}
    /\ deleted = {} /\ watched = {}
    /\ worker = [w \in Workers |-> IdleWorker]
    /\ user = [u \in Users |-> IdleUser]
    /\ drafts = 0 /\ crashes = 0
    /\ touched = {} /\ raced = {} /\ orphans = {}

-----------------------------------------------------------------------------
(* The repository: every update is by _id alone. *)

SetStatus(j, s) == status' = [status EXCEPT ![j] = s]
RecordDocx(j, from) == docx' = [docx EXCEPT ![j] = from]
ShowProgress(j)  == progress' = progress \cup {j}
ClearProgress(j) == progress' = progress \ {j}

Held(j) == \E w \in Workers : worker[w].job = j
Visible(j) == status[j] # "absent" /\ j \notin deleted   \* repo.get

-----------------------------------------------------------------------------
(* The consumer. *)

Job(w) == worker[w].job
Goes(w, place) == worker' = [worker EXCEPT ![w].at = place]
Polls(w) == worker' = [worker EXCEPT ![w] = IdleWorker]

ClaimFailedToo(w) == \* mutant: a failed job is taken up again
    /\ worker[w].at = "poll"
    /\ \E j \in Jobs \ deleted :
        /\ status[j] \in {"pending", "failed"}
        /\ SetStatus(j, "running")
        /\ worker' = [worker EXCEPT ![w] = [at |-> "start", job |-> j,
                                            attempt |-> 1]]
    /\ UNCHANGED <<deleted, draft, docx, translated, terror, progress, user,
                   watched, bounds, history>>

(* claim_next_pending: pending, not deleted. *)
Claim(w) ==
    /\ worker[w].at = "poll"
    /\ \E j \in Jobs \ deleted :
        /\ status[j] = "pending"
        /\ SetStatus(j, "running")
        /\ worker' = [worker EXCEPT ![w] = [at |-> "start", job |-> j,
                                            attempt |-> 1]]
    /\ UNCHANGED <<deleted, draft, docx, translated, terror, progress, user,
                   watched, bounds, history>>

(* _process_job, one write after another. *)
Write(w) ==
    LET j == Job(w) IN
    /\ CASE worker[w].at = "finish" -> SetStatus(j, "ready_to_review")
         [] worker[w].at = "dead"   -> SetStatus(j, "failed")
         [] OTHER -> UNCHANGED status
    /\ IF worker[w].at = "upload" THEN RecordDocx(j, 1) ELSE UNCHANGED docx
    /\ CASE worker[w].at \in {"start", "pipeline"} -> ShowProgress(j)
         [] worker[w].at \in {"clear", "dead_clear"} -> ClearProgress(j)
         [] OTHER -> UNCHANGED progress
    /\ UNCHANGED <<deleted, draft, translated, terror>>

After == [start |-> "pipeline", pipeline |-> "upload", upload |-> "translate",
          clear |-> "finish", dead |-> "dead_clear"]

Process(w) ==
    /\ worker[w].at \in DOMAIN After
    /\ Write(w)
    /\ Goes(w, After[worker[w].at])
    /\ UNCHANGED <<user, watched, bounds, history>>

(* _translate_if_requested: an error is recorded and the job goes on. *)
Translate(w) ==
    LET j == Job(w) IN
    /\ worker[w].at = "translate"
    /\ \/ /\ j \notin Wanted
          /\ UNCHANGED <<translated, terror>>
       \/ /\ j \in Wanted
          /\ translated' = translated \cup {j} /\ terror' = terror \ {j}
       \/ /\ j \in Wanted /\ "translation" \in Faults
          /\ terror' = terror \cup {j}
          /\ UNCHANGED translated
    /\ Goes(w, "clear")
    /\ UNCHANGED <<status, deleted, draft, docx, progress, user, watched,
                   bounds, history>>

Finish(w) ==
    /\ worker[w].at \in {"finish", "dead_clear"}
    /\ Write(w) /\ Polls(w)
    /\ UNCHANGED <<user, watched, bounds, history>>

(* An exception other than PermanentError, the last write done or not:     *)
(* _safe_process runs the whole process again, until the attempts are used *)
(* up.                                                                     *)
Retry(w) ==
    IF worker[w].attempt < MaxAttempts
    THEN worker' = [worker EXCEPT ![w].at = "start", ![w].attempt = @ + 1]
    ELSE Goes(w, "dead")

TransientError(w) ==
    /\ "error" \in Faults
    /\ worker[w].at \in Processing
    /\ Write(w) \/ UNCHANGED doc
    /\ Retry(w)
    /\ UNCHANGED <<user, watched, bounds, history>>

(* RuntimeError and the time limit become PermanentError: no more attempt. *)
PermanentError(w) ==
    /\ "permanent" \in Faults
    /\ worker[w].at \in Processing
    /\ Write(w) \/ UNCHANGED doc
    /\ Goes(w, "dead")
    /\ UNCHANGED <<user, watched, bounds, history>>

(* The database fails in _dead_letter: run() logs it, the job stays.       *)
DatabaseError(w) ==
    /\ "database" \in Faults
    /\ worker[w].at = "dead"
    /\ Write(w) \/ UNCHANGED doc
    /\ Polls(w)
    /\ orphans' = orphans \cup {Job(w)}
    /\ UNCHANGED <<user, watched, bounds, touched, raced>>

(* The process ends: nothing is written. *)
Crash(w) ==
    /\ crashes < MaxCrashes
    /\ worker[w].at # "down"
    /\ crashes' = crashes + 1
    /\ orphans' = orphans \cup ({Job(w)} \ {Nothing})
    /\ worker' = [worker EXCEPT ![w] = [IdleWorker EXCEPT !.at = "down"]]
    /\ UNCHANGED <<doc, user, watched, drafts, touched, raced>>

RestartPolls(w) == \* mutant: nothing is reconciled
    /\ worker[w].at = "down"
    /\ orphans' = {j \in orphans : Held(j)}
    /\ Polls(w)
    /\ UNCHANGED <<doc, user, watched, bounds, touched, raced>>

RestartFailsReviews(w) == \* mutant: whatever is not at an end fails
    /\ worker[w].at = "down"
    /\ status' = [j \in Jobs |-> IF status[j] \in {"running", "in_review"}
                                 THEN "failed" ELSE status[j]]
    /\ touched' = touched \cup {j \in Jobs : status[j] = "running" /\ Held(j)}
    /\ orphans' = {j \in orphans : Held(j)}
    /\ Polls(w)
    /\ UNCHANGED <<deleted, draft, docx, translated, terror, progress, user,
                   watched, bounds, raced>>

(* reconcile_interrupted_jobs at the start of a process: every running job *)
(* fails, the jobs of other processes too.                                 *)
Restart(w) ==
    /\ worker[w].at = "down"
    /\ status' = [j \in Jobs |-> IF status[j] = "running" THEN "failed"
                                 ELSE status[j]]
    /\ touched' = touched \cup {j \in Jobs : status[j] = "running" /\ Held(j)}
    /\ orphans' = {j \in orphans : Held(j)}
    /\ Polls(w)
    /\ UNCHANGED <<deleted, draft, docx, translated, terror, progress, user,
                   watched, bounds, raced>>

-----------------------------------------------------------------------------
(* The endpoints. *)

(* The job is inserted when its PDF is in the blob storage. *)
InsertJob(j) == SetStatus(j, "pending")

(* POST /jobs *)
CreateJob(j) ==
    /\ status[j] = "absent"
    /\ InsertJob(j)
    /\ UNCHANGED <<deleted, draft, docx, translated, terror, progress, worker,
                   user, watched, bounds, history>>

SoftDelete(j) ==
    /\ Visible(j)
    /\ deleted' = deleted \cup {j}
    /\ UNCHANGED <<status, draft, docx, translated, terror, progress, worker,
                   user, watched, bounds, history>>

Serves(u, place, j, n) ==
    /\ user[u].at = "idle" /\ Visible(j)
    /\ user' = [user EXCEPT ![u] = [at |-> place, job |-> j, draft |-> n]]
Answers(u) == user' = [user EXCEPT ![u] = IdleUser]
UserIn(u, place) == user[u].at = place

(* A review of j runs into a worker on j or into another review of j. *)
Races(u, j) == \/ Held(j)
               \/ \E v \in Users \ {u} : user[v].job = j /\ user[v].at # "idle"
Reviews(u, j) ==
    /\ touched' = touched \cup {j}
    /\ raced' = IF Races(u, j) THEN raced \cup {j} ELSE raced
    /\ UNCHANGED orphans

(* PUT /draft: the job is read and the draft uploaded to its blob. *)
SaveDraft(u, j) ==
    /\ drafts < MaxDrafts
    /\ drafts' = drafts + 1
    /\ Serves(u, "draft", j, drafts')
    /\ Reviews(u, j)
    /\ UNCHANGED <<doc, worker, watched, crashes>>

(* update_draft: whatever the status is now, it becomes in_review. *)
UpdateDraft(u) ==
    LET j == user[u].job IN
    /\ UserIn(u, "draft")
    /\ draft' = [draft EXCEPT ![j] = user[u].draft]
    /\ SetStatus(j, "in_review")
    /\ Answers(u) /\ Reviews(u, j)
    /\ UNCHANGED <<deleted, docx, translated, terror, progress, worker,
                   watched, bounds>>

(* POST /verify compiles the draft of the job it has read, if it has one. *)
VerifyJob(u, j) ==
    /\ Serves(u, IF draft[j] > 0 THEN "compile" ELSE "mark", j, draft[j])
    /\ Reviews(u, j)
    /\ UNCHANGED <<doc, worker, watched, bounds>>

RecordVerified(u) ==
    LET j == user[u].job IN
    /\ UserIn(u, "compile")
    /\ RecordDocx(j, 1 + user[u].draft)
    /\ user' = [user EXCEPT ![u].at = "mark"]
    /\ Reviews(u, j)
    /\ UNCHANGED <<status, deleted, draft, translated, terror, progress, worker,
                   watched, bounds>>

(* mark_verified: whatever the status is now. *)
MarkVerified(u) ==
    LET j == user[u].job IN
    /\ UserIn(u, "mark")
    /\ SetStatus(j, "verified")
    /\ Answers(u) /\ Reviews(u, j)
    /\ UNCHANGED <<deleted, draft, docx, translated, terror, progress, worker,
                   watched, bounds>>

(* POST /translate needs the remediated text; its error is recorded. *)
TranslateJob(u, j) ==
    /\ docx[j] > 0
    /\ Serves(u, "translate", j, 0)
    /\ UNCHANGED <<doc, worker, watched, bounds, history>>

RecordTranslation(u) ==
    LET j == user[u].job IN
    /\ UserIn(u, "translate")
    /\ \/ /\ translated' = translated \cup {j}
          /\ user' = [user EXCEPT ![u].at = "unset"]
          /\ UNCHANGED terror
       \/ /\ "translation" \in Faults
          /\ terror' = terror \cup {j}
          /\ Answers(u)
          /\ UNCHANGED translated
    /\ UNCHANGED <<status, deleted, draft, docx, progress, worker, watched,
                   bounds, history>>

UnsetError(u) ==
    /\ UserIn(u, "unset")
    /\ terror' = terror \ {user[u].job}
    /\ Answers(u)
    /\ UNCHANGED <<status, deleted, draft, docx, translated, progress, worker,
                   watched, bounds, history>>

(* The request ends with an error between two of its steps. *)
RequestFails(u) ==
    /\ "request" \in Faults
    /\ user[u].at # "idle"
    /\ Answers(u)
    /\ UNCHANGED <<doc, worker, watched, bounds, history>>

(* GET /stream, and each look it takes until the job is over or deleted. *)
Subscribe(j) ==
    /\ Visible(j) /\ j \notin watched
    /\ watched' = watched \cup {j}
    /\ UNCHANGED <<doc, worker, user, bounds, history>>

LookForVerified(j) == \* mutant: ready_to_review is no end
    /\ j \in watched
    /\ status[j] \in {"verified", "failed"} \/ ~Visible(j)
    /\ watched' = watched \ {j}
    /\ UNCHANGED <<doc, worker, user, bounds, history>>

Look(j) ==
    /\ j \in watched
    /\ status[j] \in Terminal \/ ~Visible(j)
    /\ watched' = watched \ {j}
    /\ UNCHANGED <<doc, worker, user, bounds, history>>

-----------------------------------------------------------------------------
Work(w) == Claim(w) \/ Process(w) \/ Translate(w) \/ Finish(w)

Review(u) ==
    \/ \E j \in Jobs : SaveDraft(u, j)
    \/ \E j \in Jobs : VerifyJob(u, j)
    \/ \E j \in Jobs : TranslateJob(u, j)
    \/ UpdateDraft(u) \/ RecordVerified(u) \/ MarkVerified(u)
    \/ RecordTranslation(u) \/ UnsetError(u) \/ RequestFails(u)

Next ==
    \/ \E j \in Jobs : CreateJob(j) \/ SoftDelete(j) \/ Subscribe(j) \/ Look(j)
    \/ \E u \in Users : Review(u)
    \/ \E w \in Workers : Work(w) \/ Restart(w)
    \/ \E w \in Workers :
        TransientError(w) \/ PermanentError(w) \/ DatabaseError(w) \/ Crash(w)

Spec == Init /\ [][Next]_vars

(* The loop goes on, a process that ended is started again, a stream looks *)
(* every second.                                                           *)
Fairness == /\ \A w \in Workers : WF_vars(Work(w)) /\ WF_vars(Restart(w))
            /\ \A j \in Jobs : WF_vars(Look(j))

FairSpec == Spec /\ Fairness

-----------------------------------------------------------------------------
(* Properties. *)

(* The document of a verified job is the one compiled from its draft,      *)
(* unless the review ran into a worker or another review of the same job:  *)
(* every update is by _id and none looks at the status.                    *)
VerifiedIsDraft ==
    \A j \in Jobs \ raced :
        status[j] = "verified" /\ draft[j] > 0 => docx[j] = draft[j] + 1

(* What a reviewer set, no process takes back once no worker is on the job.*)
ReviewKept ==
    [][\A j \in Jobs :
        (status[j] \in {"in_review", "verified"} /\ ~Held(j)) =>
            status'[j] \in {"in_review", "verified"}]_vars

(* A job that says running has a worker, or lost it to a fault and no      *)
(* process has started since.                                              *)
RunningIsHeld ==
    \A j \in Jobs : status[j] = "running" => Held(j) \/ j \in orphans

(* A job whose translation was asked for is ready to review only with the  *)
(* translation or with the reason why there is none, however often it was  *)
(* tried and whoever works on it.                                          *)
TranslatedOrExplained ==
    \A j \in Wanted :
        status[j] = "ready_to_review" => j \in translated \cup terror

(* A job that waits is processed to an end, or somebody interfered with it.*)
JobsEnd ==
    \A j \in Jobs : status[j] = "pending" ~>
        (status[j] \in Terminal \/ j \in deleted \cup touched \cup orphans)

(* A stream ends once its job is over, unless a review puts the job back   *)
(* into review between two looks of the stream.                            *)
StreamsEnd ==
    \A j \in Jobs : (j \in watched /\ status[j] \in Terminal) ~>
        (j \notin watched \/ j \in touched)

(* What says that it is under way has somebody who works on it, and what   *)
(* is handed over or verified is complete.                                 *)
Consistent ==
    TypeOK /\ RunningIsHeld /\ TranslatedOrExplained /\ VerifiedIsDraft

(* Nobody waits in vain, for the job or at its stream.                     *)
Ends == JobsEnd /\ StreamsEnd

StageOf(j) ==
    IF j \in touched THEN "reopened"
    ELSE CASE status[j] = "pending" -> "waiting"
           [] status[j] = "running" -> "taken"
           [] status[j] = "ready_to_review" -> "done"
           [] status[j] = "failed" -> "buried"
           [] OTHER -> "absent"

Lifecycle == INSTANCE JobLifecycle WITH stage <- [j \in Jobs |-> StageOf(j)]

(* Remediation jobs keep the promise of JobLifecycle until a reviewer or   *)
(* the restart of another process interferes.                              *)
KeepsLifecycle == Lifecycle!Spec
=============================================================================
