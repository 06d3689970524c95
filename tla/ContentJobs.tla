---------------------------- MODULE ContentJobs -----------------------------
(***************************************************************************)
(* The processing of uploaded contents: the endpoints of                   *)
(* controllers/content_controller.py that store a document and then put a  *)
(* job into content_jobs, and the consumers of                             *)
(* consumers/content_job_consumer.py, one in each process, that claim the  *)
(* jobs and turn the uploaded mp3 into wav and the title into speech.      *)
(*                                                                         *)
(* A document is the number of its last upload and of its last title; the  *)
(* database does one operation at a time.  `at' says what a worker does    *)
(* next, and so which write is under way when it is interrupted:           *)
(*   poll      waits for a job           claimed   mark_running            *)
(*   load      find_raw_by_id            audio     download, ffmpeg, upload*)
(*   title     text-to-speech, upload    save      save_processed          *)
(*   complete  mark_completed            fail      mark_failed             *)
(*   fail_late mark_failed for a TimeoutError, which is then raised into   *)
(*             the loop                  lapse     mark_failed in the loop *)
(***************************************************************************)
EXTENDS Naturals, FiniteSets

CONSTANTS
    Contents,    \* documents of contentsV3
    Quizzes,     \* documents of quizData
    PullModel,   \* the contents with is_pull_model: their title is spoken
    Jobs,        \* documents of content_jobs
    Workers,     \* the consumers, one in each process
    Nothing,     \* no job, no document
    MaxRetries,  \* MAX_RETRIES
    Faults,      \* what may go wrong
    MaxEdits,    \* bound: uploads and titles of each content
    MaxReplays   \* bound: jobs an operator replays or skips

FaultKinds == {"crash", "database", "network", "corrupt", "slow"}

ASSUME ContentAssumption ==
    /\ PullModel \subseteq Contents
    /\ Contents \cap Quizzes = {}
    /\ Nothing \notin Contents \cup Quizzes \cup Jobs
    /\ MaxRetries \in Nat \ {0}
    /\ Faults \subseteq FaultKinds
    /\ MaxEdits \in Nat
    /\ MaxReplays \in Nat

Documents == Contents \cup Quizzes

Statuses == {"absent", "pending", "claimed", "running", "completed", "failed",
             "skipped"}
Places == {"poll", "claimed", "load", "audio", "title", "save", "complete",
           "fail", "fail_late", "lapse"}
Burying == {"fail", "fail_late", "lapse"}

Doc == [audio : Nat, wav : BOOLEAN, title : Nat, processed : BOOLEAN]
NewDoc == [audio |-> 1, wav |-> FALSE, title |-> 1, processed |-> FALSE]

VARIABLES
    stored,      \* the documents that exist
    doc,         \* contentsV3
    spoken,      \* the title in the blob experience-titles/{content_id}/1.0.mp3
    due,         \* documents whose request has still to put its job in
    status,      \* content_jobs: status
    target,      \* content_jobs: content_id
    worker,      \* each consumer: where it is, its job, attempt and copy
    uploads,     \* history: how many times audio was uploaded
    titles,      \* history: how many titles were written
    dropped,     \* history: documents whose request died before its job
    raced,       \* history: contents edited while a worker had a copy
    replayed,    \* history: jobs an operator replayed
    orphans      \* history: jobs whose worker went away

vars == <<stored, doc, spoken, due, status, target, worker, uploads, titles,
          dropped, raced, replayed, orphans>>
edits == <<uploads, titles, raced>>
documents == <<stored, doc, spoken, due, dropped, edits>>

Idle == [at |-> "poll", job |-> Nothing, attempt |-> 0, copy |-> NewDoc]

TypeOK ==
    /\ stored \subseteq Documents /\ due \subseteq stored
    /\ doc \in [Contents -> Doc]
    /\ spoken \in [Contents -> Nat]
    /\ status \in [Jobs -> Statuses]
    /\ target \in [Jobs -> Documents \cup {Nothing}]
    /\ worker \in [Workers -> [at : Places, job : Jobs \cup {Nothing},
                               attempt : 0..MaxRetries, copy : Doc]]
    /\ uploads \in [Contents -> Nat] /\ titles \in [Contents -> Nat]
    /\ dropped \subseteq Documents /\ raced \subseteq Contents
    /\ replayed \subseteq Jobs /\ orphans \subseteq Jobs
    /\ \A w \in Workers : worker[w].at # "poll" => worker[w].job \in Jobs
    /\ \A j \in Jobs : status[j] # "absent" => target[j] \in stored

Init ==
    /\ stored = {} /\ due = {} /\ dropped = {} /\ raced = {}
    /\ replayed = {} /\ orphans = {}
    /\ doc = [c \in Contents |-> NewDoc]
    /\ spoken = [c \in Contents |-> 0]
    /\ status = [j \in Jobs |-> "absent"]
    /\ target = [j \in Jobs |-> Nothing]
    /\ worker = [w \in Workers |-> Idle]
    /\ uploads = [c \in Contents |-> 1]
    /\ titles = [c \in Contents |-> 1]

-----------------------------------------------------------------------------
(* The endpoints. *)

Unused == {j \in Jobs : status[j] = "absent"}
Room == Cardinality(due) < Cardinality(Unused)

(* POST /content: the document is stored; its job is a second write. *)
CreateContent(c) ==
    /\ c \notin stored /\ Room
    /\ stored' = stored \cup {c}
    /\ due' = due \cup {c}
    /\ UNCHANGED <<doc, spoken, status, target, worker, edits, dropped,
                   replayed, orphans>>

(* POST /content/quiz does the same for a quiz. *)
CreateQuiz(q) ==
    /\ q \notin stored /\ Room
    /\ stored' = stored \cup {q}
    /\ due' = due \cup {q}
    /\ UNCHANGED <<doc, spoken, status, target, worker, edits, dropped,
                   replayed, orphans>>

(* A worker that has read c and not yet written it back. *)
Holds(w, c) == /\ worker[w].at \in {"audio", "title", "save"}
               /\ target[worker[w].job] = c

Raced(c) == IF \E w \in Workers : Holds(w, c) THEN raced \cup {c} ELSE raced

Editable(c) == /\ c \in stored \ due
               /\ uploads[c] + titles[c] < MaxEdits + 2

NewAudio(c, n) ==
    [doc EXCEPT ![c].audio = n, ![c].wav = FALSE, ![c].processed = FALSE]

(* PATCH /content/{id}?is_audio_uploaded=true: a new mp3 and another job. *)
UploadAudio(c) ==
    /\ Editable(c) /\ Room
    /\ uploads' = [uploads EXCEPT ![c] = @ + 1]
    /\ doc' = NewAudio(c, uploads'[c])
    /\ due' = due \cup {c}
    /\ raced' = Raced(c)
    /\ UNCHANGED <<stored, spoken, status, target, worker, titles, dropped,
                   replayed, orphans>>

(* PATCH /content/{id} without audio: the title changes, no job is made. *)
EditTitle(c) ==
    /\ Editable(c)
    /\ titles' = [titles EXCEPT ![c] = @ + 1]
    /\ doc' = [doc EXCEPT ![c].title = titles'[c]]
    /\ raced' = Raced(c)
    /\ UNCHANGED <<stored, spoken, due, status, target, worker, uploads,
                   dropped, replayed, orphans>>

(* ContentJobRepository.create, the second write of the request. *)
Enqueue(d) ==
    /\ d \in due
    /\ \E j \in Unused :
        /\ status' = [status EXCEPT ![j] = "pending"]
        /\ target' = [target EXCEPT ![j] = d]
    /\ due' = due \ {d}
    /\ UNCHANGED <<stored, doc, spoken, worker, edits, dropped, replayed,
                   orphans>>

(* The request dies between its two writes. *)
DropRequest(d) ==
    /\ {"crash", "database"} \cap Faults # {}
    /\ d \in due
    /\ due' = due \ {d}
    /\ dropped' = dropped \cup {d}
    /\ UNCHANGED <<stored, doc, spoken, status, target, worker, edits,
                   replayed, orphans>>

(* The recovery the runbook gives an operator. *)
Operate(j, to) ==
    /\ status[j] = "failed"
    /\ j \notin replayed /\ Cardinality(replayed) < MaxReplays
    /\ status' = [status EXCEPT ![j] = to]
    /\ replayed' = replayed \cup {j}
    /\ UNCHANGED <<documents, target, worker, orphans>>

-----------------------------------------------------------------------------
(* A worker and its job. *)

Job(w) == worker[w].job
Target(w) == target[Job(w)]
Attempt(w) == worker[w].attempt

MarkRunning(j)   == [status EXCEPT ![j] = "running"]
MarkCompleted(j) == [status EXCEPT ![j] = "completed"]
MarkFailedDone(j) == \* mutant: what failed counts as completed
    [status EXCEPT ![j] = "completed"]
MarkFailedAgain(j) == \* mutant: a failed job goes back into the queue
    [status EXCEPT ![j] = "pending"]
MarkFailed(j)    == [status EXCEPT ![j] = "failed"]

SaveEnqueued(w) == \* mutant: the title of the time of the upload is saved
    [doc EXCEPT ![Target(w)].audio = worker[w].copy.audio,
                ![Target(w)].wav = worker[w].copy.wav,
                ![Target(w)].title = 1,
                ![Target(w)].processed = TRUE]

(* $set of the copy: the audio and the title as they were read. *)
SaveProcessed(w) ==
    [doc EXCEPT ![Target(w)].audio = worker[w].copy.audio,
                ![Target(w)].wav = worker[w].copy.wav,
                ![Target(w)].title = worker[w].copy.title,
                ![Target(w)].processed = TRUE]

(* The title goes to the same blob each time. *)
ProcessTts(w) == [spoken EXCEPT ![Target(w)] = worker[w].copy.title]

(* The database or blob write of the place where the worker is. *)
Write(w) ==
    /\ status' = CASE worker[w].at = "claimed" -> MarkRunning(Job(w))
                   [] worker[w].at = "complete" -> MarkCompleted(Job(w))
                   [] worker[w].at \in Burying -> MarkFailed(Job(w))
                   [] OTHER -> status
    /\ doc' = IF worker[w].at = "save" THEN SaveProcessed(w) ELSE doc
    /\ spoken' = IF worker[w].at = "title" THEN ProcessTts(w) ELSE spoken
    /\ UNCHANGED <<stored, due, dropped, edits, target, replayed>>

Goes(w, place) ==
    worker' = [worker EXCEPT ![w] = [Idle EXCEPT !.at = place, !.job = Job(w)]]
Polls(w) == worker' = [worker EXCEPT ![w] = Idle]

ClaimLater(w) == \* mutant: the status is set by mark_running only
    /\ worker[w].at = "poll"
    /\ \E j \in Jobs :
        /\ status[j] = "pending"
        /\ worker' = [worker EXCEPT ![w] = [Idle EXCEPT !.at = "claimed",
                                                        !.job = j]]
    /\ UNCHANGED <<documents, status, target, replayed, orphans>>

(* claim_next_pending: find_one_and_update, any pending job. *)
Claim(w) ==
    /\ worker[w].at = "poll"
    /\ \E j \in Jobs :
        /\ status[j] = "pending"
        /\ status' = [status EXCEPT ![j] = "claimed"]
        /\ worker' = [worker EXCEPT ![w] = [Idle EXCEPT !.at = "claimed",
                                                        !.job = j]]
    /\ UNCHANGED <<documents, target, replayed, orphans>>

Start(w) ==
    /\ worker[w].at = "claimed"
    /\ Write(w)
    /\ worker' = [worker EXCEPT ![w].at = "load", ![w].attempt = 1]
    /\ UNCHANGED orphans

(* find_raw_by_id looks in contentsV3 only; is_deleted makes no difference. *)
Load(w) ==
    /\ worker[w].at = "load"
    /\ Write(w)
    /\ IF Target(w) \in Contents
       THEN worker' = [worker EXCEPT ![w].at = "audio",
                                     ![w].copy = doc[Target(w)]]
       ELSE Goes(w, "fail")
    /\ UNCHANGED orphans

(* ffmpeg makes wav of an mp3; whatever else there is, is kept as it is. *)
TranscodeToWav(copy) == [copy EXCEPT !.wav = TRUE]

ProcessAudio(w) ==
    /\ worker[w].at = "audio"
    /\ Write(w)
    /\ worker' = [worker EXCEPT
            ![w].at = IF Target(w) \in PullModel THEN "title" ELSE "save",
            ![w].copy = TranscodeToWav(@)]
    /\ UNCHANGED orphans

SpeakTitle(w) ==
    /\ worker[w].at = "title"
    /\ Write(w)
    /\ worker' = [worker EXCEPT ![w].at = "save"]
    /\ UNCHANGED orphans

Save(w) ==
    /\ worker[w].at = "save"
    /\ Write(w) /\ Goes(w, "complete")
    /\ UNCHANGED orphans

Complete(w) ==
    /\ worker[w].at = "complete"
    /\ Write(w) /\ Polls(w)
    /\ UNCHANGED orphans

(* ConnectionError, TimeoutError, OSError: the whole attempt starts again, *)
(* until the last one.                                                     *)
TransientError(w) ==
    /\ "network" \in Faults
    /\ worker[w].at \in {"audio", "title"}
    /\ IF Attempt(w) < MaxRetries
       THEN worker' = [worker EXCEPT ![w].at = "load", ![w].attempt = @ + 1,
                                     ![w].copy = NewDoc]
       ELSE Goes(w, "fail") \/ Goes(w, "fail_late")
    /\ UNCHANGED <<documents, status, target, replayed, orphans>>

(* Any other exception: no further attempt. *)
PermanentError(w) ==
    /\ "corrupt" \in Faults
    /\ worker[w].at \in {"audio", "title"}
    /\ Goes(w, "fail")
    /\ UNCHANGED <<documents, status, target, replayed, orphans>>

(* mark_failed and `raise last_exc'; a TimeoutError looks to the loop like *)
(* its own time limit and is marked once more.                             *)
DeadLetter(w) ==
    /\ worker[w].at \in Burying
    /\ Write(w)
    /\ IF worker[w].at = "fail_late" THEN Goes(w, "lapse") ELSE Polls(w)
    /\ UNCHANGED orphans

(* The write of an interrupted call may have reached the database or not. *)
Interrupted(w) == Write(w) \/ UNCHANGED <<documents, status, target, replayed>>

Orphan(w) == orphans' = orphans \cup {Job(w)}

(* An error of the database: inside the attempt it is a permanent error,   *)
(* outside it leaves the loop's handler to log it.                         *)
DatabaseError(w) ==
    /\ "database" \in Faults
    /\ worker[w].at \notin {"poll", "audio", "title"}
    /\ Interrupted(w)
    /\ IF worker[w].at \in {"load", "save", "complete"}
       THEN Goes(w, "fail") /\ UNCHANGED orphans
       ELSE Polls(w) /\ Orphan(w)

TimeOutForgets(w) == \* mutant: the loop goes on without mark_failed
    /\ "slow" \in Faults
    /\ worker[w].at \notin {"poll", "lapse"}
    /\ Interrupted(w)
    /\ Polls(w)
    /\ UNCHANGED orphans

(* wait_for: JOB_TIMEOUT_SECONDS are over wherever the job is. *)
TimeOut(w) ==
    /\ "slow" \in Faults
    /\ worker[w].at \notin {"poll", "lapse"}
    /\ Interrupted(w)
    /\ Goes(w, "lapse")
    /\ UNCHANGED orphans

(* The process ends or is told to shut down; the next one polls. *)
Crash(w) ==
    /\ "crash" \in Faults
    /\ worker[w].at # "poll"
    /\ Interrupted(w)
    /\ Polls(w) /\ Orphan(w)

Request ==
    \/ \E c \in Contents : CreateContent(c)
    \/ \E q \in Quizzes : CreateQuiz(q)
    \/ \E c \in Contents : UploadAudio(c)
    \/ \E c \in Contents : EditTitle(c)
    \/ \E j \in Jobs, to \in {"pending", "skipped"} : Operate(j, to)

Work(w) ==
    \/ Claim(w) \/ Start(w) \/ Load(w) \/ ProcessAudio(w) \/ SpeakTitle(w)
    \/ Save(w) \/ Complete(w) \/ DeadLetter(w)

Fault(w) == \/ TransientError(w) \/ PermanentError(w) \/ DatabaseError(w)
            \/ TimeOut(w) \/ Crash(w)

Next ==
    \/ Request
    \/ \E d \in Documents : Enqueue(d)
    \/ \E d \in Documents : DropRequest(d)
    \/ \E w \in Workers : Work(w)
    \/ \E w \in Workers : Fault(w)

Spec == Init /\ [][Next]_vars

(* The process runs its loop; nothing forces a fault to happen or not to. *)
Fairness == \A w \in Workers : WF_vars(Work(w))

FairSpec == Spec /\ Fairness

-----------------------------------------------------------------------------
(* Properties. *)

(* An upload and a title are only ever lost when they came in while a      *)
(* worker was between reading the document and saving it: save_processed   *)
(* writes both back as they were read.                                     *)
EditsKept ==
    \A c \in Contents \ raced :
        doc[c].audio = uploads[c] /\ doc[c].title = titles[c]

(* A content whose is_processed is true has nothing left in mp3, unless an *)
(* edit raced with its job.                                                *)
ProcessedIsWav ==
    \A c \in Contents \ raced : doc[c].processed => doc[c].wav

(* A stored content that is not processed is not forgotten: its request is *)
(* under way or died, or it has a job that is not completed.               *)
NothingForgotten ==
    \A c \in stored \cap Contents : ~doc[c].processed =>
        \/ c \in due \cup dropped
        \/ \E j \in Jobs : target[j] = c /\ status[j] # "completed"

(* Nothing that was uploaded is taken for done or lost sight of.           *)
Consistent == TypeOK /\ ProcessedIsWav /\ NothingForgotten

(* Two workers process the same job only after an operator put it back     *)
(* while its first worker had still to mark it failed a second time.       *)
OneWorkerPerJob ==
    \A v, w \in Workers :
        (v # w /\ Job(v) = Job(w) /\ Job(v) # Nothing) => Job(v) \in replayed

(* A job that waits is ended, or lost its worker to a crash or to an error *)
(* of the database: nothing takes up a claimed or running job again.       *)
JobsEnd ==
    \A j \in Jobs : status[j] = "pending" ~>
        (status[j] \in {"completed", "failed", "skipped"} \/ j \in orphans)

StageOf(j) ==
    IF j \in replayed THEN "reopened"
    ELSE CASE status[j] = "pending" -> "waiting"
           [] status[j] \in {"claimed", "running"} -> "taken"
           [] status[j] = "completed" -> "done"
           [] status[j] = "failed" -> "buried"
           [] OTHER -> "absent"

Lifecycle == INSTANCE JobLifecycle WITH stage <- [j \in Jobs |-> StageOf(j)]

(* Content jobs keep the promise of JobLifecycle, whatever crashes, errors *)
(* and time limits do to their workers.                                    *)
KeepsLifecycle == Lifecycle!Spec
=============================================================================
