----------------------- MODULE RemediationJobsProofs ------------------------
(***************************************************************************)
(* What the remediation jobs keep for any number of jobs, processes,       *)
(* reviewers, attempts, drafts and faults.  The inductive invariant says   *)
(* that a worker holds a job alone (Holders, OneHolder), at which stage a  *)
(* job is that nobody interfered with (Undisturbed), what the requests of  *)
(* a review know of the job (Compiled), and that a translation was tried   *)
(* before the job is handed over (Explained).                              *)
(***************************************************************************)
EXTENDS RemediationJobs, TLAPS

Reviewing == {"draft", "compile", "mark"}
Off == {"poll", "down"}

Holders ==
    \A w \in Workers :
        /\ worker[w].at \in Off <=> Job(w) = Nothing
        /\ Job(w) # Nothing => status[Job(w)] \notin {"absent", "pending"}
        /\ worker[w].at = "dead_clear" => status[Job(w)] # "running"

OneHolder ==
    \A v, w \in Workers : v # w /\ Job(v) # Nothing => Job(v) # Job(w)

(* A job that no review and no other process touched goes with its worker. *)
Undisturbed ==
    /\ \A w \in Workers : worker[w].at \notin Off /\ Job(w) \notin touched =>
        status[Job(w)] \in IF worker[w].at = "dead_clear" THEN {"failed"}
                           ELSE {"running", "ready_to_review"}
    /\ \A j \in Jobs \ touched : status[j] \notin {"in_review", "verified"}
    /\ \A u \in Users : user[u].at \in Reviewing => user[u].job \in touched

OneReviewer ==
    \A u, v \in Users :
        (u # v /\ user[u].at \in Reviewing /\ user[v].at \in Reviewing
            /\ user[u].job = user[v].job) => user[u].job \in raced

Compiled ==
    /\ \A j \in Jobs : draft[j] > 0 => status[j] \notin {"absent", "pending"}
    /\ \A w \in Workers : worker[w].at \notin Off /\ Job(w) \notin raced =>
        draft[Job(w)] = 0 /\ status[Job(w)] # "verified"
    /\ \A u \in Users : user[u].job \notin raced =>
        /\ user[u].at = "compile" =>
            draft[user[u].job] = user[u].draft /\ user[u].draft > 0
        /\ user[u].at = "mark" =>
            \/ draft[user[u].job] = 0
            \/ docx[user[u].job] = draft[user[u].job] + 1
    /\ VerifiedIsDraft

Explained ==
    /\ \A u \in Users : user[u].at = "unset" => user[u].job \in translated
    /\ \A w \in Workers :
        worker[w].at \in {"clear", "finish"} /\ Job(w) \in Wanted =>
            Job(w) \in translated \cup terror
    /\ TranslatedOrExplained

IInv == /\ TypeOK /\ Holders /\ OneHolder /\ Undisturbed /\ OneReviewer
        /\ RunningIsHeld /\ Compiled /\ Explained

-----------------------------------------------------------------------------
(* What a worker does between its claim and its end. *)

Record == [at : Places, job : Jobs \cup {Nothing}, attempt : 0..MaxAttempts]

Working(w) ==
    \/ Process(w) \/ Translate(w) \/ Finish(w)
    \/ TransientError(w) \/ PermanentError(w) \/ DatabaseError(w)

(* The worker gets the record r, and what it has written goes with it. *)
Moves(w, r) ==
    /\ \/ r.at = "poll" /\ r.job = Nothing
       \/ r.at \notin Off /\ r.job = Job(w)
    /\ r.at = "poll" =>
        \/ worker[w].at = "finish" /\ status'[Job(w)] = "ready_to_review"
        \/ worker[w].at = "dead_clear"
        \/ worker[w].at = "dead" /\ Job(w) \in orphans'
    /\ r.at = "dead_clear" =>
        worker[w].at = "dead" /\ status'[Job(w)] = "failed"
    /\ worker[w].at = "dead_clear" => r.at = "poll"
    /\ worker[w].at = "dead" => r.at \in {"poll", "dead_clear"}
    /\ r.at = "clear" =>
        worker[w].at = "translate" /\ (Job(w) \in Wanted => Job(w) \in translated' \cup terror')
    /\ r.at = "finish" => worker[w].at = "clear"

Writes(w) ==
    /\ \/ status' = status
       \/ worker[w].at = "finish" /\ status' = [status EXCEPT ![Job(w)] = "ready_to_review"]
       \/ worker[w].at = "dead" /\ status' = [status EXCEPT ![Job(w)] = "failed"]
    /\ docx' = docx \/ docx' = [docx EXCEPT ![Job(w)] = 1]
    /\ progress' \subseteq Jobs
    /\ translated' \subseteq Jobs /\ translated \subseteq translated'
    /\ terror' \subseteq Jobs
    /\ translated \cup terror \subseteq translated' \cup terror'
    /\ orphans' \subseteq Jobs /\ orphans \subseteq orphans'
    /\ UNCHANGED <<deleted, draft, user, watched, bounds, touched, raced>>

Step(w) ==
    /\ worker[w].at \notin Off
    /\ Writes(w)
    /\ \E r \in Record : worker' = [worker EXCEPT ![w] = r] /\ Moves(w, r)

LEMMA IdleType == IdleWorker \in Record
BY RemediationAssumption DEF IdleWorker, Record, Places

(* A worker that goes to a place keeps its job. *)
LEMMA GoesTo ==
    ASSUME TypeOK, NEW w \in Workers, NEW place \in Places, Goes(w, place)
    PROVE  \E r \in Record : /\ worker' = [worker EXCEPT ![w] = r]
                             /\ r.at = place /\ r.job = Job(w)
<1> DEFINE r == [worker[w] EXCEPT !.at = place]
<1>1. worker[w] \in Record
  BY DEF TypeOK, Record
<1>2. r \in Record /\ r.at = place /\ r.job = Job(w)
  BY <1>1 DEF Record, Job
<1>3. worker' = [worker EXCEPT ![w] = r]
  BY DEF Goes
<1> QED  BY <1>2, <1>3

LEMMA RetryTo ==
    ASSUME TypeOK, NEW w \in Workers, Retry(w)
    PROVE  \E r \in Record : /\ worker' = [worker EXCEPT ![w] = r]
                             /\ r.at \in {"start", "dead"} /\ r.job = Job(w)
<1>1. CASE worker[w].attempt < MaxAttempts
  <2> DEFINE r == [worker[w] EXCEPT !.at = "start", !.attempt = worker[w].attempt + 1]
  <2>1. worker[w] \in Record
    BY DEF TypeOK, Record
  <2>2. worker[w].attempt + 1 \in 0..MaxAttempts
    BY <1>1, <2>1, RemediationAssumption DEF Record
  <2>3. r \in Record /\ r.at = "start" /\ r.job = Job(w)
    BY <2>1, <2>2 DEF Record, Job, Places, Processing
  <2>4. worker' = [worker EXCEPT ![w] = r]
    BY <1>1, <2>1 DEF Retry, Record
  <2> QED  BY <2>3, <2>4
<1>2. CASE ~ (worker[w].attempt < MaxAttempts)
  BY <1>2, GoesTo DEF Retry, Places
<1> QED  BY <1>1, <1>2

LEMMA PollsTo ==
    ASSUME TypeOK, NEW w \in Workers, Polls(w)
    PROVE  \E r \in Record : /\ worker' = [worker EXCEPT ![w] = r]
                             /\ r.at = "poll" /\ r.job = Nothing
<1>1. IdleWorker.at = "poll" /\ IdleWorker.job = Nothing
  BY DEF IdleWorker
<1> QED  BY <1>1, IdleType DEF Polls

(* One database write of a worker, whole or not at all. *)
LEMMA WriteWrites ==
    ASSUME TypeOK, NEW w \in Workers, worker[w].at \notin Off,
           Write(w) \/ UNCHANGED doc,
           orphans' \subseteq Jobs, orphans \subseteq orphans',
           UNCHANGED <<user, watched, bounds, touched, raced>>
    PROVE  Writes(w)
<1>1. Job(w) \in Jobs
  BY DEF TypeOK, Job, Off
<1>2. CASE UNCHANGED doc
  BY <1>2 DEF Writes, doc, TypeOK
<1>3. CASE Write(w)
  <2>1. \/ status' = status
        \/ worker[w].at = "finish" /\ status' = [status EXCEPT ![Job(w)] = "ready_to_review"]
        \/ worker[w].at = "dead" /\ status' = [status EXCEPT ![Job(w)] = "failed"]
    BY <1>3 DEF Write, SetStatus
  <2>2. docx' = docx \/ docx' = [docx EXCEPT ![Job(w)] = 1]
    BY <1>3 DEF Write, RecordDocx
  <2>3. progress' \subseteq Jobs
    BY <1>1, <1>3 DEF Write, ShowProgress, ClearProgress, TypeOK
  <2>4. UNCHANGED <<deleted, draft, translated, terror>>
    BY <1>3 DEF Write
  <2> QED  BY <2>1, <2>2, <2>3, <2>4 DEF Writes, TypeOK
<1> QED  BY <1>2, <1>3

LEMMA WorkingIsStep ==
    ASSUME TypeOK, NEW w \in Workers, Working(w)
    PROVE  Step(w)
<1>1. worker[w].at \notin Off
  BY DEF Working, Process, Translate, Finish, TransientError, PermanentError,
         DatabaseError, After, Processing, Off
<1>2. Job(w) \in Jobs
  BY <1>1 DEF TypeOK, Job, Off
<1>3. CASE Process(w)
  <2>1. Writes(w)
    BY <1>1, <1>3, WriteWrites DEF Process, history, TypeOK
  <2>2. /\ worker[w].at \in {"start", "pipeline", "upload", "clear", "dead"}
        /\ After[worker[w].at] \in {"pipeline", "upload", "translate", "finish", "dead_clear"}
        /\ After[worker[w].at] = "finish" => worker[w].at = "clear"
        /\ After[worker[w].at] = "dead_clear" <=> worker[w].at = "dead"
    BY <1>3 DEF Process, After
  <2>3. PICK r \in Record : /\ worker' = [worker EXCEPT ![w] = r]
                            /\ r.at = After[worker[w].at] /\ r.job = Job(w)
    BY <1>3, <2>2, GoesTo DEF Process, Places, Processing
  <2>4. worker[w].at = "dead" => status'[Job(w)] = "failed"
    BY <1>2, <1>3 DEF Process, Write, SetStatus, TypeOK
  <2>5. Moves(w, r)
    BY <2>2, <2>3, <2>4 DEF Moves, Off
  <2> QED  BY <1>1, <2>1, <2>3, <2>5 DEF Step
<1>4. CASE Translate(w)
  <2>1. Writes(w)
    BY <1>2, <1>4 DEF Translate, Writes, history, TypeOK
  <2>2. Job(w) \in Wanted => Job(w) \in translated' \cup terror'
    BY <1>4 DEF Translate
  <2>3. PICK r \in Record : /\ worker' = [worker EXCEPT ![w] = r]
                            /\ r.at = "clear" /\ r.job = Job(w)
    BY <1>4, GoesTo DEF Translate, Places, Processing
  <2>4. Moves(w, r)
    BY <1>4, <2>2, <2>3 DEF Moves, Off, Translate
  <2> QED  BY <1>1, <2>1, <2>3, <2>4 DEF Step
<1>5. CASE Finish(w)
  <2>1. Writes(w)
    BY <1>1, <1>5, WriteWrites DEF Finish, history, TypeOK
  <2>2. worker[w].at = "finish" => status'[Job(w)] = "ready_to_review"
    BY <1>2, <1>5 DEF Finish, Write, SetStatus, TypeOK
  <2>3. PICK r \in Record : /\ worker' = [worker EXCEPT ![w] = r]
                            /\ r.at = "poll" /\ r.job = Nothing
    BY <1>5, PollsTo DEF Finish
  <2>4. Moves(w, r)
    BY <1>5, <2>2, <2>3 DEF Moves, Finish
  <2> QED  BY <1>1, <2>1, <2>3, <2>4 DEF Step
<1>6. CASE TransientError(w)
  <2>1. Writes(w)
    BY <1>1, <1>6, WriteWrites DEF TransientError, history, TypeOK
  <2>2. PICK r \in Record : /\ worker' = [worker EXCEPT ![w] = r]
                            /\ r.at \in {"start", "dead"} /\ r.job = Job(w)
    BY <1>6, RetryTo DEF TransientError
  <2>3. Moves(w, r)
    BY <1>6, <2>2 DEF Moves, Off, TransientError, Processing
  <2> QED  BY <1>1, <2>1, <2>2, <2>3 DEF Step
<1>7. CASE PermanentError(w)
  <2>1. Writes(w)
    BY <1>1, <1>7, WriteWrites DEF PermanentError, history, TypeOK
  <2>2. PICK r \in Record : /\ worker' = [worker EXCEPT ![w] = r]
                            /\ r.at = "dead" /\ r.job = Job(w)
    BY <1>7, GoesTo DEF PermanentError, Places
  <2>3. Moves(w, r)
    BY <1>7, <2>2 DEF Moves, Off, PermanentError, Processing
  <2> QED  BY <1>1, <2>1, <2>2, <2>3 DEF Step
<1>8. CASE DatabaseError(w)
  <2>1. Writes(w)
    BY <1>1, <1>2, <1>8, WriteWrites DEF DatabaseError, TypeOK
  <2>2. PICK r \in Record : /\ worker' = [worker EXCEPT ![w] = r]
                            /\ r.at = "poll" /\ r.job = Nothing
    BY <1>8, PollsTo DEF DatabaseError
  <2>3. Moves(w, r)
    BY <1>8, <2>2 DEF Moves, DatabaseError
  <2> QED  BY <1>1, <2>1, <2>2, <2>3 DEF Step
<1> QED  BY <1>3, <1>4, <1>5, <1>6, <1>7, <1>8 DEF Working

-----------------------------------------------------------------------------
(* The invariant under a worker's step. *)

LEMMA StepStatus ==
    ASSUME TypeOK, NEW w \in Workers, Step(w)
    PROVE  /\ Job(w) \in Jobs
           /\ \A i \in Jobs : i # Job(w) => status'[i] = status[i]
           /\ \/ status'[Job(w)] = status[Job(w)]
              \/ worker[w].at = "finish" /\ status'[Job(w)] = "ready_to_review"
              \/ worker[w].at = "dead" /\ status'[Job(w)] = "failed"
           /\ \A i \in Jobs : i # Job(w) => docx'[i] = docx[i]
<1>1. Job(w) \in Jobs
  BY DEF TypeOK, Job, Off, Step
<1>2. status \in [Jobs -> Statuses] /\ docx \in [Jobs -> 0..MaxDrafts + 1]
  BY DEF TypeOK
<1>3. Writes(w)
  BY DEF Step
<1> QED  BY <1>1, <1>2, <1>3 DEF Writes

LEMMA StepType ==
    ASSUME TypeOK, NEW w \in Workers, Step(w)
    PROVE  TypeOK'
<1>1. PICK r \in Record : worker' = [worker EXCEPT ![w] = r] /\ Moves(w, r)
  BY DEF Step
<1>2. Job(w) \in Jobs /\ Writes(w)
  BY StepStatus DEF Step
<1>3. status' \in [Jobs -> Statuses]
  BY <1>2 DEF Writes, TypeOK, Statuses
<1>4. docx' \in [Jobs -> 0..MaxDrafts + 1]
  BY <1>2, RemediationAssumption DEF Writes, TypeOK
<1>5. worker' \in [Workers -> Record]
  BY <1>1 DEF TypeOK, Record
<1>6. \A v \in Workers : worker'[v].at \notin {"poll", "down"} => worker'[v].job \in Jobs
  <2> SUFFICES ASSUME NEW v \in Workers, worker'[v].at \notin {"poll", "down"}
               PROVE  worker'[v].job \in Jobs
    OBVIOUS
  <2>1. CASE v = w
    BY <1>1, <1>2, <2>1 DEF TypeOK, Moves, Off, Record
  <2>2. CASE v # w
    BY <1>1, <2>2 DEF TypeOK
  <2> QED  BY <2>1, <2>2
<1>7. UNCHANGED <<deleted, draft, user, watched, drafts, crashes, touched, raced>>
  BY <1>2 DEF Writes, bounds
<1>8. /\ progress' \subseteq Jobs /\ translated' \subseteq Jobs
      /\ terror' \subseteq Jobs /\ orphans' \subseteq Jobs
  BY <1>2 DEF Writes
<1> QED  BY <1>3, <1>4, <1>5, <1>6, <1>7, <1>8 DEF TypeOK, Record

LEMMA StepHolders ==
    ASSUME TypeOK, Holders, OneHolder, Undisturbed, NEW w \in Workers, Step(w)
    PROVE  Holders' /\ OneHolder' /\ Undisturbed'
<1>1. PICK r \in Record : worker' = [worker EXCEPT ![w] = r] /\ Moves(w, r)
  BY DEF Step
<1>2. /\ Job(w) \in Jobs
      /\ \A i \in Jobs : i # Job(w) => status'[i] = status[i]
      /\ \/ status'[Job(w)] = status[Job(w)]
         \/ worker[w].at = "finish" /\ status'[Job(w)] = "ready_to_review"
         \/ worker[w].at = "dead" /\ status'[Job(w)] = "failed"
  BY StepStatus
<1>3. UNCHANGED <<touched, user>> /\ worker[w].at \notin Off
  BY DEF Step, Writes
<1>4. worker'[w] = r /\ Job(w)' = r.job
  BY <1>1 DEF TypeOK, Job
<1>5. \A v \in Workers : v # w => /\ worker'[v] = worker[v] /\ Job(v)' = Job(v)
                                  /\ Job(v) # Job(w)
  <2>1. \A v \in Workers : v # w => worker'[v] = worker[v] /\ Job(v)' = Job(v)
    BY <1>1 DEF TypeOK, Job
  <2>2. Job(w) # Nothing
    BY <1>2, RemediationAssumption
  <2> QED  BY <2>1, <2>2 DEF OneHolder
<1>6. \A v \in Workers : v # w =>
        Job(v) = Nothing \/ (Job(v) \in Jobs /\ status'[Job(v)] = status[Job(v)])
  BY <1>2, <1>5 DEF TypeOK, Job
<1>7. Holders'
  <2> SUFFICES ASSUME NEW v \in Workers
               PROVE  /\ worker'[v].at \in Off <=> Job(v)' = Nothing
                      /\ Job(v)' # Nothing => status'[Job(v)'] \notin {"absent", "pending"}
                      /\ worker'[v].at = "dead_clear" => status'[Job(v)'] # "running"
    BY DEF Holders
  <2>1. CASE v # w
    <3>1. worker'[v] = worker[v] /\ Job(v)' = Job(v)
      BY <1>5, <2>1
    <3>2. Job(v) = Nothing \/ status'[Job(v)] = status[Job(v)]
      BY <1>6, <2>1
    <3>3. worker[v].at = "dead_clear" => Job(v) # Nothing
      BY DEF Holders, Off
    <3> QED  BY <3>1, <3>2, <3>3 DEF Holders
  <2>2. CASE v = w
    <3>1. CASE r.at = "poll"
      BY <1>1, <1>4, <2>2, <3>1 DEF Moves, Off
    <3>2. CASE r.at # "poll"
      <4>1. r.at \notin Off /\ r.job = Job(w)
        BY <1>1, <3>2 DEF Moves
      <4>2. r.at = "dead_clear" => status'[Job(w)] = "failed"
        BY <1>1 DEF Moves
      <4>3. status[Job(w)] \notin {"absent", "pending"}
        BY <1>2, RemediationAssumption DEF Holders
      <4>4. status'[Job(w)] \notin {"absent", "pending"}
        BY <1>2, <4>3
      <4> QED  BY <1>2, <1>4, <2>2, <4>1, <4>2, <4>4, RemediationAssumption
    <3> QED  BY <3>1, <3>2
  <2> QED  BY <2>1, <2>2
<1>8. OneHolder'
  <2>1. r.job \in {Job(w), Nothing}
    BY <1>1 DEF Moves
  <2> QED  BY <1>4, <1>5, <2>1 DEF OneHolder
<1>9. Undisturbed'
  <2>1. ASSUME NEW v \in Workers, worker'[v].at \notin Off, Job(v)' \notin touched
        PROVE  status'[Job(v)'] \in IF worker'[v].at = "dead_clear" THEN {"failed"}
                                    ELSE {"running", "ready_to_review"}
    <3>1. CASE v # w
      <4>1. worker'[v] = worker[v] /\ Job(v)' = Job(v)
        BY <1>5, <3>1
      <4>2. Job(v) # Nothing
        BY <2>1, <4>1 DEF Holders
      <4>3. status'[Job(v)] = status[Job(v)]
        BY <1>6, <3>1, <4>2
      <4> QED  BY <2>1, <4>1, <4>3 DEF Undisturbed
    <3>2. CASE v = w
      <4>1. r.at \notin Off /\ r.job = Job(w)
        BY <1>1, <1>4, <2>1, <3>2 DEF Moves, Off
      <4>2. CASE r.at = "dead_clear"
        BY <1>1, <1>4, <3>2, <4>1, <4>2 DEF Moves
      <4>3. CASE r.at # "dead_clear"
        <5>1. worker[w].at \notin {"dead", "dead_clear"}
          BY <1>1, <4>1, <4>3 DEF Moves, Off
        <5>2. status[Job(w)] \in {"running", "ready_to_review"}
          BY <1>3, <1>4, <2>1, <3>2, <4>1, <5>1 DEF Undisturbed
        <5>3. status'[Job(w)] \in {"running", "ready_to_review"}
          BY <1>2, <5>1, <5>2
        <5> QED  BY <1>4, <3>2, <4>1, <4>3, <5>3
      <4> QED  BY <4>2, <4>3
    <3> QED  BY <3>1, <3>2
  <2>2. \A j \in Jobs \ touched' : status'[j] \notin {"in_review", "verified"}
    BY <1>2, <1>3 DEF Undisturbed
  <2>3. \A u \in Users : user'[u].at \in Reviewing => user'[u].job \in touched'
    BY <1>3 DEF Undisturbed
  <2> QED  BY <1>3, <2>1, <2>2, <2>3 DEF Undisturbed
<1> QED  BY <1>7, <1>8, <1>9

LEMMA StepReview ==
    ASSUME IInv, NEW w \in Workers, Step(w)
    PROVE  OneReviewer' /\ RunningIsHeld' /\ Compiled' /\ Explained'
<1> USE DEF IInv
<1>1. PICK r \in Record : worker' = [worker EXCEPT ![w] = r] /\ Moves(w, r)
  BY DEF Step
<1>2. /\ Job(w) \in Jobs
      /\ \A i \in Jobs : i # Job(w) => status'[i] = status[i]
      /\ \/ status'[Job(w)] = status[Job(w)]
         \/ worker[w].at = "finish" /\ status'[Job(w)] = "ready_to_review"
         \/ worker[w].at = "dead" /\ status'[Job(w)] = "failed"
      /\ \A i \in Jobs : i # Job(w) => docx'[i] = docx[i]
  BY StepStatus
<1>3. UNCHANGED <<touched, raced, user, draft>> /\ worker[w].at \notin Off
  BY DEF Step, Writes
<1>4. worker'[w] = r /\ Job(w)' = r.job
  BY <1>1 DEF TypeOK, Job
<1>5. \A v \in Workers : v # w => worker'[v] = worker[v] /\ Job(v)' = Job(v)
  BY <1>1 DEF TypeOK, Job
<1>6. /\ orphans \subseteq orphans' /\ translated \subseteq translated'
      /\ translated \cup terror \subseteq translated' \cup terror'
  BY DEF Step, Writes
<1>7. OneReviewer'
  BY <1>3 DEF OneReviewer
<1>8. RunningIsHeld'
  <2> SUFFICES ASSUME NEW j \in Jobs, status'[j] = "running"
               PROVE  Held(j)' \/ j \in orphans'
    BY DEF RunningIsHeld
  <2>1. CASE j = Job(w)
    <3>1. CASE r.at = "poll"
      <4>1. worker[w].at # "finish" \/ status'[j] = "ready_to_review"
        BY <1>1, <2>1, <3>1 DEF Moves
      <4>2. worker[w].at # "dead_clear"
        BY <1>2, <2>1 DEF Holders
      <4> QED  BY <1>1, <2>1, <3>1, <4>1, <4>2 DEF Moves
    <3>2. CASE r.at # "poll"
      BY <1>1, <1>4, <2>1, <3>2 DEF Moves, Held, Job
    <3> QED  BY <3>1, <3>2
  <2>2. CASE j # Job(w)
    <3>1. status[j] = "running"
      BY <1>2, <2>2
    <3>2. CASE j \in orphans
      BY <1>6, <3>2
    <3>3. CASE Held(j)
      <4>1. PICK v \in Workers : Job(v) = j
        BY <3>3 DEF Held, Job
      <4> QED  BY <1>5, <2>2, <4>1 DEF Held, Job
    <3> QED  BY <3>1, <3>2, <3>3 DEF RunningIsHeld
  <2> QED  BY <2>1, <2>2
<1>9. Compiled'
  <2>0. Job(w) \notin raced => draft[Job(w)] = 0 /\ status[Job(w)] # "verified"
    BY <1>3 DEF Compiled
  <2>1. \A j \in Jobs : draft[j] > 0 => status'[j] \notin {"absent", "pending"}
    BY <1>2 DEF Compiled
  <2>2. ASSUME NEW v \in Workers, worker'[v].at \notin Off, Job(v)' \notin raced
        PROVE  draft[Job(v)'] = 0 /\ status'[Job(v)'] # "verified"
    <3>1. Job(v)' = Job(v) /\ worker[v].at \notin Off
      <4>1. CASE v = w
        BY <1>1, <1>3, <1>4, <2>2, <4>1 DEF Moves, Off
      <4>2. CASE v # w
        BY <1>5, <2>2, <4>2
      <4> QED  BY <4>1, <4>2
    <3>2. draft[Job(v)] = 0 /\ status[Job(v)] # "verified"
      BY <2>2, <3>1 DEF Compiled
    <3>3. Job(v) \in Jobs
      BY <3>1 DEF TypeOK, Job, Off
    <3>4. status'[Job(v)] # "verified"
      BY <1>2, <3>2, <3>3
    <3> QED  BY <3>1, <3>2, <3>4
  <2>3. ASSUME NEW u \in Users, user[u].job \notin raced
        PROVE  /\ user[u].at = "compile" =>
                  draft[user[u].job] = user[u].draft /\ user[u].draft > 0
               /\ user[u].at = "mark" =>
                  \/ draft[user[u].job] = 0
                  \/ docx'[user[u].job] = draft[user[u].job] + 1
    <3>1. user[u].at = "compile" =>
                  draft[user[u].job] = user[u].draft /\ user[u].draft > 0
      BY <2>3 DEF Compiled
    <3>2. ASSUME user[u].at = "mark"
          PROVE  \/ draft[user[u].job] = 0
                 \/ docx'[user[u].job] = draft[user[u].job] + 1
      <4>1. user[u].job \in Jobs
        BY <3>2 DEF TypeOK
      <4>2. CASE user[u].job = Job(w)
        BY <2>0, <2>3, <4>2
      <4>3. CASE user[u].job # Job(w)
        <5>1. docx'[user[u].job] = docx[user[u].job]
          BY <1>2, <4>1, <4>3
        <5> QED  BY <2>3, <3>2, <5>1 DEF Compiled
      <4> QED  BY <4>2, <4>3
    <3> QED  BY <3>1, <3>2
  <2>4. ASSUME NEW j \in Jobs \ raced, status'[j] = "verified", draft[j] > 0
        PROVE  docx'[j] = draft[j] + 1
    <3>1. CASE j = Job(w)
      <4>1. draft[j] = 0
        BY <2>0, <2>4, <3>1
      <4> QED  BY <2>4, <4>1
    <3>2. CASE j # Job(w)
      BY <1>2, <2>4, <3>2 DEF Compiled, VerifiedIsDraft
    <3> QED  BY <3>1, <3>2
  <2> QED  BY <1>3, <2>1, <2>2, <2>3, <2>4 DEF Compiled, VerifiedIsDraft
<1>10. Explained'
  <2>1. \A u \in Users : user'[u].at = "unset" => user'[u].job \in translated'
    BY <1>3, <1>6 DEF Explained
  <2>2. ASSUME NEW v \in Workers, worker'[v].at \in {"clear", "finish"},
               Job(v)' \in Wanted
        PROVE  Job(v)' \in translated' \cup terror'
    <3>1. CASE v # w
      BY <1>5, <1>6, <2>2, <3>1 DEF Explained
    <3>2. CASE v = w
      BY <1>1, <1>4, <1>6, <2>2, <3>2, RemediationAssumption DEF Moves, Explained
    <3> QED  BY <3>1, <3>2
  <2>3. ASSUME NEW j \in Wanted, status'[j] = "ready_to_review"
        PROVE  j \in translated' \cup terror'
    <3>1. j \in Jobs
      BY RemediationAssumption
    <3>2. CASE status[j] = "ready_to_review"
      BY <1>6, <2>3, <3>2 DEF Explained, TranslatedOrExplained
    <3>3. CASE status[j] # "ready_to_review"
      BY <1>2, <1>6, <2>3, <3>1, <3>3 DEF Explained
    <3> QED  BY <3>2, <3>3
  <2> QED  BY <2>1, <2>2, <2>3 DEF Explained, TranslatedOrExplained
<1> QED  BY <1>7, <1>8, <1>9, <1>10

LEMMA StepInv ==
    ASSUME IInv, NEW w \in Workers, Step(w)
    PROVE  IInv'
BY StepType, StepHolders, StepReview DEF IInv

-----------------------------------------------------------------------------
(* The invariant when a job is claimed, and when a process ends or starts. *)

LEMMA ClaimInv ==
    ASSUME IInv, NEW w \in Workers, Claim(w)
    PROVE  IInv'
<1> USE DEF IInv
<1> DEFINE r(j) == [at |-> "start", job |-> j, attempt |-> 1]
<1>1. PICK j \in Jobs \ deleted : /\ status[j] = "pending"
                                  /\ SetStatus(j, "running")
                                  /\ worker' = [worker EXCEPT ![w] = r(j)]
  BY DEF Claim
<1>2. UNCHANGED <<deleted, draft, docx, translated, terror, progress, user,
                  watched, bounds, history>> /\ worker[w].at = "poll"
  BY DEF Claim
<1>3. status'[j] = "running" /\ \A i \in Jobs : i # j => status'[i] = status[i]
  BY <1>1 DEF SetStatus, TypeOK
<1>4. worker'[w].at = "start" /\ Job(w)' = j
  BY <1>1 DEF TypeOK, Job
<1>5. \A v \in Workers : v # w => worker'[v] = worker[v] /\ Job(v)' = Job(v)
  BY <1>1 DEF TypeOK, Job
<1>6. \A v \in Workers : Job(v) # j
  BY <1>1, RemediationAssumption DEF Holders
<1>7. \A v \in Workers : Job(v) = Nothing \/ Job(v) \in Jobs
  BY DEF TypeOK, Job
<1>8. TypeOK'
  <2>1. status' \in [Jobs -> Statuses]
    BY <1>1 DEF SetStatus, TypeOK, Statuses
  <2>2. r(j) \in Record
    <3>1. 1 \in 0..MaxAttempts
      BY RemediationAssumption
    <3> QED  BY <3>1 DEF Record, Places, Processing
  <2>3. worker' \in [Workers -> Record]
    BY <1>1, <2>2 DEF TypeOK, Record
  <2>4. \A v \in Workers : worker'[v].at \notin {"poll", "down"} => worker'[v].job \in Jobs
    <3>1. worker'[w].job \in Jobs
      BY <1>4 DEF Job
    <3> QED  BY <1>5, <3>1 DEF TypeOK
  <2> QED  BY <1>2, <2>1, <2>3, <2>4 DEF TypeOK, Record, bounds, history
<1>9. Holders'
  <2>1. ASSUME NEW v \in Workers
        PROVE  /\ worker'[v].at \in Off <=> Job(v)' = Nothing
               /\ Job(v)' # Nothing => status'[Job(v)'] \notin {"absent", "pending"}
               /\ worker'[v].at = "dead_clear" => status'[Job(v)'] # "running"
    <3>1. CASE v = w
      BY <1>3, <1>4, <3>1, RemediationAssumption DEF Off
    <3>2. CASE v # w
      <4>1. worker[v].at = "dead_clear" => Job(v) \in Jobs
        BY <1>7 DEF Holders, Off
      <4> QED  BY <1>3, <1>5, <1>6, <1>7, <3>2, <4>1 DEF Holders
    <3> QED  BY <3>1, <3>2
  <2> QED  BY <2>1 DEF Holders
<1>10. OneHolder'
  BY <1>4, <1>5, <1>6 DEF OneHolder
<1>11. Undisturbed'
  <2>1. ASSUME NEW v \in Workers, worker'[v].at \notin Off, Job(v)' \notin touched
        PROVE  status'[Job(v)'] \in IF worker'[v].at = "dead_clear" THEN {"failed"}
                                    ELSE {"running", "ready_to_review"}
    <3>1. CASE v = w
      BY <1>3, <1>4, <3>1
    <3>2. CASE v # w
      <4>1. worker'[v] = worker[v] /\ Job(v)' = Job(v) /\ Job(v) \in Jobs
        BY <1>5, <1>7, <2>1, <3>2 DEF Holders
      <4>2. status'[Job(v)] = status[Job(v)]
        BY <1>3, <1>6, <4>1
      <4> QED  BY <2>1, <4>1, <4>2 DEF Undisturbed
    <3> QED  BY <3>1, <3>2
  <2> QED  BY <1>2, <1>3, <2>1 DEF Undisturbed, history
<1>12. RunningIsHeld'
  <2> SUFFICES ASSUME NEW i \in Jobs, status'[i] = "running"
               PROVE  Held(i)' \/ i \in orphans'
    BY DEF RunningIsHeld
  <2>1. CASE i = j
    BY <1>4, <2>1 DEF Held, Job
  <2>2. CASE i # j
    <3>1. Held(i) \/ i \in orphans
      BY <1>3, <2>2 DEF RunningIsHeld
    <3>2. ASSUME NEW v \in Workers, Job(v) = i  PROVE Held(i)'
      <4>1. v # w
        BY <1>2, <3>2, RemediationAssumption DEF Holders, Off
      <4> QED  BY <1>5, <3>2, <4>1 DEF Held, Job
    <3> QED  BY <1>2, <3>1, <3>2 DEF Held, Job, history
  <2> QED  BY <2>1, <2>2
<1>13. Compiled'
  <2>1. draft[j] = 0
    BY <1>1 DEF Compiled, TypeOK
  <2>2. ASSUME NEW v \in Workers, worker'[v].at \notin Off, Job(v)' \notin raced
        PROVE  draft[Job(v)'] = 0 /\ status'[Job(v)'] # "verified"
    <3>1. CASE v = w
      BY <1>3, <1>4, <2>1, <3>1
    <3>2. CASE v # w
      <4>1. worker'[v] = worker[v] /\ Job(v)' = Job(v) /\ Job(v) \in Jobs
        BY <1>5, <1>7, <2>2, <3>2 DEF Holders
      <4>2. status'[Job(v)] = status[Job(v)]
        BY <1>3, <1>6, <4>1
      <4> QED  BY <2>2, <4>1, <4>2 DEF Compiled
    <3> QED  BY <3>1, <3>2
  <2> QED  BY <1>2, <1>3, <2>2 DEF Compiled, VerifiedIsDraft, history
<1>14. Explained'
  <2>1. \A v \in Workers : worker'[v].at \in {"clear", "finish"} =>
            worker'[v] = worker[v] /\ Job(v)' = Job(v)
    BY <1>4, <1>5
  <2> QED  BY <1>2, <1>3, <2>1, RemediationAssumption
           DEF Explained, TranslatedOrExplained
<1>15. OneReviewer'
  BY <1>2 DEF OneReviewer, history
<1> QED  BY <1>8, <1>9, <1>10, <1>11, <1>12, <1>13, <1>14, <1>15

LEMMA CrashInv ==
    ASSUME IInv, NEW w \in Workers, Crash(w)
    PROVE  IInv'
<1> USE DEF IInv
<1> DEFINE r == [IdleWorker EXCEPT !.at = "down"]
<1>1. r \in Record /\ r.at = "down" /\ r.job = Nothing
  BY RemediationAssumption DEF IdleWorker, Record, Places
<1>2. /\ UNCHANGED <<status, deleted, draft, docx, translated, terror, progress,
                     user, watched, drafts, touched, raced>>
      /\ worker' = [worker EXCEPT ![w] = r]
      /\ crashes' = crashes + 1 /\ crashes < MaxCrashes
      /\ orphans' = orphans \cup ({Job(w)} \ {Nothing})
  BY DEF Crash, doc
<1> HIDE DEF r
<1>3. worker'[w].at = "down" /\ Job(w)' = Nothing
  BY <1>1, <1>2 DEF TypeOK, Job
<1>4. \A v \in Workers : v # w => worker'[v] = worker[v] /\ Job(v)' = Job(v)
  BY <1>2 DEF TypeOK, Job
<1>5. TypeOK'
  <2>1. worker' \in [Workers -> Record]
    BY <1>1, <1>2 DEF TypeOK, Record
  <2>2. \A v \in Workers : worker'[v].at \notin {"poll", "down"} => worker'[v].job \in Jobs
    BY <1>3, <1>4 DEF TypeOK
  <2>3. orphans' \subseteq Jobs
    BY <1>2 DEF TypeOK, Job
  <2>4. crashes' \in 0..MaxCrashes
    BY <1>2, RemediationAssumption DEF TypeOK
  <2> QED  BY <1>2, <2>1, <2>2, <2>3, <2>4 DEF TypeOK, Record
<1>6. Holders' /\ OneHolder'
  BY <1>2, <1>3, <1>4 DEF Holders, OneHolder, Off
<1>7. Undisturbed'
  BY <1>2, <1>3, <1>4 DEF Undisturbed, Off
<1>8. RunningIsHeld'
  <2> SUFFICES ASSUME NEW j \in Jobs, status'[j] = "running"
               PROVE  Held(j)' \/ j \in orphans'
    BY DEF RunningIsHeld
  <2>1. Held(j) \/ j \in orphans
    BY <1>2 DEF RunningIsHeld
  <2>2. ASSUME NEW v \in Workers, Job(v) = j  PROVE Held(j)' \/ j \in orphans'
    <3>1. CASE v = w
      BY <1>2, <2>2, <3>1, RemediationAssumption
    <3>2. CASE v # w
      BY <1>4, <2>2, <3>2 DEF Held, Job
    <3> QED  BY <3>1, <3>2
  <2> QED  BY <1>2, <2>1, <2>2 DEF Held, Job
<1>9. Compiled'
  BY <1>2, <1>3, <1>4 DEF Compiled, VerifiedIsDraft, Off
<1>10. Explained'
  <2>1. \A v \in Workers : worker'[v].at \in {"clear", "finish"} =>
            worker'[v] = worker[v] /\ Job(v)' = Job(v)
    BY <1>3, <1>4
  <2> QED  BY <1>2, <2>1 DEF Explained, TranslatedOrExplained
<1>11. OneReviewer'
  BY <1>2 DEF OneReviewer
<1> QED  BY <1>5, <1>6, <1>7, <1>8, <1>9, <1>10, <1>11

(* The process that starts fails whatever runs, also what others run. *)
LEMMA RestartInv ==
    ASSUME IInv, NEW w \in Workers, Restart(w)
    PROVE  IInv'
<1> USE DEF IInv
<1>1. /\ worker[w].at = "down" /\ worker' = [worker EXCEPT ![w] = IdleWorker]
      /\ UNCHANGED <<deleted, draft, docx, translated, terror, progress, user,
                     watched, drafts, crashes, raced>>
      /\ status' = [j \in Jobs |-> IF status[j] = "running" THEN "failed"
                                   ELSE status[j]]
      /\ touched' = touched \cup {j \in Jobs : status[j] = "running" /\ Held(j)}
      /\ orphans' \subseteq orphans
  BY DEF Restart, Polls, bounds
<1>2. \A j \in Jobs : /\ status[j] = "running" => status'[j] = "failed"
                      /\ status[j] # "running" => status'[j] = status[j]
  BY <1>1
<1>3. worker'[w].at = "poll" /\ Job(w)' = Nothing /\ Job(w) = Nothing
  BY <1>1 DEF TypeOK, Job, IdleWorker, Holders, Off
<1>4. \A v \in Workers : v # w => worker'[v] = worker[v] /\ Job(v)' = Job(v)
  BY <1>1 DEF TypeOK, Job
<1>5. \A v \in Workers : Job(v) = Nothing \/ Job(v) \in Jobs
  BY DEF TypeOK, Job
<1>6. TypeOK'
  <2>1. worker' \in [Workers -> Record]
    BY <1>1, IdleType DEF TypeOK, Record
  <2>2. \A v \in Workers : worker'[v].at \notin {"poll", "down"} => worker'[v].job \in Jobs
    BY <1>3, <1>4 DEF TypeOK
  <2>3. status' \in [Jobs -> Statuses]
    BY <1>1 DEF TypeOK, Statuses
  <2> QED  BY <1>1, <2>1, <2>2, <2>3 DEF TypeOK, Record
<1>7. Holders'
  <2>1. ASSUME NEW v \in Workers
        PROVE  /\ worker'[v].at \in Off <=> Job(v)' = Nothing
               /\ Job(v)' # Nothing => status'[Job(v)'] \notin {"absent", "pending"}
               /\ worker'[v].at = "dead_clear" => status'[Job(v)'] # "running"
    <3>1. CASE v = w
      BY <1>3, <3>1 DEF Off
    <3>2. CASE v # w
      <4>1. worker[v].at = "dead_clear" => Job(v) \in Jobs
        BY <1>5 DEF Holders, Off
      <4> QED  BY <1>2, <1>4, <1>5, <3>2, <4>1 DEF Holders
    <3> QED  BY <3>1, <3>2
  <2> QED  BY <2>1 DEF Holders
<1>8. OneHolder'
  BY <1>3, <1>4 DEF OneHolder
<1>9. Undisturbed'
  <2>1. ASSUME NEW v \in Workers, worker'[v].at \notin Off, Job(v)' \notin touched'
        PROVE  status'[Job(v)'] \in IF worker'[v].at = "dead_clear" THEN {"failed"}
                                    ELSE {"running", "ready_to_review"}
    <3>1. v # w /\ worker'[v] = worker[v] /\ Job(v)' = Job(v)
      BY <1>3, <1>4, <2>1 DEF Off
    <3>2. Job(v) \in Jobs
      BY <1>5, <2>1, <3>1 DEF Holders
    <3>3. Held(Job(v))
      BY DEF Held, Job
    <3>4. status[Job(v)] # "running" /\ Job(v) \notin touched
      BY <1>1, <2>1, <3>1, <3>2, <3>3
    <3>5. status'[Job(v)] = status[Job(v)]
      BY <1>2, <3>2, <3>4
    <3> QED  BY <2>1, <3>1, <3>4, <3>5 DEF Undisturbed
  <2>2. \A j \in Jobs \ touched' : status'[j] \notin {"in_review", "verified"}
    BY <1>1, <1>2 DEF Undisturbed
  <2> QED  BY <1>1, <2>1, <2>2 DEF Undisturbed
<1>10. RunningIsHeld'
  BY <1>2 DEF RunningIsHeld
<1>11. Compiled'
  <2>1. \A j \in Jobs : draft[j] > 0 => status'[j] \notin {"absent", "pending"}
    BY <1>2 DEF Compiled
  <2>2. ASSUME NEW v \in Workers, worker'[v].at \notin Off, Job(v)' \notin raced
        PROVE  draft[Job(v)'] = 0 /\ status'[Job(v)'] # "verified"
    <3>1. v # w /\ worker'[v] = worker[v] /\ Job(v)' = Job(v) /\ Job(v) \in Jobs
      BY <1>3, <1>4, <1>5, <2>2 DEF Off, Holders
    <3>2. draft[Job(v)] = 0 /\ status[Job(v)] # "verified"
      BY <2>2, <3>1 DEF Compiled
    <3> QED  BY <1>2, <3>1, <3>2
  <2>3. \A j \in Jobs : status'[j] = "verified" => status[j] = "verified"
    BY <1>2
  <2> QED  BY <1>1, <2>1, <2>2, <2>3 DEF Compiled, VerifiedIsDraft
<1>12. Explained'
  <2>1. \A v \in Workers : worker'[v].at \in {"clear", "finish"} =>
            worker'[v] = worker[v] /\ Job(v)' = Job(v)
    BY <1>3, <1>4
  <2>2. \A j \in Wanted : status'[j] = "ready_to_review" => status[j] = "ready_to_review"
    BY <1>2, RemediationAssumption
  <2> QED  BY <1>1, <2>1, <2>2 DEF Explained, TranslatedOrExplained
<1>13. OneReviewer'
  BY <1>1 DEF OneReviewer
<1> QED  BY <1>6, <1>7, <1>8, <1>9, <1>10, <1>11, <1>12, <1>13

-----------------------------------------------------------------------------
(* The invariant under the requests: they leave the workers alone. *)

UserRecord == [at : UserPlaces, job : Jobs \cup {Nothing}, draft : 0..MaxDrafts]

LEMMA RequestsHold ==
    ASSUME IInv, UNCHANGED <<worker, orphans>>,
           \A i \in Jobs : \/ status'[i] = status[i]
                           \/ status'[i] \in {"in_review", "verified"}
                           \/ status[i] = "absent" /\ status'[i] = "pending"
    PROVE  Holders' /\ OneHolder' /\ RunningIsHeld'
<1> USE DEF IInv
<1>1. \A v \in Workers : Job(v)' = Job(v) /\ (Job(v) = Nothing \/ Job(v) \in Jobs)
  BY DEF TypeOK, Job
<1>2. Holders'
  <2>1. ASSUME NEW v \in Workers
        PROVE  /\ worker[v].at \in Off <=> Job(v) = Nothing
               /\ Job(v) # Nothing => status'[Job(v)] \notin {"absent", "pending"}
               /\ worker[v].at = "dead_clear" => status'[Job(v)] # "running"
    <3>1. CASE Job(v) = Nothing
      BY <3>1 DEF Holders, Off
    <3>2. CASE Job(v) \in Jobs
      BY <3>2 DEF Holders
    <3> QED  BY <1>1, <3>1, <3>2
  <2> QED  BY <1>1, <2>1 DEF Holders
<1>3. OneHolder'
  BY <1>1 DEF OneHolder
<1>4. RunningIsHeld'
  BY DEF RunningIsHeld, Held
<1> QED  BY <1>2, <1>3, <1>4

(* A user's record that is no review and knows no translation. *)
LEMMA ExplainedHolds ==
    ASSUME IInv, UNCHANGED worker,
           translated \subseteq translated',
           translated \cup terror \subseteq translated' \cup terror',
           \A u \in Users : user'[u].at = "unset" => user'[u].job \in translated',
           \A j \in Jobs : status'[j] = "ready_to_review" => status[j] = "ready_to_review"
    PROVE  Explained'
BY RemediationAssumption DEF IInv, Explained, TranslatedOrExplained, Job

LEMMA CreateInv ==
    ASSUME IInv, NEW j \in Jobs, CreateJob(j)
    PROVE  IInv'
<1>1. /\ UNCHANGED <<deleted, draft, docx, translated, terror, progress, worker,
                     user, watched, drafts, crashes, touched, raced, orphans>>
      /\ status[j] = "absent"
      /\ status' = [status EXCEPT ![j] = "pending"]
  BY DEF CreateJob, InsertJob, SetStatus, bounds, history
<1>2. /\ status' \in [Jobs -> Statuses] /\ status'[j] = "pending"
      /\ \A i \in Jobs : i # j => status'[i] = status[i]
  BY <1>1 DEF IInv, TypeOK, Statuses
<1>3. TypeOK'
  BY <1>1, <1>2 DEF IInv, TypeOK
<1>4. Holders' /\ OneHolder' /\ RunningIsHeld'
  BY <1>1, <1>2, RequestsHold
<1>5. \A v \in Workers : worker[v].at \notin Off => Job(v) # j /\ Job(v) \in Jobs
  BY <1>1, RemediationAssumption DEF IInv, TypeOK, Holders, Job
<1>6. Undisturbed'
  BY <1>1, <1>2, <1>5 DEF IInv, Undisturbed, Job
<1>7. Compiled'
  <2>1. draft[j] = 0
    BY <1>1 DEF IInv, Compiled, TypeOK
  <2>2. \A i \in Jobs : status'[i] = "verified" => status[i] = "verified"
    BY <1>1, <1>2
  <2> QED  BY <1>1, <1>2, <1>5, <2>1, <2>2 DEF IInv, Compiled, VerifiedIsDraft, Job
<1>8. Explained'
  <2>1. \A i \in Jobs : status'[i] = "ready_to_review" => status[i] = "ready_to_review"
    BY <1>1, <1>2
  <2> QED  BY <1>1, <2>1, ExplainedHolds DEF IInv, Explained
<1>9. OneReviewer'
  BY <1>1 DEF IInv, OneReviewer
<1> QED  BY <1>3, <1>4, <1>6, <1>7, <1>8, <1>9 DEF IInv

(* Streams and the deletion of a job. *)
LEMMA ShownInv ==
    ASSUME IInv, deleted' \subseteq Jobs, watched' \subseteq Jobs,
           UNCHANGED <<status, draft, docx, translated, terror, progress, worker,
                       user, bounds, history>>
    PROVE  IInv'
<1>1. TypeOK'
  BY DEF IInv, TypeOK, bounds, history
<1>2. Holders' /\ OneHolder' /\ RunningIsHeld'
  BY RequestsHold DEF history
<1>3. Explained'
  BY ExplainedHolds DEF IInv, Explained
<1>4. Undisturbed' /\ OneReviewer' /\ Compiled'
  BY DEF IInv, Undisturbed, OneReviewer, Compiled, VerifiedIsDraft, Job, history
<1> QED  BY <1>1, <1>2, <1>3, <1>4 DEF IInv

(* Nobody but u reviews j, and no worker has it, unless j is raced. *)
LEMMA Alone ==
    ASSUME TypeOK, NEW u \in Users, NEW j \in Jobs, Reviews(u, j)
    PROVE  /\ touched' = touched \cup {j} /\ orphans' = orphans
           /\ raced \subseteq raced' /\ raced' \subseteq raced \cup {j}
           /\ j \notin raced' =>
                /\ \A w \in Workers : Job(w) # j
                /\ \A v \in Users \ {u} : user[v].at # "idle" => user[v].job # j
BY DEF Reviews, Races, Held, Job

(* A request is served: it knows of the job what it has just read. *)
LEMMA ServeInv ==
    ASSUME IInv, NEW u \in Users, NEW j \in Jobs, NEW place \in Reviewing,
           NEW n \in 0..MaxDrafts, Serves(u, place, j, n), Reviews(u, j),
           place = "compile" => draft[j] = n /\ n > 0,
           place = "mark" => draft[j] = 0,
           UNCHANGED <<doc, worker, watched, crashes>>, drafts' \in 0..MaxDrafts
    PROVE  IInv'
<1> USE DEF IInv
<1> DEFINE r == [at |-> place, job |-> j, draft |-> n]
<1>1. /\ UNCHANGED <<status, deleted, draft, docx, translated, terror, progress>>
      /\ user' = [user EXCEPT ![u] = r] /\ user[u].at = "idle"
  BY DEF doc, Serves
<1>2. r \in UserRecord /\ r.at = place /\ r.job = j /\ r.draft = n
  BY DEF UserRecord, Reviewing, UserPlaces
<1> HIDE DEF r
<1>3. user'[u] = r /\ \A v \in Users : v # u => user'[v] = user[v]
  BY <1>1 DEF TypeOK
<1>4. /\ touched' = touched \cup {j} /\ orphans' = orphans
      /\ raced \subseteq raced' /\ raced' \subseteq raced \cup {j}
      /\ j \notin raced' =>
           /\ \A w \in Workers : Job(w) # j
           /\ \A v \in Users \ {u} : user[v].at # "idle" => user[v].job # j
  BY Alone
<1>5. TypeOK'
  <2>1. user' \in [Users -> UserRecord]
    BY <1>1, <1>2 DEF TypeOK, UserRecord
  <2>2. \A v \in Users : user'[v].at # "idle" => user'[v].job \in Jobs
    BY <1>2, <1>3 DEF TypeOK
  <2>3. touched' \subseteq Jobs /\ raced' \subseteq Jobs
    BY <1>4 DEF TypeOK
  <2> QED  BY <1>1, <1>4, <2>1, <2>2, <2>3 DEF TypeOK, UserRecord
<1>6. Holders' /\ OneHolder' /\ RunningIsHeld'
  BY <1>1, <1>4, RequestsHold
<1>7. Explained'
  <2>1. r.at # "unset"
    BY <1>2 DEF Reviewing
  <2>2. \A v \in Users : user'[v].at = "unset" => user'[v].job \in translated'
    BY <1>1, <1>3, <2>1 DEF Explained
  <2> QED  BY <1>1, <2>2, ExplainedHolds
<1>8. Undisturbed'
  BY <1>1, <1>2, <1>3, <1>4 DEF Undisturbed, Job
<1>9. OneReviewer'
  <2> SUFFICES ASSUME NEW v \in Users, NEW x \in Users, v # x,
                      user'[v].at \in Reviewing, user'[x].at \in Reviewing,
                      user'[v].job = user'[x].job
               PROVE  user'[v].job \in raced'
    BY DEF OneReviewer
  <2>1. CASE v # u /\ x # u
    BY <1>3, <1>4, <2>1 DEF OneReviewer
  <2>2. CASE v = u
    BY <1>2, <1>3, <1>4, <2>2 DEF Reviewing
  <2>3. CASE x = u
    BY <1>2, <1>3, <1>4, <2>3 DEF Reviewing
  <2> QED  BY <2>1, <2>2, <2>3
<1>10. Compiled'
  <2>1. ASSUME NEW v \in Users, user'[v].job \notin raced'
        PROVE  /\ user'[v].at = "compile" =>
                  draft[user'[v].job] = user'[v].draft /\ user'[v].draft > 0
               /\ user'[v].at = "mark" =>
                  \/ draft[user'[v].job] = 0
                  \/ docx[user'[v].job] = draft[user'[v].job] + 1
    <3>1. CASE v = u
      BY <1>2, <1>3, <3>1
    <3>2. CASE v # u
      BY <1>3, <1>4, <2>1, <3>2 DEF Compiled
    <3> QED  BY <3>1, <3>2
  <2>2. VerifiedIsDraft'
    BY <1>1, <1>4 DEF Compiled, VerifiedIsDraft
  <2>3. \A w \in Workers : worker[w].at \notin Off /\ Job(w) \notin raced' =>
            draft[Job(w)] = 0 /\ status[Job(w)] # "verified"
    BY <1>4 DEF Compiled
  <2> QED  BY <1>1, <2>1, <2>2, <2>3 DEF Compiled, Job
<1> QED  BY <1>5, <1>6, <1>7, <1>8, <1>9, <1>10

(* A review writes to its job, and goes on to mark it or is answered. *)
LEMMA WriteBackInv ==
    ASSUME IInv, NEW u \in Users, NEW j \in Jobs,
           user[u].at \in Reviewing, user[u].job = j, Reviews(u, j),
           NEW r \in UserRecord, user' = [user EXCEPT ![u] = r],
           r.at = "idle" \/ (r.at = "mark" /\ r.job = j),
           UNCHANGED <<deleted, translated, terror, progress, worker, watched, bounds>>,
           \/ status' = status
           \/ status' = [status EXCEPT ![j] = "in_review"]
           \/ status' = [status EXCEPT ![j] = "verified"],
           docx' \in [Jobs -> 0..MaxDrafts + 1], draft' \in [Jobs -> 0..MaxDrafts],
           \A i \in Jobs : i # j => docx'[i] = docx[i] /\ draft'[i] = draft[i],
           draft'[j] > 0 => status'[j] \notin {"absent", "pending"},
           j \notin raced /\ (r.at = "mark" \/ status'[j] = "verified") =>
               draft'[j] = 0 \/ docx'[j] = draft'[j] + 1
    PROVE  IInv'
<1> USE DEF IInv
<1>1. user'[u] = r /\ \A v \in Users : v # u => user'[v] = user[v]
  BY DEF TypeOK
<1>2. /\ touched' = touched \cup {j} /\ orphans' = orphans
      /\ raced \subseteq raced' /\ raced' \subseteq raced \cup {j}
      /\ j \notin raced' =>
           /\ \A w \in Workers : Job(w) # j
           /\ \A v \in Users \ {u} : user[v].at # "idle" => user[v].job # j
  BY Alone
<1>3. /\ status' \in [Jobs -> Statuses]
      /\ \A i \in Jobs : i # j => status'[i] = status[i]
      /\ status'[j] \in {status[j], "in_review", "verified"}
  BY DEF TypeOK, Statuses
<1>4. TypeOK'
  <2>1. user' \in [Users -> UserRecord]
    BY DEF TypeOK, UserRecord
  <2>2. \A v \in Users : user'[v].at # "idle" => user'[v].job \in Jobs
    BY <1>1 DEF TypeOK
  <2>3. touched' \subseteq Jobs /\ raced' \subseteq Jobs
    BY <1>2 DEF TypeOK
  <2> QED  BY <1>2, <1>3, <2>1, <2>2, <2>3 DEF TypeOK, UserRecord, bounds
<1>5. Holders' /\ OneHolder' /\ RunningIsHeld'
  BY <1>2, <1>3, RequestsHold
<1>6. Explained'
  <2>1. \A v \in Users : user'[v].at = "unset" => user'[v].job \in translated'
    BY <1>1 DEF Explained
  <2>2. \A i \in Jobs : status'[i] = "ready_to_review" => status[i] = "ready_to_review"
    BY <1>3
  <2> QED  BY <2>1, <2>2, ExplainedHolds
<1>7. Undisturbed'
  <2>1. \A v \in Workers : worker[v].at \notin Off => Job(v) \in Jobs
    BY DEF TypeOK, Job, Off
  <2> QED  BY <1>1, <1>2, <1>3, <2>1 DEF Undisturbed, Job, Reviewing
<1>8. OneReviewer'
  <2> SUFFICES ASSUME NEW v \in Users, NEW x \in Users, v # x,
                      user'[v].at \in Reviewing, user'[x].at \in Reviewing,
                      user'[v].job = user'[x].job
               PROVE  user'[v].job \in raced'
    BY DEF OneReviewer
  <2>1. CASE v # u /\ x # u
    BY <1>1, <1>2, <2>1 DEF OneReviewer
  <2>2. CASE v = u
    BY <1>1, <1>2, <2>2 DEF Reviewing
  <2>3. CASE x = u
    BY <1>1, <1>2, <2>3 DEF Reviewing
  <2> QED  BY <2>1, <2>2, <2>3
<1>9. Compiled'
  <2>1. ASSUME NEW v \in Users, user'[v].job \notin raced'
        PROVE  /\ user'[v].at = "compile" =>
                  draft'[user'[v].job] = user'[v].draft /\ user'[v].draft > 0
               /\ user'[v].at = "mark" =>
                  \/ draft'[user'[v].job] = 0
                  \/ docx'[user'[v].job] = draft'[user'[v].job] + 1
    <3>1. CASE v = u
      BY <1>1, <1>2, <2>1, <3>1
    <3>2. CASE v # u
      <4>1. user'[v] = user[v] /\ user[v].job \notin raced
        BY <1>1, <1>2, <2>1, <3>2
      <4>2. CASE user[v].at \in {"compile", "mark"}
        <5>1. user[v].job # j
          BY <1>2, <2>1, <3>2, <4>1, <4>2
        <5>2. user[v].job \in Jobs
          BY <4>2 DEF TypeOK
        <5>3. docx'[user[v].job] = docx[user[v].job] /\ draft'[user[v].job] = draft[user[v].job]
          BY <5>1, <5>2
        <5> QED  BY <4>1, <5>3 DEF Compiled
      <4>3. CASE user[v].at \notin {"compile", "mark"}
        BY <4>1, <4>3
      <4> QED  BY <4>2, <4>3
    <3> QED  BY <3>1, <3>2
  <2>2. VerifiedIsDraft'
    <3> SUFFICES ASSUME NEW i \in Jobs \ raced', status'[i] = "verified", draft'[i] > 0
                 PROVE  docx'[i] = draft'[i] + 1
      BY DEF VerifiedIsDraft
    <3>1. CASE i = j
      BY <1>2, <3>1
    <3>2. CASE i # j
      BY <1>2, <1>3, <3>2 DEF Compiled, VerifiedIsDraft
    <3> QED  BY <3>1, <3>2
  <2>3. ASSUME NEW w \in Workers, worker[w].at \notin Off, Job(w) \notin raced'
        PROVE  draft'[Job(w)] = 0 /\ status'[Job(w)] # "verified"
    <3>1. Job(w) \in Jobs
      BY <2>3 DEF TypeOK, Job, Off
    <3>2. Job(w) # j
      BY <1>2, <2>3
    <3> QED  BY <1>2, <1>3, <2>3, <3>1, <3>2 DEF Compiled
  <2>4. \A i \in Jobs : draft'[i] > 0 => status'[i] \notin {"absent", "pending"}
    BY <1>3 DEF Compiled
  <2> QED  BY <2>1, <2>2, <2>3, <2>4 DEF Compiled, Job
<1> QED  BY <1>4, <1>5, <1>6, <1>7, <1>8, <1>9

LEMMA IdleUserType ==
    ASSUME IInv
    PROVE  IdleUser \in UserRecord /\ IdleUser.at = "idle"
<1>1. 0 \in 0..MaxDrafts
  BY RemediationAssumption
<1> QED  BY <1>1 DEF IdleUser, UserRecord, UserPlaces

LEMMA ReviewInv ==
    ASSUME IInv, NEW u \in Users,
           \/ \E j \in Jobs : SaveDraft(u, j) \/ VerifyJob(u, j)
           \/ UpdateDraft(u) \/ RecordVerified(u) \/ MarkVerified(u)
    PROVE  IInv'
<1> DEFINE j == user[u].job
<1>1. ASSUME NEW i \in Jobs, SaveDraft(u, i)  PROVE IInv'
  <2>1. drafts' \in 0..MaxDrafts
    BY <1>1, RemediationAssumption DEF SaveDraft, IInv, TypeOK
  <2>2. /\ Serves(u, "draft", i, drafts') /\ Reviews(u, i)
        /\ UNCHANGED <<doc, worker, watched, crashes>>
    BY <1>1 DEF SaveDraft
  <2> QED  BY <2>1, <2>2, ServeInv DEF Reviewing
<1>2. ASSUME NEW i \in Jobs, VerifyJob(u, i)  PROVE IInv'
  <2>1. draft[i] \in 0..MaxDrafts /\ drafts' \in 0..MaxDrafts /\ Reviews(u, i)
        /\ UNCHANGED <<doc, worker, watched, crashes>>
    BY <1>2 DEF VerifyJob, IInv, TypeOK, bounds
  <2>2. CASE draft[i] > 0
    <3>1. Serves(u, "compile", i, draft[i])
      BY <1>2, <2>2 DEF VerifyJob
    <3> QED  BY <2>1, <2>2, <3>1, ServeInv DEF Reviewing
  <2>3. CASE ~ (draft[i] > 0)
    <3>1. Serves(u, "mark", i, draft[i]) /\ draft[i] = 0
      BY <1>2, <2>1, <2>3 DEF VerifyJob
    <3> QED  BY <2>1, <3>1, ServeInv DEF Reviewing
  <2> QED  BY <2>2, <2>3
<1>3. CASE UpdateDraft(u)
  <2>1. /\ user[u].at = "draft" /\ j \in Jobs /\ Reviews(u, j)
        /\ user' = [user EXCEPT ![u] = IdleUser]
        /\ draft' = [draft EXCEPT ![j] = user[u].draft]
        /\ status' = [status EXCEPT ![j] = "in_review"]
        /\ UNCHANGED <<deleted, docx, translated, terror, progress, worker, watched, bounds>>
    BY <1>3 DEF UpdateDraft, UserIn, Answers, SetStatus, IInv, TypeOK
  <2>2. draft' \in [Jobs -> 0..MaxDrafts] /\ status'[j] = "in_review"
        /\ \A i \in Jobs : i # j => draft'[i] = draft[i]
    BY <2>1 DEF IInv, TypeOK
  <2>3. docx' \in [Jobs -> 0..MaxDrafts + 1]
    BY <2>1 DEF IInv, TypeOK
  <2> QED  BY <2>1, <2>2, <2>3, IdleUserType, WriteBackInv DEF Reviewing
<1>4. CASE RecordVerified(u)
  <2> DEFINE r == [user[u] EXCEPT !.at = "mark"]
  <2>1. /\ user[u].at = "compile" /\ j \in Jobs /\ Reviews(u, j)
        /\ user' = [user EXCEPT ![u] = r]
        /\ docx' = [docx EXCEPT ![j] = 1 + user[u].draft]
        /\ UNCHANGED <<status, deleted, draft, translated, terror, progress, worker,
                       watched, bounds>>
    BY <1>4 DEF RecordVerified, UserIn, RecordDocx, IInv, TypeOK
  <2>2. r \in UserRecord /\ r.at = "mark" /\ r.job = j
    BY DEF UserRecord, UserPlaces, IInv, TypeOK
  <2>3. /\ docx' \in [Jobs -> 0..MaxDrafts + 1] /\ docx'[j] = 1 + user[u].draft
        /\ \A i \in Jobs : i # j => docx'[i] = docx[i]
    BY <2>1, RemediationAssumption DEF IInv, TypeOK
  <2>4. draft' \in [Jobs -> 0..MaxDrafts] /\ user[u].draft \in Nat
    BY <2>1 DEF IInv, TypeOK
  <2>5. j \notin raced => docx'[j] = draft'[j] + 1
    BY <2>1, <2>3, <2>4 DEF IInv, Compiled
  <2>6. draft'[j] > 0 => status'[j] \notin {"absent", "pending"}
    BY <2>1 DEF IInv, Compiled
  <2> HIDE DEF r
  <2> QED  BY <2>1, <2>2, <2>3, <2>4, <2>5, <2>6, WriteBackInv DEF Reviewing
<1>5. CASE MarkVerified(u)
  <2>1. /\ user[u].at = "mark" /\ j \in Jobs /\ Reviews(u, j)
        /\ user' = [user EXCEPT ![u] = IdleUser]
        /\ status' = [status EXCEPT ![j] = "verified"]
        /\ UNCHANGED <<deleted, docx, draft, translated, terror, progress, worker,
                       watched, bounds>>
    BY <1>5 DEF MarkVerified, UserIn, Answers, SetStatus, IInv, TypeOK
  <2>2. status'[j] = "verified" /\ draft' \in [Jobs -> 0..MaxDrafts]
        /\ docx' \in [Jobs -> 0..MaxDrafts + 1]
    BY <2>1 DEF IInv, TypeOK
  <2>3. j \notin raced => draft'[j] = 0 \/ docx'[j] = draft'[j] + 1
    BY <2>1 DEF IInv, Compiled
  <2> QED  BY <2>1, <2>2, <2>3, IdleUserType, WriteBackInv DEF Reviewing
<1> QED  BY <1>1, <1>2, <1>3, <1>4, <1>5

(* Requests that only translate, and those that end with an error. *)
LEMMA TranslationInv ==
    ASSUME IInv, NEW u \in Users, NEW r \in UserRecord,
           user' = [user EXCEPT ![u] = r],
           r.at # "idle" => r.job \in Jobs, r.at \notin Reviewing,
           r.at = "unset" => r.job \in translated',
           translated' \subseteq Jobs, terror' \subseteq Jobs,
           translated \subseteq translated',
           translated \cup terror \subseteq translated' \cup terror',
           UNCHANGED <<status, deleted, draft, docx, progress, worker, watched,
                       bounds, history>>
    PROVE  IInv'
<1> USE DEF IInv, history
<1>1. user'[u] = r /\ \A v \in Users : v # u => user'[v] = user[v]
  BY DEF TypeOK
<1>2. TypeOK'
  <2>1. user' \in [Users -> UserRecord]
    BY DEF TypeOK, UserRecord
  <2>2. \A v \in Users : user'[v].at # "idle" => user'[v].job \in Jobs
    BY <1>1 DEF TypeOK
  <2> QED  BY <2>1, <2>2 DEF TypeOK, UserRecord, bounds
<1>3. Holders' /\ OneHolder' /\ RunningIsHeld'
  BY RequestsHold
<1>4. Explained'
  <2>1. \A v \in Users : user'[v].at = "unset" => user'[v].job \in translated'
    BY <1>1 DEF Explained
  <2> QED  BY <2>1, ExplainedHolds
<1>5. Undisturbed' /\ OneReviewer'
  BY <1>1 DEF Undisturbed, OneReviewer, Job
<1>6. Compiled'
  BY <1>1 DEF Compiled, VerifiedIsDraft, Job, Reviewing
<1> QED  BY <1>2, <1>3, <1>4, <1>5, <1>6

LEMMA TranslateInv ==
    ASSUME IInv, NEW u \in Users,
           \/ \E j \in Jobs : TranslateJob(u, j)
           \/ RecordTranslation(u) \/ UnsetError(u) \/ RequestFails(u)
    PROVE  IInv'
<1> USE DEF IInv
<1>1. translated \subseteq Jobs /\ terror \subseteq Jobs /\ user[u] \in UserRecord
  BY DEF TypeOK, UserRecord
<1>2. ASSUME NEW j \in Jobs, TranslateJob(u, j)  PROVE IInv'
  <2> DEFINE r == [at |-> "translate", job |-> j, draft |-> 0]
  <2>1. r \in UserRecord /\ r.at = "translate" /\ r.job = j
    <3>1. 0 \in 0..MaxDrafts
      BY RemediationAssumption
    <3> QED  BY <3>1 DEF UserRecord, UserPlaces
  <2>2. user' = [user EXCEPT ![u] = r] /\ UNCHANGED <<doc, worker, watched, bounds, history>>
    BY <1>2 DEF TranslateJob, Serves
  <2> HIDE DEF r
  <2> QED  BY <1>1, <2>1, <2>2, TranslationInv DEF doc, Reviewing
<1>3. CASE RecordTranslation(u)
  <2> DEFINE j == user[u].job
  <2>1. user[u].at = "translate" /\ j \in Jobs
        /\ UNCHANGED <<status, deleted, draft, docx, progress, worker, watched,
                       bounds, history>>
    BY <1>3 DEF RecordTranslation, UserIn, TypeOK
  <2>2. CASE /\ translated' = translated \cup {j} /\ UNCHANGED terror
             /\ user' = [user EXCEPT ![u].at = "unset"]
    <3> DEFINE r == [user[u] EXCEPT !.at = "unset"]
    <3>1. r \in UserRecord /\ r.at = "unset" /\ r.job = j
      BY <1>1 DEF UserRecord, UserPlaces
    <3>2. user' = [user EXCEPT ![u] = r]
      BY <2>2
    <3> HIDE DEF r
    <3> QED  BY <1>1, <2>1, <2>2, <3>1, <3>2, TranslationInv DEF Reviewing
  <2>3. CASE terror' = terror \cup {j} /\ Answers(u) /\ UNCHANGED translated
    BY <1>1, <2>1, <2>3, IdleUserType, TranslationInv DEF Answers, Reviewing
  <2> QED  BY <1>3, <2>2, <2>3 DEF RecordTranslation
<1>4. CASE UnsetError(u)
  <2>1. user[u].job \in translated
    BY <1>4 DEF UnsetError, UserIn, Explained
  <2>2. translated \cup terror \subseteq translated \cup (terror \ {user[u].job})
    BY <2>1
  <2> QED  BY <1>1, <1>4, <2>2, IdleUserType, TranslationInv
           DEF UnsetError, Answers, Reviewing
<1>5. CASE RequestFails(u)
  BY <1>1, <1>5, IdleUserType, TranslationInv DEF RequestFails, Answers, Reviewing, doc
<1> QED  BY <1>2, <1>3, <1>4, <1>5

-----------------------------------------------------------------------------
LEMMA InitInv == ASSUME Init PROVE IInv
<1> USE RemediationAssumption DEF Init
<1>1. TypeOK
  <2>1. IdleWorker \in Record
    BY IdleType
  <2>2. IdleUser \in UserRecord
    BY DEF IdleUser, UserRecord, UserPlaces
  <2>3. IdleWorker.at = "poll" /\ IdleUser.at = "idle"
    BY DEF IdleWorker, IdleUser
  <2> QED  BY <2>1, <2>2, <2>3 DEF TypeOK, Record, UserRecord, Statuses
<1>2. Holders /\ OneHolder /\ RunningIsHeld /\ Undisturbed
  BY DEF Holders, OneHolder, RunningIsHeld, Undisturbed, Job, IdleWorker, Off,
         IdleUser, Reviewing
<1>3. OneReviewer /\ Compiled /\ Explained
  BY DEF OneReviewer, Compiled, VerifiedIsDraft, Explained, TranslatedOrExplained,
         IdleUser, IdleWorker, Reviewing, Off
<1> QED  BY <1>1, <1>2, <1>3 DEF IInv

LEMMA NextInv ==
    ASSUME IInv, [Next]_vars
    PROVE  IInv'
<1>1. ASSUME NEW j \in Jobs, CreateJob(j) \/ SoftDelete(j) \/ Subscribe(j) \/ Look(j)
      PROVE  IInv'
  <2>1. CASE CreateJob(j)
    BY <2>1, CreateInv
  <2>2. CASE SoftDelete(j)
    BY <2>2, ShownInv DEF SoftDelete, IInv, TypeOK
  <2>3. CASE Subscribe(j) \/ Look(j)
    BY <2>3, ShownInv DEF Subscribe, Look, IInv, TypeOK, doc
  <2> QED  BY <1>1, <2>1, <2>2, <2>3
<1>2. ASSUME NEW u \in Users, Review(u)  PROVE IInv'
  BY <1>2, ReviewInv, TranslateInv DEF Review
<1>3. ASSUME NEW w \in Workers,
             \/ Work(w) \/ Restart(w)
             \/ TransientError(w) \/ PermanentError(w) \/ DatabaseError(w) \/ Crash(w)
      PROVE  IInv'
  <2>1. CASE Working(w)
    BY <2>1, WorkingIsStep, StepInv DEF IInv
  <2> QED  BY <1>3, <2>1, ClaimInv, CrashInv, RestartInv DEF Work, Working
<1>4. CASE UNCHANGED vars
  BY <1>4, ShownInv DEF vars, doc, IInv, TypeOK
<1> QED  BY <1>1, <1>2, <1>3, <1>4 DEF Next

(* What TLC checks of one job, two processes and a reviewer, for any       *)
(* number of them.                                                         *)
THEOREM RemediationInvariant == Spec => []IInv
<1>1. IInv /\ [Next]_vars => IInv'
  BY NextInv
<1> QED  BY InitInv, <1>1, PTL DEF Spec

(* What says that it runs has a worker or lost it to a fault, what is      *)
(* ready to review has its translation or the reason why not, and what is  *)
(* verified was compiled from its draft unless its review raced.           *)
THEOREM JobsConsistent == Spec => []Consistent
<1>1. IInv => Consistent
  BY DEF IInv, Consistent, Compiled, Explained
<1> QED  BY RemediationInvariant, <1>1, PTL

(* What a reviewer set, no process takes back once no worker is on the job.*)
THEOREM ReviewsAreKept == Spec => ReviewKept
<1> DEFINE A == \A j \in Jobs :
        (status[j] \in {"in_review", "verified"} /\ ~Held(j)) =>
            status'[j] \in {"in_review", "verified"}
<1>1. IInv /\ [Next]_vars => [A]_vars
  <2> SUFFICES ASSUME IInv, [Next]_vars, NEW j \in Jobs,
                      status[j] \in {"in_review", "verified"}, ~Held(j)
               PROVE  status'[j] \in {"in_review", "verified"}
    OBVIOUS
  <2>0. status \in [Jobs -> Statuses]
    BY DEF IInv, TypeOK
  <2>1. ASSUME NEW i \in Jobs, CreateJob(i) \/ SoftDelete(i) \/ Subscribe(i) \/ Look(i)
        PROVE  status'[j] = status[j]
    BY <2>0, <2>1 DEF CreateJob, InsertJob, SetStatus, SoftDelete, Subscribe, Look, doc
  <2>2. ASSUME NEW u \in Users, Review(u)
        PROVE  status'[j] = status[j] \/ status'[j] \in {"in_review", "verified"}
    <3>1. CASE UpdateDraft(u) \/ MarkVerified(u)
      <4>1. PICK s \in {"in_review", "verified"} :
                  status' = [status EXCEPT ![user[u].job] = s]
        BY <3>1 DEF UpdateDraft, MarkVerified, SetStatus
      <4> QED  BY <2>0, <4>1
    <3>2. CASE ~ (UpdateDraft(u) \/ MarkVerified(u))
      <4>1. status' = status
        BY <2>2, <3>2 DEF Review, SaveDraft, VerifyJob, TranslateJob,
           RecordVerified, RecordTranslation, UnsetError, RequestFails, doc
      <4> QED  BY <4>1
    <3> QED  BY <3>1, <3>2
  <2>3. ASSUME NEW w \in Workers, Working(w)
        PROVE  status'[j] = status[j]
    <3>1. Job(w) # j
      BY DEF Held, Job
    <3> QED  BY <2>3, <3>1, WorkingIsStep, StepStatus DEF IInv
  <2>4. ASSUME NEW w \in Workers, Claim(w) \/ Restart(w) \/ Crash(w)
        PROVE  status'[j] = status[j]
    <3>1. CASE Claim(w)
      <4>1. PICK i \in Jobs : status[i] = "pending" /\ status' = [status EXCEPT ![i] = "running"]
        BY <3>1 DEF Claim, SetStatus
      <4>2. i # j
        BY <4>1
      <4> QED  BY <2>0, <4>1, <4>2
    <3>2. CASE Restart(w)
      BY <3>2 DEF Restart
    <3>3. CASE Crash(w)
      BY <3>3 DEF Crash, doc
    <3> QED  BY <2>4, <3>1, <3>2, <3>3
  <2>5. CASE UNCHANGED vars
    BY <2>5 DEF vars, doc
  <2> QED  BY <2>1, <2>2, <2>3, <2>4, <2>5 DEF Next, Work, Working
<1> QED  BY RemediationInvariant, <1>1, PTL DEF Spec, ReviewKept

-----------------------------------------------------------------------------
(* The promise of JobLifecycle. *)

(* The moves that JobLifecycle allows from the stage a to the stage b. *)
Allowed(a, b) ==
    \/ b = a
    \/ a = "absent" /\ b = "waiting"
    \/ a = "waiting" /\ b = "taken"
    \/ a = "taken" /\ b = "done"
    \/ a \in {"taken", "done"} /\ b = "buried"
    \/ a \in {"waiting", "taken", "done", "buried"} /\ b = "reopened"

LEMMA StageIs ==
    ASSUME NEW j \in Jobs
    PROVE  /\ j \in touched => StageOf(j) = "reopened"
           /\ j \notin touched =>
              /\ status[j] = "absent" => StageOf(j) = "absent"
              /\ status[j] = "pending" => StageOf(j) = "waiting"
              /\ status[j] = "running" => StageOf(j) = "taken"
              /\ status[j] = "ready_to_review" => StageOf(j) = "done"
              /\ status[j] = "failed" => StageOf(j) = "buried"
           /\ StageOf(j) \in Lifecycle!Stages
BY DEF StageOf, Lifecycle!Stages

LEMMA StageIsNext ==
    ASSUME NEW j \in Jobs
    PROVE  /\ j \in touched' => StageOf(j)' = "reopened"
           /\ j \notin touched' =>
              /\ status'[j] = "pending" => StageOf(j)' = "waiting"
              /\ status'[j] = "running" => StageOf(j)' = "taken"
              /\ status'[j] = "ready_to_review" => StageOf(j)' = "done"
              /\ status'[j] = "failed" => StageOf(j)' = "buried"
           /\ StageOf(j)' \in Lifecycle!Stages
BY DEF StageOf, Lifecycle!Stages

LEMMA SameStage ==
    ASSUME NEW j \in Jobs, status'[j] = status[j], j \in touched' <=> j \in touched
    PROVE  Allowed(StageOf(j), StageOf(j)')
BY DEF Allowed, StageOf

(* Whoever touches a job finds it at one of the stages that are reopened. *)
LEMMA TouchedStage ==
    ASSUME IInv, NEW j \in Jobs, status[j] # "absent", j \in touched'
    PROVE  Allowed(StageOf(j), StageOf(j)')
<1>1. CASE j \in touched
  BY <1>1, StageIs, StageIsNext DEF Allowed
<1>2. CASE j \notin touched
  <2>1. status[j] \in {"pending", "running", "ready_to_review", "failed"}
    BY <1>2 DEF IInv, TypeOK, Statuses, Undisturbed
  <2>2. StageOf(j) \in {"waiting", "taken", "done", "buried"}
    BY <1>2, <2>1, StageIs
  <2> QED  BY <2>2, StageIsNext DEF Allowed
<1> QED  BY <1>1, <1>2

LEMMA StepStage ==
    ASSUME IInv, NEW w \in Workers, Step(w), NEW j \in Jobs
    PROVE  Allowed(StageOf(j), StageOf(j)')
<1>1. /\ \A i \in Jobs : i # Job(w) => status'[i] = status[i]
      /\ \/ status'[Job(w)] = status[Job(w)]
         \/ worker[w].at = "finish" /\ status'[Job(w)] = "ready_to_review"
         \/ worker[w].at = "dead" /\ status'[Job(w)] = "failed"
  BY StepStatus DEF IInv
<1>2. touched' = touched /\ worker[w].at \notin Off
  BY DEF Step, Writes
<1>3. CASE status'[j] = status[j]
  BY <1>2, <1>3, SameStage
<1>4. CASE j \in touched
  BY <1>2, <1>4, StageIs, StageIsNext DEF Allowed
<1>5. CASE status'[j] # status[j] /\ j \notin touched
  <2>1. j = Job(w)
    BY <1>1, <1>5
  <2>2. worker[w].at \in {"finish", "dead"}
    BY <1>1, <1>5, <2>1
  <2>3. status[j] \in {"running", "ready_to_review"}
    BY <1>2, <1>5, <2>1, <2>2 DEF IInv, Undisturbed
  <2>4. status'[j] \in {"ready_to_review", "failed"}
    BY <1>1, <1>5, <2>1
  <2>5. StageOf(j) \in {"taken", "done"} /\ (status[j] = "running" => StageOf(j) = "taken")
    BY <1>5, <2>3, StageIs
  <2>6. /\ status'[j] = "ready_to_review" => StageOf(j)' = "done"
        /\ status'[j] = "failed" => StageOf(j)' = "buried"
    BY <1>2, <1>5, StageIsNext
  <2> QED  BY <1>5, <2>3, <2>4, <2>5, <2>6 DEF Allowed
<1> QED  BY <1>3, <1>4, <1>5

LEMMA ClaimStage ==
    ASSUME IInv, NEW w \in Workers, Claim(w), NEW j \in Jobs
    PROVE  Allowed(StageOf(j), StageOf(j)')
<1>1. PICK k \in Jobs : status[k] = "pending" /\ status' = [status EXCEPT ![k] = "running"]
  BY DEF Claim, SetStatus
<1>2. touched' = touched
  BY DEF Claim, history
<1>3. status \in [Jobs -> Statuses]
  BY DEF IInv, TypeOK
<1>4. CASE j = k
  <2>1. status[j] = "pending" /\ status'[j] = "running"
    BY <1>1, <1>3, <1>4
  <2> QED  BY <1>2, <2>1, StageIs, StageIsNext DEF Allowed
<1>5. CASE j # k
  <2>1. status'[j] = status[j]
    BY <1>1, <1>3, <1>5
  <2> QED  BY <1>2, <2>1, SameStage
<1> QED  BY <1>4, <1>5

LEMMA RestartStage ==
    ASSUME IInv, NEW w \in Workers, Restart(w), NEW j \in Jobs
    PROVE  Allowed(StageOf(j), StageOf(j)')
<1>1. /\ status[j] = "running" => status'[j] = "failed"
      /\ status[j] # "running" => status'[j] = status[j]
      /\ touched' = touched \cup {i \in Jobs : status[i] = "running" /\ Held(i)}
  BY DEF Restart
<1>2. CASE status[j] # "running"
  <2>1. j \in touched' <=> j \in touched
    BY <1>1, <1>2
  <2> QED  BY <1>1, <1>2, <2>1, SameStage
<1>3. CASE status[j] = "running" /\ j \in touched'
  BY <1>3, TouchedStage
<1>4. CASE status[j] = "running" /\ j \notin touched'
  <2>1. j \notin touched /\ status'[j] = "failed"
    BY <1>1, <1>4
  <2> QED  BY <1>4, <2>1, StageIs, StageIsNext DEF Allowed
<1> QED  BY <1>2, <1>3, <1>4

LEMMA RequestStage ==
    ASSUME IInv, NEW u \in Users, Review(u), NEW j \in Jobs
    PROVE  Allowed(StageOf(j), StageOf(j)')
<1>0. status \in [Jobs -> Statuses]
  BY DEF IInv, TypeOK
<1>1. ASSUME NEW i \in Jobs, SaveDraft(u, i) \/ VerifyJob(u, i)
      PROVE  Allowed(StageOf(j), StageOf(j)')
  <2>1. /\ touched' = touched \cup {i} /\ status' = status
        /\ status[i] # "absent"
    BY <1>1 DEF SaveDraft, VerifyJob, Serves, Visible, Reviews, doc
  <2>2. CASE j = i
    BY <2>1, <2>2, TouchedStage
  <2>3. CASE j # i
    BY <2>1, <2>3, SameStage
  <2> QED  BY <2>2, <2>3
<1>2. CASE UpdateDraft(u) \/ RecordVerified(u) \/ MarkVerified(u)
  <2>1. /\ user[u].at \in Reviewing /\ touched' = touched \cup {user[u].job}
        /\ \/ status' = status
           \/ status' = [status EXCEPT ![user[u].job] = "in_review"]
           \/ status' = [status EXCEPT ![user[u].job] = "verified"]
    BY <1>2 DEF UpdateDraft, RecordVerified, MarkVerified, UserIn, Reviewing,
                Reviews, SetStatus
  <2>2. user[u].job \in touched
    BY <2>1 DEF IInv, Undisturbed
  <2>3. CASE j = user[u].job
    BY <2>1, <2>2, <2>3, StageIs, StageIsNext DEF Allowed
  <2>4. CASE j # user[u].job
    <3>1. status'[j] = status[j]
      BY <1>0, <2>1, <2>4
    <3>2. touched' = touched
      BY <2>1, <2>2
    <3> QED  BY <3>1, <3>2, SameStage
  <2> QED  BY <2>3, <2>4
<1>3. CASE \/ \E i \in Jobs : TranslateJob(u, i)
           \/ RecordTranslation(u) \/ UnsetError(u) \/ RequestFails(u)
  <2>1. status' = status /\ touched' = touched
    BY <1>3 DEF TranslateJob, RecordTranslation, UnsetError, RequestFails, doc, history
  <2> QED  BY <2>1, SameStage
<1> QED  BY <1>1, <1>2, <1>3 DEF Review

LEMMA NextStage ==
    ASSUME IInv, [Next]_vars, NEW j \in Jobs
    PROVE  Allowed(StageOf(j), StageOf(j)')
<1>1. ASSUME NEW i \in Jobs, CreateJob(i)  PROVE Allowed(StageOf(j), StageOf(j)')
  <2>1. /\ status[i] = "absent" /\ status' = [status EXCEPT ![i] = "pending"]
        /\ touched' = touched /\ status \in [Jobs -> Statuses]
    BY <1>1 DEF CreateJob, InsertJob, SetStatus, history, IInv, TypeOK
  <2>2. CASE j = i
    <3>1. status[j] = "absent" /\ status'[j] = "pending"
      BY <2>1, <2>2
    <3> QED  BY <2>1, <3>1, StageIs, StageIsNext DEF Allowed
  <2>3. CASE j # i
    <3>1. status'[j] = status[j]
      BY <2>1, <2>3
    <3> QED  BY <2>1, <3>1, SameStage
  <2> QED  BY <2>2, <2>3
<1>2. ASSUME NEW i \in Jobs, SoftDelete(i) \/ Subscribe(i) \/ Look(i)
      PROVE  Allowed(StageOf(j), StageOf(j)')
  BY <1>2, SameStage DEF SoftDelete, Subscribe, Look, doc, history
<1>3. ASSUME NEW w \in Workers, Working(w)
      PROVE  Allowed(StageOf(j), StageOf(j)')
  BY <1>3, WorkingIsStep, StepStage DEF IInv
<1>4. ASSUME NEW w \in Workers, Crash(w)
      PROVE  Allowed(StageOf(j), StageOf(j)')
  BY <1>4, SameStage DEF Crash, doc
<1>5. CASE UNCHANGED vars
  BY <1>5, SameStage DEF vars, doc, history
<1> QED  BY <1>1, <1>2, <1>3, <1>4, <1>5, ClaimStage, RestartStage, RequestStage
         DEF Next, Work, Working

(* Whatever faults, attempts and restarts do to its worker, a job that no  *)
(* review and no other process touched is taken when it waits, done when   *)
(* it was taken, and stays failed.                                         *)
THEOREM JobsKeepLifecycle == Spec => KeepsLifecycle
<1> DEFINE Stage == [j \in Jobs |-> StageOf(j)]
<1>1. Init => Lifecycle!Init
  BY DEF Init, Lifecycle!Init, StageOf
<1>2. IInv /\ [Next]_vars => [Lifecycle!Next]_Stage
  <2> SUFFICES ASSUME IInv, [Next]_vars  PROVE Lifecycle!Next
    OBVIOUS
  <2>1. Stage' \in [Jobs -> Lifecycle!Stages]
    BY StageIsNext
  <2>2. ASSUME NEW j \in Jobs
        PROVE  \/ Stage'[j] = Stage[j]
               \/ Lifecycle!Submit(j) \/ Lifecycle!Take(j) \/ Lifecycle!Finish(j)
               \/ Lifecycle!Bury(j) \/ Lifecycle!Reopen(j)
    <3>1. Stage[j] = StageOf(j) /\ Stage'[j] = StageOf(j)'
      OBVIOUS
    <3>2. Allowed(StageOf(j), StageOf(j)')
      BY NextStage
    <3> QED  BY <3>1, <3>2 DEF Allowed, Lifecycle!Submit, Lifecycle!Take,
                Lifecycle!Finish, Lifecycle!Bury, Lifecycle!Reopen, Lifecycle!Move
  <2> QED  BY <2>1, <2>2 DEF Lifecycle!Next
<1> QED  BY <1>1, <1>2, RemediationInvariant, PTL
         DEF KeepsLifecycle, Lifecycle!Spec, Spec
=============================================================================
