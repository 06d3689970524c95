------------------------- MODULE ContentJobsProofs --------------------------
(***************************************************************************)
(* What the content jobs keep for any number of contents, jobs, workers,   *)
(* retries, edits and faults.  Everything a worker does after its claim is *)
(* one Step: a write or none, and a move to its next place.  The inductive *)
(* invariant follows the job a worker holds (Held), the copy it has taken  *)
(* (Copies), and the job that stands for an unprocessed content (Pursued). *)
(***************************************************************************)
EXTENDS ContentJobs, TLAPS

Record == [at : Places, job : Jobs \cup {Nothing}, attempt : 0..MaxRetries,
           copy : Doc]

(* A worker polls without a job; the status of the job it holds goes with  *)
(* its place, until an operator interferes.                                *)
Held ==
    \A w \in Workers :
        IF worker[w].at = "poll" THEN Job(w) = Nothing
        ELSE /\ Job(w) \in Jobs
             /\ status[Job(w)] # "absent"
             /\ Job(w) \notin replayed =>
                /\ worker[w].at = "claimed" => status[Job(w)] = "claimed"
                /\ worker[w].at \in {"load", "audio", "title", "save", "complete"}
                    => status[Job(w)] = "running"
                /\ worker[w].at \in Burying
                    => status[Job(w)] \in {"claimed", "running", "completed", "failed"}

(* What a worker has read of a content is what was last written of it, but *)
(* for the edits that came in since; and it is wav when it is saved.       *)
Copies ==
    \A w \in Workers : worker[w].at \in {"audio", "title", "save"} =>
        /\ Target(w) \in Contents
        /\ worker[w].at # "audio" => worker[w].copy.wav
        /\ Target(w) \notin raced =>
            /\ worker[w].copy.audio = uploads[Target(w)]
            /\ worker[w].copy.title = titles[Target(w)]

Wav == \A c \in Contents : doc[c].processed => doc[c].wav

(* The job of an unprocessed content is none that is about to be completed. *)
Pursues(j, c) ==
    /\ target[j] = c
    /\ status[j] \notin {"absent", "completed"}
    /\ \A w \in Workers : Job(w) = j => worker[w].at # "complete"

Pursued ==
    \A c \in stored \cap Contents :
        ~ doc[c].processed => c \in due \cup dropped \/ \E j \in Jobs : Pursues(j, c)

IInv == /\ TypeOK /\ Held /\ OneWorkerPerJob /\ Copies /\ EditsKept /\ Wav
        /\ Pursued

-----------------------------------------------------------------------------
(* What a worker does after its claim. *)

Moves(w, r) ==
    /\ r.at = "poll" => r.job = Nothing
    /\ r.at # "poll" => r.job = Job(w)
    /\ r.at # "claimed"
    /\ r.at = "load" => \/ worker[w].at = "claimed" /\ Write(w)
                        \/ worker[w].at \in {"audio", "title"}
    /\ r.at = "audio" => /\ worker[w].at = "load" /\ Target(w) \in Contents
                         /\ r.copy = doc[Target(w)]
    /\ r.at \in {"title", "save"} =>
        /\ worker[w].at \in {"audio", "title"} /\ r.copy.wav
        /\ r.copy.audio = worker[w].copy.audio
        /\ r.copy.title = worker[w].copy.title
    /\ r.at = "complete" => worker[w].at = "save" /\ Write(w)

Step(w) ==
    /\ worker[w].at # "poll"
    /\ Interrupted(w)
    /\ \E r \in Record : worker' = [worker EXCEPT ![w] = r] /\ Moves(w, r)
    /\ orphans' \subseteq orphans \cup {Job(w)} /\ orphans \subseteq orphans'

LEMMA IdleType == Idle \in Record /\ NewDoc \in Doc
BY ContentAssumption DEF Idle, Record, NewDoc, Doc, Places

(* A worker that gives up its attempt goes to one of these places. *)
LEMMA GoesMoves ==
    ASSUME TypeOK, NEW w \in Workers, worker[w].at # "poll",
           NEW place \in Burying, Goes(w, place)
    PROVE  \E r \in Record : worker' = [worker EXCEPT ![w] = r] /\ Moves(w, r)
<1> DEFINE r == [Idle EXCEPT !.at = place, !.job = Job(w)]
<1>1. r \in Record
  BY IdleType DEF TypeOK, Record, Places, Burying, Job
<1>2. r.at = place /\ r.job = Job(w)
  BY IdleType DEF Record
<1>3. Moves(w, r)
  BY <1>2 DEF Moves, Burying
<1>4. worker' = [worker EXCEPT ![w] = r]
  BY DEF Goes
<1> QED  BY <1>1, <1>3, <1>4

LEMMA PollsMoves ==
    ASSUME TypeOK, NEW w \in Workers, Polls(w)
    PROVE  \E r \in Record : worker' = [worker EXCEPT ![w] = r] /\ Moves(w, r)
<1>1. Idle.at = "poll" /\ Idle.job = Nothing
  BY DEF Idle
<1>2. Moves(w, Idle)
  BY <1>1 DEF Moves
<1> QED  BY <1>2, IdleType DEF Polls

(* Every action of a worker but its claim is a Step. *)
LEMMA WorkIsStep ==
    ASSUME TypeOK, Copies, NEW w \in Workers, Work(w), ~ Claim(w)
    PROVE  Step(w)
<1> USE DEF Interrupted
<1> worker[w] \in Record
  BY DEF TypeOK, Record
<1>1. CASE Start(w)
  <2> DEFINE r == [worker[w] EXCEPT !.at = "load", !.attempt = 1]
  <2>1. r \in Record
    <3>1. 1 \in 0..MaxRetries
      BY ContentAssumption
    <3> QED  BY <3>1 DEF Record, Places
  <2>2. worker' = [worker EXCEPT ![w] = r]
    BY <1>1 DEF Start, TypeOK
  <2>3. Moves(w, r)
    BY <1>1 DEF Moves, Start, Record, Job
  <2> QED  BY <1>1, <2>1, <2>2, <2>3 DEF Step, Start
<1>2. CASE Load(w)
  <2>1. CASE Target(w) \in Contents
    <3> DEFINE r == [worker[w] EXCEPT !.at = "audio", !.copy = doc[Target(w)]]
    <3>1. r \in Record
      BY <2>1 DEF Record, Places, TypeOK
    <3>2. worker' = [worker EXCEPT ![w] = r]
      BY <1>2, <2>1 DEF Load, TypeOK
    <3>3. Moves(w, r)
      BY <1>2, <2>1 DEF Moves, Load, Record, Job
    <3> QED  BY <1>2, <3>1, <3>2, <3>3 DEF Step, Load
  <2>2. CASE Target(w) \notin Contents
    BY <1>2, <2>2, GoesMoves DEF Load, Step, Burying
  <2> QED  BY <2>1, <2>2
<1>3. CASE ProcessAudio(w)
  <2> DEFINE r == [worker[w] EXCEPT
        !.at = IF Target(w) \in PullModel THEN "title" ELSE "save", !.copy = TranscodeToWav(@)]
  <2>1. r \in Record
    BY DEF Record, Places, Doc, TranscodeToWav
  <2>2. worker' = [worker EXCEPT ![w] = r]
    BY <1>3 DEF ProcessAudio, TypeOK
  <2>3. Moves(w, r)
    BY <1>3 DEF Moves, ProcessAudio, Record, Job, Doc, TranscodeToWav
  <2> QED  BY <1>3, <2>1, <2>2, <2>3 DEF Step, ProcessAudio
<1>4. CASE SpeakTitle(w)
  <2> DEFINE r == [worker[w] EXCEPT !.at = "save"]
  <2>1. r \in Record
    BY DEF Record, Places
  <2>2. worker' = [worker EXCEPT ![w] = r]
    BY <1>4 DEF SpeakTitle, TypeOK
  <2>3. Moves(w, r)
    BY <1>4 DEF Moves, SpeakTitle, Record, Job, Copies
  <2> QED  BY <1>4, <2>1, <2>2, <2>3 DEF Step, SpeakTitle
<1>5. CASE Save(w)
  <2> DEFINE r == [Idle EXCEPT !.at = "complete", !.job = Job(w)]
  <2>1. r \in Record
    BY IdleType DEF Record, Places, Job
  <2>2. worker' = [worker EXCEPT ![w] = r]
    BY <1>5 DEF Save, Goes
  <2>3. Moves(w, r)
    BY <1>5, IdleType DEF Moves, Save, Record
  <2> QED  BY <1>5, <2>1, <2>2, <2>3 DEF Step, Save
<1>6. CASE Complete(w)
  BY <1>6, PollsMoves DEF Complete, Step
<1>7. CASE DeadLetter(w)
  BY <1>7, PollsMoves, GoesMoves DEF DeadLetter, Step, Burying
<1> QED  BY <1>1, <1>2, <1>3, <1>4, <1>5, <1>6, <1>7 DEF Work

LEMMA FaultIsStep ==
    ASSUME TypeOK, NEW w \in Workers, Fault(w)
    PROVE  Step(w)
<1> worker[w] \in Record
  BY DEF TypeOK, Record
<1>1. CASE TransientError(w)
  <2>0. UNCHANGED <<documents, status, target, replayed, orphans>>
    BY <1>1 DEF TransientError
  <2>1. CASE Attempt(w) < MaxRetries
    <3> DEFINE r == [worker[w] EXCEPT !.at = "load", !.attempt = @ + 1, !.copy = NewDoc]
    <3>1. r \in Record
      <4>1. worker[w].attempt + 1 \in 0..MaxRetries
        BY <2>1, ContentAssumption DEF Record, Attempt
      <4> QED  BY <4>1, IdleType DEF Record, Places
    <3>2. worker' = [worker EXCEPT ![w] = r]
      BY <1>1, <2>1 DEF TransientError, TypeOK
    <3>3. Moves(w, r)
      BY <1>1 DEF Moves, TransientError, Record, Job
    <3> QED  BY <1>1, <2>0, <3>1, <3>2, <3>3 DEF Step, TransientError, Interrupted
  <2>2. CASE ~ (Attempt(w) < MaxRetries)
    BY <1>1, <2>0, <2>2, GoesMoves DEF TransientError, Step, Interrupted, Burying
  <2> QED  BY <2>1, <2>2
<1>2. CASE PermanentError(w)
  BY <1>2, GoesMoves DEF PermanentError, Step, Interrupted, Burying
<1>3. CASE DatabaseError(w)
  BY <1>3, GoesMoves, PollsMoves DEF DatabaseError, Step, Burying, Orphan
<1>4. CASE TimeOut(w)
  BY <1>4, GoesMoves DEF TimeOut, Step, Burying
<1>5. CASE Crash(w)
  BY <1>5, PollsMoves DEF Crash, Step, Orphan
<1> QED  BY <1>1, <1>2, <1>3, <1>4, <1>5 DEF Fault

(* The writes of a step: of its job's status and of its target's document. *)
LEMMA StepWrites ==
    ASSUME TypeOK, NEW w \in Workers, Step(w)
    PROVE  /\ UNCHANGED <<stored, due, dropped, uploads, titles, raced, target,
                          replayed>>
           /\ status' \in [Jobs -> Statuses]
           /\ \A j \in Jobs : j # Job(w) => status'[j] = status[j]
           /\ \/ status'[Job(w)] = status[Job(w)]
              \/ worker[w].at = "claimed" /\ status'[Job(w)] = "running"
              \/ worker[w].at = "complete" /\ status'[Job(w)] = "completed"
              \/ worker[w].at \in Burying /\ status'[Job(w)] = "failed"
           /\ doc' \in [Contents -> Doc] /\ spoken' \in [Contents -> Nat]
           /\ \A c \in Contents :
                \/ doc'[c] = doc[c]
                \/ /\ worker[w].at = "save" /\ c = Target(w)
                   /\ doc'[c].processed
                   /\ doc'[c].wav = worker[w].copy.wav
                   /\ doc'[c].audio = worker[w].copy.audio
                   /\ doc'[c].title = worker[w].copy.title
<1> worker[w] \in Record /\ Job(w) \in Jobs
  BY DEF TypeOK, Record, Step, Job
<1>1. CASE Write(w)
  <2>1. UNCHANGED <<stored, due, dropped, uploads, titles, raced, target, replayed>>
    BY <1>1 DEF Write, edits
  <2>2. /\ status' \in [Jobs -> Statuses]
        /\ \A j \in Jobs : j # Job(w) => status'[j] = status[j]
        /\ \/ status'[Job(w)] = status[Job(w)]
           \/ worker[w].at = "claimed" /\ status'[Job(w)] = "running"
           \/ worker[w].at = "complete" /\ status'[Job(w)] = "completed"
           \/ worker[w].at \in Burying /\ status'[Job(w)] = "failed"
    <3>1. CASE worker[w].at = "claimed"
      <4>1. status' = MarkRunning(Job(w))
        BY <1>1, <3>1 DEF Write, Burying
      <4> QED  BY <3>1, <4>1 DEF MarkRunning, TypeOK, Statuses
    <3>2. CASE worker[w].at = "complete"
      <4>1. status' = MarkCompleted(Job(w))
        BY <1>1, <3>2 DEF Write, Burying
      <4> QED  BY <3>2, <4>1 DEF MarkCompleted, TypeOK, Statuses
    <3>3. CASE worker[w].at \in Burying
      <4>1. status' = MarkFailed(Job(w))
        BY <1>1, <3>3 DEF Write, Burying
      <4> QED  BY <3>3, <4>1 DEF MarkFailed, TypeOK, Statuses
    <3>4. CASE worker[w].at \notin {"claimed", "complete"} \cup Burying
      <4>1. status' = status
        BY <1>1, <3>4 DEF Write
      <4> QED  BY <4>1 DEF TypeOK
    <3> QED  BY <3>1, <3>2, <3>3, <3>4
  <2>3. /\ doc' \in [Contents -> Doc] /\ spoken' \in [Contents -> Nat]
        /\ \A c \in Contents :
             \/ doc'[c] = doc[c]
             \/ /\ worker[w].at = "save" /\ c = Target(w)
                /\ doc'[c].processed
                /\ doc'[c].wav = worker[w].copy.wav
                /\ doc'[c].audio = worker[w].copy.audio
                /\ doc'[c].title = worker[w].copy.title
    <3>1. spoken' \in [Contents -> Nat]
      BY <1>1 DEF Write, ProcessTts, TypeOK, Record, Doc
    <3>2. CASE worker[w].at # "save"
      BY <1>1, <3>1, <3>2 DEF Write, TypeOK
    <3>3. CASE worker[w].at = "save"
      <4>1. doc' = SaveProcessed(w)
        BY <1>1, <3>3 DEF Write
      <4>2. worker[w].copy \in Doc /\ doc \in [Contents -> Doc]
        BY DEF TypeOK, Record
      <4> QED  BY <3>1, <3>3, <4>1, <4>2 DEF SaveProcessed, Doc
    <3> QED  BY <3>2, <3>3
  <2> QED  BY <2>1, <2>2, <2>3
<1>2. CASE UNCHANGED <<documents, status, target, replayed>>
  BY <1>2 DEF documents, edits, TypeOK
<1> QED  BY <1>1, <1>2 DEF Step, Interrupted

(* What the writes that its next place depends on have made of them. *)
LEMMA StepWrote ==
    ASSUME TypeOK, NEW w \in Workers, worker[w].at # "poll", Write(w)
    PROVE  /\ worker[w].at = "claimed" => status'[Job(w)] = "running"
           /\ worker[w].at = "save" /\ Target(w) \in Contents
                => doc'[Target(w)].processed
<1> worker[w] \in Record /\ Job(w) \in Jobs
  BY DEF TypeOK, Record, Job
<1>1. ASSUME worker[w].at = "claimed"
      PROVE  status'[Job(w)] = "running"
  <2>1. status' = MarkRunning(Job(w))
    BY <1>1 DEF Write, Burying
  <2> QED  BY <2>1 DEF MarkRunning, TypeOK
<1>2. ASSUME worker[w].at = "save", Target(w) \in Contents
      PROVE  doc'[Target(w)].processed
  <2>1. doc' = SaveProcessed(w)
    BY <1>2 DEF Write
  <2> QED  BY <1>2, <2>1 DEF SaveProcessed, TypeOK, Doc
<1> QED  BY <1>1, <1>2

(* The worker itself after a step. *)
LEMMA StepMoves ==
    ASSUME TypeOK, NEW w \in Workers, Step(w)
    PROVE  /\ worker' \in [Workers -> Record]
           /\ \A v \in Workers : v # w => worker'[v] = worker[v]
           /\ Moves(w, worker'[w])
           /\ worker[w].at # "poll" /\ Job(w) \in Jobs
<1>1. PICK r \in Record : worker' = [worker EXCEPT ![w] = r] /\ Moves(w, r)
  BY DEF Step
<1>2. worker \in [Workers -> Record]
  BY DEF TypeOK, Record
<1>3. worker'[w] = r
  BY <1>1, <1>2
<1> QED  BY <1>1, <1>2, <1>3 DEF Step, TypeOK, Job

-----------------------------------------------------------------------------
(* A step keeps each conjunct of the invariant. *)

LEMMA StepType ==
    ASSUME TypeOK, Held, NEW w \in Workers, Step(w)
    PROVE  TypeOK'
<1>1. /\ UNCHANGED <<stored, due, dropped, uploads, titles, raced, target, replayed>>
      /\ status' \in [Jobs -> Statuses]
      /\ doc' \in [Contents -> Doc] /\ spoken' \in [Contents -> Nat]
      /\ \A j \in Jobs : j # Job(w) => status'[j] = status[j]
  BY StepWrites
<1>2. /\ worker' \in [Workers -> Record]
      /\ \A v \in Workers : v # w => worker'[v] = worker[v]
      /\ Moves(w, worker'[w])
      /\ worker[w].at # "poll" /\ Job(w) \in Jobs
  BY StepMoves
<1>3. \A v \in Workers : worker'[v].at # "poll" => worker'[v].job \in Jobs
  BY <1>2 DEF TypeOK, Moves
<1>4. \A j \in Jobs : status'[j] # "absent" => target'[j] \in stored'
  BY <1>1, <1>2 DEF TypeOK, Held
<1>5. orphans' \subseteq Jobs
  BY <1>2 DEF TypeOK, Step
<1> QED  BY <1>1, <1>2, <1>3, <1>4, <1>5 DEF TypeOK, Record

LEMMA StepHeld ==
    ASSUME TypeOK, Held, OneWorkerPerJob, NEW w \in Workers, Step(w)
    PROVE  Held'
<1> DEFINE HeldBy(v) ==
        IF worker[v].at = "poll" THEN Job(v) = Nothing
        ELSE /\ Job(v) \in Jobs
             /\ status[Job(v)] # "absent"
             /\ Job(v) \notin replayed =>
                /\ worker[v].at = "claimed" => status[Job(v)] = "claimed"
                /\ worker[v].at \in {"load", "audio", "title", "save", "complete"}
                    => status[Job(v)] = "running"
                /\ worker[v].at \in Burying
                    => status[Job(v)] \in {"claimed", "running", "completed", "failed"}
<1>0. \A v \in Workers : HeldBy(v)
  BY DEF Held
<1>1. /\ replayed' = replayed
      /\ \A j \in Jobs : j # Job(w) => status'[j] = status[j]
      /\ \/ status'[Job(w)] = status[Job(w)]
         \/ worker[w].at = "claimed" /\ status'[Job(w)] = "running"
         \/ worker[w].at = "complete" /\ status'[Job(w)] = "completed"
         \/ worker[w].at \in Burying /\ status'[Job(w)] = "failed"
  BY StepWrites
<1>2. /\ worker' \in [Workers -> Record]
      /\ \A v \in Workers : v # w => worker'[v] = worker[v]
      /\ Moves(w, worker'[w])
      /\ worker[w].at # "poll" /\ Job(w) \in Jobs
  BY StepMoves
<1>3. status'[Job(w)] # "absent"
  BY <1>0, <1>1, <1>2
<1>4. ASSUME NEW v \in Workers, v # w
      PROVE  HeldBy(v)'
  <2>1. worker'[v] = worker[v] /\ Job(v)' = Job(v)
    BY <1>2, <1>4 DEF Job
  <2>2. CASE Job(v) = Job(w)
    <3>1. Job(v) \in replayed
      BY <1>2, <1>4, <2>2, ContentAssumption DEF OneWorkerPerJob
    <3> QED  BY <1>0, <1>1, <1>2, <1>3, <2>1, <2>2, <3>1
  <2>3. CASE Job(v) # Job(w)
    BY <1>0, <1>1, <2>1, <2>3
  <2> QED  BY <2>2, <2>3
<1>5. HeldBy(w)'
  <2>1. CASE worker'[w].at = "poll"
    BY <1>2, <2>1 DEF Moves, Job
  <2>2. CASE worker'[w].at # "poll"
    <3>1. Job(w)' = Job(w)
      BY <1>2, <2>2 DEF Moves, Job
    <3>2. worker[w].at \in Places /\ worker'[w].at \in Places
      BY <1>2 DEF TypeOK, Record
    <3>3. ASSUME Job(w) \notin replayed, worker'[w].at = "load"
          PROVE  status'[Job(w)] = "running"
      BY <1>0, <1>1, <1>2, <3>3, StepWrote DEF Moves, Burying
    <3>4. ASSUME Job(w) \notin replayed,
                 worker'[w].at \in {"audio", "title", "save", "complete"}
          PROVE  status'[Job(w)] = "running"
      BY <1>0, <1>1, <1>2, <3>4 DEF Moves, Burying
    <3>5. ASSUME Job(w) \notin replayed
          PROVE  status'[Job(w)] \in {"claimed", "running", "completed", "failed"}
      BY <1>0, <1>1, <1>2, <3>2, <3>5 DEF Places, Burying
    <3>6. worker'[w].at # "claimed"
      BY <1>2 DEF Moves
    <3> QED  BY <1>1, <1>2, <1>3, <2>2, <3>1, <3>3, <3>4, <3>5, <3>6
  <2> QED  BY <2>1, <2>2
<1> QED  BY <1>4, <1>5 DEF Held

LEMMA StepOne ==
    ASSUME TypeOK, OneWorkerPerJob, NEW w \in Workers, Step(w)
    PROVE  OneWorkerPerJob'
<1>1. replayed' = replayed
  BY StepWrites
<1>2. \A v \in Workers : Job(v)' = Job(v) \/ Job(v)' = Nothing
  BY StepMoves DEF Moves, Job
<1> QED  BY <1>1, <1>2 DEF OneWorkerPerJob

LEMMA StepCopies ==
    ASSUME TypeOK, Copies, EditsKept, NEW w \in Workers, Step(w)
    PROVE  Copies'
<1>1. UNCHANGED <<uploads, titles, raced, target>>
  BY StepWrites
<1>2. /\ \A v \in Workers : v # w => worker'[v] = worker[v]
      /\ Moves(w, worker'[w])
  BY StepMoves
<1>3. \A v \in Workers : v # w => Target(v)' = Target(v)
  BY <1>1, <1>2 DEF Target, Job
<1>4. worker'[w].at # "poll" => Target(w)' = Target(w)
  BY <1>1, <1>2 DEF Target, Job, Moves
<1>5. CASE worker'[w].at = "audio"
  BY <1>1, <1>2, <1>3, <1>4, <1>5 DEF Copies, Moves, EditsKept
<1>6. CASE worker'[w].at \in {"title", "save"}
  BY <1>1, <1>2, <1>3, <1>4, <1>6 DEF Copies, Moves
<1>7. CASE worker'[w].at \notin {"audio", "title", "save"}
  BY <1>1, <1>2, <1>3, <1>7 DEF Copies
<1> QED  BY <1>5, <1>6, <1>7

LEMMA StepEdits ==
    ASSUME TypeOK, Copies, EditsKept, Wav, NEW w \in Workers, Step(w)
    PROVE  EditsKept' /\ Wav'
BY StepWrites DEF EditsKept, Wav, Copies

LEMMA StepPursued ==
    ASSUME TypeOK, Pursued, NEW w \in Workers, Step(w)
    PROVE  Pursued'
<1>1. /\ UNCHANGED <<stored, due, dropped, target>>
      /\ \A j \in Jobs : j # Job(w) => status'[j] = status[j]
      /\ \/ status'[Job(w)] = status[Job(w)]
         \/ worker[w].at = "claimed" /\ status'[Job(w)] = "running"
         \/ worker[w].at = "complete"
         \/ status'[Job(w)] = "failed"
      /\ \A c \in Contents : doc'[c] = doc[c] \/ doc'[c].processed
  BY StepWrites
<1>2. /\ \A v \in Workers : v # w => worker'[v] = worker[v]
      /\ Moves(w, worker'[w])
      /\ worker[w].at # "poll"
  BY StepMoves
<1> SUFFICES ASSUME NEW c \in (stored \cap Contents)', ~ doc'[c].processed,
                    c \notin (due \cup dropped)'
             PROVE  \E j \in Jobs : Pursues(j, c)'
  BY DEF Pursued
<1>3. c \in stored \cap Contents /\ ~ doc[c].processed /\ c \notin due \cup dropped
  BY <1>1
<1>4. PICK j \in Jobs : Pursues(j, c)
  BY <1>3 DEF Pursued
<1>5. target'[j] = c /\ status'[j] \notin {"absent", "completed"}
  BY <1>1, <1>4 DEF Pursues
<1>6. ASSUME NEW v \in Workers, Job(v)' = j
      PROVE  worker'[v].at # "complete"
  <2>1. CASE v # w
    BY <1>2, <1>4, <1>6, <2>1 DEF Pursues, Job
  <2>2. CASE v = w
    <3> SUFFICES ASSUME worker'[w].at = "complete"  PROVE FALSE
      BY <2>2
    <3>1. worker[w].at = "save" /\ Write(w) /\ Job(w) = j
      BY <1>2, <1>6, <2>2 DEF Moves, Job
    <3>2. doc'[c].processed
      BY <1>2, <1>3, <1>4, <3>1, StepWrote DEF Pursues, Target
    <3> QED  BY <3>2
  <2> QED  BY <2>1, <2>2
<1> QED  BY <1>5, <1>6 DEF Pursues

LEMMA StepInv ==
    ASSUME IInv, NEW w \in Workers, Step(w)
    PROVE  IInv'
BY StepType, StepHeld, StepOne, StepCopies, StepEdits, StepPursued DEF IInv

-----------------------------------------------------------------------------
(* A claim: the job was pending, so that nobody holds it but a worker that *)
(* an operator overtook.                                                   *)
LEMMA ClaimInv ==
    ASSUME IInv, NEW w \in Workers, Claim(w)
    PROVE  IInv'
<1>1. PICK k \in Jobs :
        /\ status[k] = "pending"
        /\ status' = [status EXCEPT ![k] = "claimed"]
        /\ worker' = [worker EXCEPT ![w] = [Idle EXCEPT !.at = "claimed", !.job = k]]
  BY DEF Claim
<1>2. /\ UNCHANGED <<stored, doc, spoken, due, dropped, uploads, titles, raced>>
      /\ UNCHANGED <<target, replayed, orphans>>
  BY DEF Claim, documents, edits
<1> DEFINE r == [Idle EXCEPT !.at = "claimed", !.job = k]
<1>3. r \in Record /\ r.at = "claimed" /\ r.job = k
  BY IdleType DEF Record, Places
<1>4. /\ worker' \in [Workers -> Record] /\ worker'[w] = r
      /\ \A v \in Workers : v # w => worker'[v] = worker[v]
  BY <1>1, <1>3 DEF IInv, TypeOK, Record
<1>5. status' \in [Jobs -> Statuses] /\ status'[k] = "claimed"
      /\ \A j \in Jobs : j # k => status'[j] = status[j]
  BY <1>1 DEF IInv, TypeOK, Statuses
<1>6. \A v \in Workers : v # w => Job(v)' = Job(v)
  BY <1>4 DEF Job
<1>7. Job(w)' = k
  BY <1>3, <1>4 DEF Job
<1>8. \A v \in Workers : Job(v) = k => k \in replayed
  <2> SUFFICES ASSUME NEW v \in Workers, Job(v) = k, k \notin replayed
               PROVE  FALSE
    OBVIOUS
  <2>1. worker[v].at # "poll"
    BY <1>1, ContentAssumption DEF IInv, Held
  <2>2. worker[v].at \in Places
    BY DEF IInv, TypeOK
  <2> QED  BY <1>1, <2>1, <2>2 DEF IInv, Held, Places, Burying
<1>9. TypeOK'
  <2>1. \A v \in Workers : worker'[v].at # "poll" => worker'[v].job \in Jobs
    BY <1>3, <1>4 DEF IInv, TypeOK
  <2>2. \A j \in Jobs : status'[j] # "absent" => target'[j] \in stored'
    BY <1>1, <1>2, <1>5 DEF IInv, TypeOK
  <2> QED  BY <1>2, <1>4, <1>5, <2>1, <2>2 DEF IInv, TypeOK, Record
<1>10. Held'
  <2>1. ASSUME NEW v \in Workers, v # w, worker[v].at # "poll"
        PROVE  status'[Job(v)] # "absent" /\ (Job(v) \notin replayed => Job(v) # k)
    BY <1>5, <1>8, <2>1 DEF IInv, Held
  <2>2. ASSUME NEW v \in Workers, v # w
        PROVE  worker'[v] = worker[v] /\ Job(v)' = Job(v)
               /\ (worker[v].at # "poll" /\ Job(v) \notin replayed
                    => status'[Job(v)] = status[Job(v)])
    BY <1>4, <1>5, <1>6, <2>1, <2>2 DEF IInv, Held
  <2>3. worker'[w].at = "claimed" /\ Job(w)' \in Jobs /\ status'[Job(w)'] = "claimed"
    BY <1>3, <1>4, <1>5, <1>7
  <2>4. replayed' = replayed
    BY <1>2
  <2> SUFFICES ASSUME NEW v \in Workers
               PROVE  IF worker'[v].at = "poll" THEN Job(v)' = Nothing
                      ELSE /\ Job(v)' \in Jobs
                           /\ status'[Job(v)'] # "absent"
                           /\ Job(v)' \notin replayed' =>
                              /\ worker'[v].at = "claimed" => status'[Job(v)'] = "claimed"
                              /\ worker'[v].at \in {"load", "audio", "title", "save", "complete"}
                                  => status'[Job(v)'] = "running"
                              /\ worker'[v].at \in Burying
                                  => status'[Job(v)'] \in
                                       {"claimed", "running", "completed", "failed"}
    BY DEF Held
  <2>5. CASE v = w
    BY <2>3, <2>5 DEF Burying
  <2>6. CASE v # w
    BY <2>1, <2>2, <2>4, <2>6 DEF IInv, Held
  <2> QED  BY <2>5, <2>6
<1>11. OneWorkerPerJob'
  BY <1>2, <1>6, <1>7, <1>8 DEF IInv, OneWorkerPerJob
<1>12. Copies'
  <2>1. \A v \in Workers : v # w => Target(v)' = Target(v)
    BY <1>2, <1>6 DEF Target
  <2> QED  BY <1>2, <1>3, <1>4, <2>1 DEF IInv, Copies
<1>13. EditsKept' /\ Wav'
  BY <1>2 DEF IInv, EditsKept, Wav
<1>14. Pursued'
  <2>1. \A j \in Jobs, c \in Contents : Pursues(j, c) => Pursues(j, c)'
    BY <1>2, <1>3, <1>4, <1>5, <1>6 DEF Pursues
  <2> QED  BY <1>2, <2>1 DEF IInv, Pursued
<1> QED  BY <1>9, <1>10, <1>11, <1>12, <1>13, <1>14 DEF IInv

(* Requests and the operator leave the workers alone.                      *)
LEMMA RequestsHeld ==
    ASSUME IInv, UNCHANGED worker, replayed \subseteq replayed', NEW k \in Jobs,
           \A j \in Jobs : j # k => status'[j] = status[j],
           \/ status[k] = "absent"
           \/ k \in replayed' /\ status'[k] # "absent"
    PROVE  Held' /\ OneWorkerPerJob'
<1>1. \A v \in Workers : Job(v)' = Job(v)
  BY DEF Job
<1>2. Held'
  BY <1>1 DEF IInv, Held
<1> QED  BY <1>1, <1>2 DEF IInv, OneWorkerPerJob

(* An edit of c while nobody has a copy of it, or c is put into raced.     *)
LEMMA EditCopies ==
    ASSUME IInv, UNCHANGED <<worker, target>>, NEW c \in Contents,
           raced' = Raced(c),
           \A d \in Contents : d # c => uploads'[d] = uploads[d] /\ titles'[d] = titles[d]
    PROVE  Copies'
<1>1. \A v \in Workers : Target(v)' = Target(v)
  BY DEF Target, Job
<1> SUFFICES ASSUME NEW v \in Workers, worker[v].at \in {"audio", "title", "save"},
                    Target(v) \notin raced'
             PROVE  /\ worker[v].copy.audio = uploads'[Target(v)]
                    /\ worker[v].copy.title = titles'[Target(v)]
  BY <1>1 DEF IInv, Copies
<1>2. Target(v) \in Contents
  BY DEF IInv, Copies
<1>3. Target(v) # c
  <2> SUFFICES ASSUME Target(v) = c  PROVE FALSE
    OBVIOUS
  <2>1. Holds(v, c)
    BY DEF Holds, Target, Job
  <2> QED  BY <2>1 DEF Raced
<1>4. Target(v) \notin raced
  BY DEF Raced
<1> QED  BY <1>2, <1>3, <1>4 DEF IInv, Copies

(* What is pursued stays so while workers and jobs stay as they are. *)
LEMMA RequestsPursue ==
    ASSUME UNCHANGED <<worker, target>>, NEW j \in Jobs, NEW c \in Contents,
           Pursues(j, c), status'[j] \notin {"absent", "completed"}
    PROVE  Pursues(j, c)'
BY DEF Pursues, Job

LEMMA RequestsKeep ==
    ASSUME IInv, UNCHANGED <<worker, status, replayed>>
    PROVE  Held' /\ OneWorkerPerJob'
BY DEF IInv, Held, OneWorkerPerJob, Job

LEMMA NewDocuments ==
    ASSUME IInv, NEW d \in Documents, d \notin stored,
           stored' = stored \cup {d}, due' = due \cup {d},
           UNCHANGED <<doc, spoken, status, target, worker, edits, dropped,
                       replayed, orphans>>
    PROVE  IInv'
<1>1. TypeOK'
  BY DEF IInv, TypeOK, edits
<1>2. Held' /\ OneWorkerPerJob'
  BY RequestsKeep
<1>3. Copies'
  BY DEF IInv, Copies, Target, Job, edits
<1>4. EditsKept' /\ Wav'
  BY DEF IInv, EditsKept, Wav, edits
<1>5. Pursued'
  BY DEF IInv, Pursued, Pursues, Job
<1> QED  BY <1>1, <1>2, <1>3, <1>4, <1>5 DEF IInv

LEMMA UploadInv ==
    ASSUME IInv, NEW c \in Contents, UploadAudio(c)
    PROVE  IInv'
<1> USE DEF UploadAudio
<1>1. /\ uploads' \in [Contents -> Nat] /\ doc' \in [Contents -> Doc]
      /\ doc'[c].audio = uploads'[c] /\ doc'[c].title = doc[c].title
      /\ ~ doc'[c].processed
      /\ \A d \in Contents : d # c => uploads'[d] = uploads[d] /\ doc'[d] = doc[d]
  <2>1. doc \in [Contents -> Doc] /\ uploads \in [Contents -> Nat]
    BY DEF IInv, TypeOK
  <2>2. uploads' \in [Contents -> Nat]
    BY <2>1
  <2>3. \A d \in Contents : d # c => uploads'[d] = uploads[d]
    BY <2>1
  <2>4. uploads'[c] \in Nat /\ doc' = NewAudio(c, uploads'[c])
    BY <2>2
  <2>5. /\ doc' \in [Contents -> Doc]
        /\ doc'[c].audio = uploads'[c] /\ doc'[c].title = doc[c].title
        /\ ~ doc'[c].processed
        /\ \A d \in Contents : d # c => doc'[d] = doc[d]
    <3> DEFINE r == [doc[c] EXCEPT !.audio = uploads'[c], !.wav = FALSE,
                                   !.processed = FALSE]
    <3>1. doc' = [doc EXCEPT ![c] = r]
      BY <2>1, <2>4 DEF NewAudio
    <3>2. /\ r \in Doc /\ r.audio = uploads'[c] /\ r.title = doc[c].title
          /\ r.processed = FALSE
      <4>1. doc[c] \in Doc
        BY <2>1
      <4> QED  BY <2>4, <4>1 DEF Doc
    <3> HIDE DEF r
    <3> QED  BY <2>1, <3>1, <3>2
  <2> QED  BY <2>2, <2>3, <2>5
<1>2. raced' \subseteq Contents /\ raced \subseteq raced'
  BY DEF Raced, IInv, TypeOK
<1>3. TypeOK'
  BY <1>1, <1>2 DEF IInv, TypeOK, Editable
<1>4. Held' /\ OneWorkerPerJob'
  BY RequestsKeep
<1>5. Copies'
  BY <1>1, EditCopies
<1>6. EditsKept' /\ Wav'
  BY <1>1, <1>2 DEF IInv, EditsKept, Wav
<1>7. Pursued'
  <2>1. \A j \in Jobs, d \in Contents : Pursues(j, d) => Pursues(j, d)'
    BY DEF Pursues, Job
  <2> QED  BY <1>1, <2>1 DEF IInv, Pursued
<1> QED  BY <1>3, <1>4, <1>5, <1>6, <1>7 DEF IInv

LEMMA TitleInv ==
    ASSUME IInv, NEW c \in Contents, EditTitle(c)
    PROVE  IInv'
<1> USE DEF EditTitle
<1>1. /\ titles' \in [Contents -> Nat] /\ doc' \in [Contents -> Doc]
      /\ doc'[c].audio = doc[c].audio /\ doc'[c].title = titles'[c]
      /\ doc'[c].processed = doc[c].processed /\ doc'[c].wav = doc[c].wav
      /\ \A d \in Contents : d # c => titles'[d] = titles[d] /\ doc'[d] = doc[d]
  BY DEF IInv, TypeOK, Doc
<1>2. raced' \subseteq Contents /\ raced \subseteq raced'
  BY DEF Raced, IInv, TypeOK
<1>3. TypeOK'
  BY <1>1, <1>2 DEF IInv, TypeOK
<1>4. Held' /\ OneWorkerPerJob'
  BY RequestsKeep
<1>5. Copies'
  BY <1>1, EditCopies
<1>6. EditsKept' /\ Wav'
  BY <1>1, <1>2 DEF IInv, EditsKept, Wav
<1>7. Pursued'
  <2>1. \A j \in Jobs, d \in Contents : Pursues(j, d) => Pursues(j, d)'
    BY DEF Pursues, Job
  <2> QED  BY <1>1, <2>1 DEF IInv, Pursued
<1> QED  BY <1>3, <1>4, <1>5, <1>6, <1>7 DEF IInv

LEMMA OperateInv ==
    ASSUME IInv, NEW j \in Jobs, NEW to \in {"pending", "skipped"}, Operate(j, to)
    PROVE  IInv'
<1> USE DEF Operate
<1>1. /\ status' \in [Jobs -> Statuses] /\ status'[j] = to
      /\ \A i \in Jobs : i # j => status'[i] = status[i]
      /\ UNCHANGED <<stored, doc, spoken, due, dropped, uploads, titles, raced>>
  BY DEF IInv, TypeOK, Statuses, documents, edits
<1>2. TypeOK'
  BY <1>1 DEF IInv, TypeOK
<1>3. Held' /\ OneWorkerPerJob'
  BY <1>1, RequestsHeld
<1>4. Copies'
  BY <1>1 DEF IInv, Copies, Target, Job
<1>5. EditsKept' /\ Wav'
  BY <1>1 DEF IInv, EditsKept, Wav
<1>6. Pursued'
  <2>1. \A i \in Jobs, c \in Contents : Pursues(i, c) => Pursues(i, c)'
    BY <1>1 DEF Pursues, Job
  <2> QED  BY <1>1, <2>1 DEF IInv, Pursued
<1> QED  BY <1>2, <1>3, <1>4, <1>5, <1>6 DEF IInv

(* A new job is one that no worker has, and it stands for its content. *)
LEMMA EnqueueInv ==
    ASSUME IInv, NEW d \in Documents, Enqueue(d)
    PROVE  IInv'
<1> USE DEF Enqueue
<1>1. PICK k \in Unused : /\ status' = [status EXCEPT ![k] = "pending"]
                          /\ target' = [target EXCEPT ![k] = d]
  OBVIOUS
<1>2. k \in Jobs /\ status[k] = "absent"
  BY DEF Unused
<1>3. /\ status' \in [Jobs -> Statuses] /\ status'[k] = "pending"
      /\ \A j \in Jobs : j # k => status'[j] = status[j]
      /\ target' \in [Jobs -> Documents \cup {Nothing}] /\ target'[k] = d
      /\ \A j \in Jobs : j # k => target'[j] = target[j]
  BY <1>1, <1>2 DEF IInv, TypeOK, Statuses
<1>4. \A v \in Workers : Job(v)' = Job(v) /\ Job(v) # k
  BY <1>2, ContentAssumption DEF IInv, Held, Job
<1>5. TypeOK'
  BY <1>3 DEF IInv, TypeOK, edits
<1>6. Held' /\ OneWorkerPerJob'
  BY <1>2, <1>3, RequestsHeld
<1>7. Copies'
  <2>1. \A v \in Workers : worker[v].at # "poll" => Target(v)' = Target(v)
    BY <1>3, <1>4 DEF Target, IInv, Held
  <2> QED  BY <2>1 DEF IInv, Copies, edits
<1>8. EditsKept' /\ Wav'
  BY DEF IInv, EditsKept, Wav, edits
<1>9. Pursued'
  <2>1. \A j \in Jobs, c \in Contents : Pursues(j, c) => Pursues(j, c)'
    BY <1>2, <1>3 DEF Pursues, Job
  <2>2. d \in Contents => Pursues(k, d)'
    BY <1>3, <1>4 DEF Pursues
  <2> QED  BY <1>2, <2>1, <2>2 DEF IInv, Pursued
<1> QED  BY <1>5, <1>6, <1>7, <1>8, <1>9 DEF IInv

LEMMA DropInv ==
    ASSUME IInv, NEW d \in Documents, DropRequest(d)
    PROVE  IInv'
<1> USE DEF DropRequest
<1>1. TypeOK'
  BY DEF IInv, TypeOK, edits
<1>2. Held' /\ OneWorkerPerJob'
  BY RequestsKeep
<1>3. Copies'
  BY DEF IInv, Copies, Target, Job, edits
<1>4. EditsKept' /\ Wav'
  BY DEF IInv, EditsKept, Wav, edits
<1>5. Pursued'
  BY DEF IInv, Pursued, Pursues, Job
<1> QED  BY <1>1, <1>2, <1>3, <1>4, <1>5 DEF IInv

-----------------------------------------------------------------------------
(* The invariant, and the properties that follow from it. *)

LEMMA InitInv == Init => IInv
<1> SUFFICES ASSUME Init PROVE IInv
  OBVIOUS
<1> USE IdleType DEF Init
<1>1. TypeOK
  BY DEF TypeOK, Statuses, Record, Idle, Doc
<1>2. Held /\ OneWorkerPerJob /\ Copies
  BY DEF Held, OneWorkerPerJob, Copies, Job, Idle
<1>3. EditsKept /\ Wav /\ Pursued
  BY DEF EditsKept, Wav, Pursued, NewDoc
<1> QED  BY <1>1, <1>2, <1>3 DEF IInv

LEMMA StutterInv ==
    ASSUME IInv, UNCHANGED vars
    PROVE  IInv'
BY DEF vars, edits, IInv, TypeOK, Held, OneWorkerPerJob, Copies, EditsKept, Wav,
       Pursued, Pursues, Job, Target

LEMMA NextInv ==
    ASSUME IInv, [Next]_vars
    PROVE  IInv'
<1>1. CASE Request
  <2>1. ASSUME NEW c \in Contents, CreateContent(c)  PROVE IInv'
    BY <2>1, NewDocuments DEF CreateContent, Documents
  <2>2. ASSUME NEW q \in Quizzes, CreateQuiz(q)  PROVE IInv'
    BY <2>2, NewDocuments DEF CreateQuiz, Documents
  <2> QED  BY <1>1, <2>1, <2>2, UploadInv, TitleInv, OperateInv DEF Request
<1>2. ASSUME NEW w \in Workers, Work(w) \/ Fault(w)  PROVE IInv'
  BY <1>2, ClaimInv, WorkIsStep, FaultIsStep, StepInv DEF IInv
<1>3. CASE UNCHANGED vars
  BY <1>3, StutterInv
<1> QED  BY <1>1, <1>2, <1>3, EnqueueInv, DropInv DEF Next

(* What TLC checks of two jobs and two workers, for any number of them.    *)
THEOREM ContentJobsInvariant == Spec => []IInv
<1>1. IInv /\ [Next]_vars => IInv'
  BY NextInv
<1> QED  BY InitInv, <1>1, PTL DEF Spec

(* Nothing that was uploaded is taken for done or lost sight of: a content *)
(* that is processed and was not edited under a worker has nothing left in *)
(* mp3, one that is not has a request or a job that is not completed.      *)
THEOREM UploadsConsistent == Spec => []Consistent
<1>1. IInv => Consistent
  BY DEF IInv, Consistent, ProcessedIsWav, Wav, NothingForgotten, Pursued, Pursues
<1> QED  BY ContentJobsInvariant, <1>1, PTL

(* save_processed overwrites only the edits that came in while a worker    *)
(* was between reading the document and saving it.                         *)
THEOREM EditsAreKept == Spec => []EditsKept
<1>1. IInv => EditsKept
  BY DEF IInv
<1> QED  BY ContentJobsInvariant, <1>1, PTL

(* Two workers have one job only after an operator put it back.            *)
THEOREM JobsHaveOneWorker == Spec => []OneWorkerPerJob
<1>1. IInv => OneWorkerPerJob
  BY DEF IInv
<1> QED  BY ContentJobsInvariant, <1>1, PTL

-----------------------------------------------------------------------------
(* The promise of JobLifecycle. *)

LEMMA StageIs ==
    ASSUME NEW j \in Jobs
    PROVE  /\ j \in replayed => StageOf(j) = "reopened"
           /\ j \notin replayed =>
              /\ status[j] = "absent" => StageOf(j) = "absent"
              /\ status[j] = "pending" => StageOf(j) = "waiting"
              /\ status[j] \in {"claimed", "running"} => StageOf(j) = "taken"
              /\ status[j] = "completed" => StageOf(j) = "done"
              /\ status[j] = "failed" => StageOf(j) = "buried"
           /\ StageOf(j) \in Lifecycle!Stages
BY DEF StageOf, Lifecycle!Stages

LEMMA StageIsNext ==
    ASSUME NEW j \in Jobs
    PROVE  /\ j \in replayed' => StageOf(j)' = "reopened"
           /\ j \notin replayed' =>
              /\ status'[j] = "pending" => StageOf(j)' = "waiting"
              /\ status'[j] \in {"claimed", "running"} => StageOf(j)' = "taken"
              /\ status'[j] = "completed" => StageOf(j)' = "done"
              /\ status'[j] = "failed" => StageOf(j)' = "buried"
           /\ StageOf(j)' \in Lifecycle!Stages
BY DEF StageOf, Lifecycle!Stages

(* The moves that JobLifecycle allows from the stage a to the stage b. *)
Allowed(a, b) ==
    \/ b = a
    \/ a = "absent" /\ b = "waiting"
    \/ a = "waiting" /\ b = "taken"
    \/ a = "taken" /\ b = "done"
    \/ a \in {"taken", "done"} /\ b = "buried"
    \/ a \in {"waiting", "taken", "done", "buried"} /\ b = "reopened"

LEMMA SameStage ==
    ASSUME NEW j \in Jobs, status'[j] = status[j], replayed' = replayed
    PROVE  Allowed(StageOf(j), StageOf(j)')
BY DEF Allowed, StageOf

LEMMA StepStage ==
    ASSUME IInv, NEW w \in Workers, Step(w), NEW j \in Jobs
    PROVE  Allowed(StageOf(j), StageOf(j)')
<1>1. /\ replayed' = replayed
      /\ \A i \in Jobs : i # Job(w) => status'[i] = status[i]
      /\ \/ status'[Job(w)] = status[Job(w)]
         \/ worker[w].at = "claimed" /\ status'[Job(w)] = "running"
         \/ worker[w].at = "complete" /\ status'[Job(w)] = "completed"
         \/ worker[w].at \in Burying /\ status'[Job(w)] = "failed"
  BY StepWrites DEF IInv
<1>2. worker[w].at # "poll"
  BY DEF Step
<1>3. CASE status'[j] = status[j]
  BY <1>1, <1>3, SameStage
<1>4. CASE j \in replayed
  BY <1>1, <1>4, StageIs, StageIsNext DEF Allowed
<1>5. CASE status'[j] # status[j] /\ j \notin replayed
  <2>1. j = Job(w)
    BY <1>1, <1>5
  <2>2. CASE worker[w].at = "claimed"
    <3>1. status[j] = "claimed" /\ status'[j] = "running"
      BY <1>1, <1>2, <1>5, <2>1, <2>2 DEF IInv, Held, Burying
    <3> QED  BY <1>1, <1>5, <3>1, StageIs, StageIsNext DEF Allowed
  <2>3. CASE worker[w].at = "complete"
    <3>1. status[j] = "running" /\ status'[j] = "completed"
      BY <1>1, <1>2, <1>5, <2>1, <2>3 DEF IInv, Held, Burying
    <3> QED  BY <1>1, <1>5, <3>1, StageIs, StageIsNext DEF Allowed
  <2>4. CASE worker[w].at \in Burying
    <3>1. /\ status[j] \in {"claimed", "running", "completed"}
          /\ status'[j] = "failed"
      BY <1>1, <1>2, <1>5, <2>1, <2>4 DEF IInv, Held, Burying
    <3> QED  BY <1>1, <1>5, <3>1, StageIs, StageIsNext DEF Allowed
  <2> QED  BY <1>1, <1>5, <2>1, <2>2, <2>3, <2>4
<1> QED  BY <1>3, <1>4, <1>5

LEMMA NextStage ==
    ASSUME IInv, [Next]_vars, NEW j \in Jobs
    PROVE  Allowed(StageOf(j), StageOf(j)')
<1>1. ASSUME NEW w \in Workers, Work(w) \/ Fault(w)
      PROVE  Allowed(StageOf(j), StageOf(j)')
  <2>1. CASE Claim(w)
    <3>1. replayed' = replayed
          /\ \/ status'[j] = status[j]
             \/ status[j] = "pending" /\ status'[j] = "claimed"
      <4>1. PICK k \in Jobs : /\ status[k] = "pending"
                              /\ status' = [status EXCEPT ![k] = "claimed"]
        BY <2>1 DEF Claim
      <4>2. replayed' = replayed
        BY <2>1 DEF Claim
      <4>3. status \in [Jobs -> Statuses]
        BY DEF IInv, TypeOK
      <4>4. CASE j = k
        BY <4>1, <4>2, <4>3, <4>4
      <4>5. CASE j # k
        <5>1. status'[j] = status[j]
          BY <4>1, <4>3, <4>5
        <5> QED  BY <4>2, <5>1
      <4> QED  BY <4>4, <4>5
    <3>2. CASE status'[j] = status[j]
      BY <3>1, <3>2, SameStage
    <3>3. CASE status[j] = "pending" /\ status'[j] = "claimed"
      BY <3>1, <3>3, StageIs, StageIsNext DEF Allowed
    <3> QED  BY <3>1, <3>2, <3>3
  <2>2. CASE ~ Claim(w)
    BY <1>1, <2>2, WorkIsStep, FaultIsStep, StepStage DEF IInv
  <2> QED  BY <2>1, <2>2
<1>2. ASSUME NEW d \in Documents, Enqueue(d)
      PROVE  Allowed(StageOf(j), StageOf(j)')
  <2>1. replayed' = replayed
        /\ \/ status'[j] = status[j]
           \/ status[j] = "absent" /\ status'[j] = "pending"
    <3>1. PICK k \in Unused : status' = [status EXCEPT ![k] = "pending"]
      BY <1>2 DEF Enqueue
    <3>2. replayed' = replayed
      BY <1>2 DEF Enqueue
    <3>3. status \in [Jobs -> Statuses] /\ k \in Jobs /\ status[k] = "absent"
      BY DEF IInv, TypeOK, Unused
    <3>4. CASE j = k
      BY <3>1, <3>2, <3>3, <3>4
    <3>5. CASE j # k
      <4>1. status'[j] = status[j]
        BY <3>1, <3>3, <3>5
      <4> QED  BY <3>2, <4>1
    <3> QED  BY <3>4, <3>5
  <2>2. CASE status'[j] = status[j]
    BY <2>1, <2>2, SameStage
  <2>3. CASE status[j] = "absent" /\ status'[j] = "pending"
    BY <2>1, <2>3, StageIs, StageIsNext DEF Allowed
  <2> QED  BY <2>1, <2>2, <2>3
<1>3. ASSUME NEW i \in Jobs, NEW to \in {"pending", "skipped"}, Operate(i, to)
      PROVE  Allowed(StageOf(j), StageOf(j)')
  <2>1. CASE j = i
    BY <1>3, <2>1, StageIs, StageIsNext DEF Operate, Allowed
  <2>2. CASE j # i
    <3>1. status'[j] = status[j] /\ (j \in replayed' <=> j \in replayed)
      BY <1>3, <2>2 DEF Operate, IInv, TypeOK
    <3> QED  BY <3>1 DEF Allowed, StageOf
  <2> QED  BY <2>1, <2>2
<1>4. CASE UNCHANGED <<status, replayed>>
  BY <1>4, SameStage
<1>5. CASE Request \/ (\E d \in Documents : DropRequest(d)) \/ UNCHANGED vars
  <2>1. (\E i \in Jobs, to \in {"pending", "skipped"} : Operate(i, to))
        \/ UNCHANGED <<status, replayed>>
    BY <1>5 DEF Request, CreateContent, CreateQuiz, UploadAudio, EditTitle,
                DropRequest, vars
  <2> QED  BY <1>3, <1>4, <2>1
<1> QED  BY <1>1, <1>2, <1>5 DEF Next

(* Whatever crashes, errors and time limits do to its worker, a job is     *)
(* taken when it waits, done when it was taken, and stays failed, until an *)
(* operator interferes: every step is a step of JobLifecycle or none.      *)
THEOREM JobsKeepLifecycle == Spec => KeepsLifecycle
<1> DEFINE Stage == [j \in Jobs |-> StageOf(j)]
<1>1. Init => Lifecycle!Init
  BY DEF Init, Lifecycle!Init, StageOf
<1>2. IInv /\ [Next]_vars => [Lifecycle!Next]_Stage
  <2> SUFFICES ASSUME IInv, [Next]_vars  PROVE Lifecycle!Next
    OBVIOUS
  <2>1. Stage' \in [Jobs -> Lifecycle!Stages]
    BY StageIsNext
  <2>2. ASSUME NEW j \in Jobs
        PROVE  \/ Stage'[j] = Stage[j]
               \/ Lifecycle!Submit(j) \/ Lifecycle!Take(j) \/ Lifecycle!Finish(j)
               \/ Lifecycle!Bury(j) \/ Lifecycle!Reopen(j)
    <3>1. Stage[j] = StageOf(j) /\ Stage'[j] = StageOf(j)'
      OBVIOUS
    <3>2. Allowed(StageOf(j), StageOf(j)')
      BY NextStage
    <3> QED  BY <3>1, <3>2 DEF Allowed, Lifecycle!Submit, Lifecycle!Take,
                Lifecycle!Finish, Lifecycle!Bury, Lifecycle!Reopen, Lifecycle!Move
  <2> QED  BY <2>1, <2>2 DEF Lifecycle!Next
<1> QED  BY <1>1, <1>2, ContentJobsInvariant, PTL DEF KeepsLifecycle, Lifecycle!Spec, Spec
=============================================================================
