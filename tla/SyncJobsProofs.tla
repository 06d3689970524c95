--------------------------- MODULE SyncJobsProofs ---------------------------
(***************************************************************************)
(* What the sync jobs keep for any number of courses, jobs, processes,     *)
(* retries, changes and faults.  The inductive invariant has five parts:   *)
(* the types, with the versions a task may carry (Typed); the jobs, their  *)
(* workers, tasks and items (Working); the requests that look for active   *)
(* jobs before they insert one (Asked); the trees and who writes them      *)
(* (Grown); and that nobody works on a job that was not inserted (Present).*)
(***************************************************************************)
EXTENDS SyncJobs, FiniteSetTheorems, TLAPS

Versions == 0..MaxChanges + 1

Typed ==
    /\ TypeOK
    /\ live \in [Courses -> Versions]
    /\ \A t \in tasks : /\ t.version \in Versions
                        /\ t.at \notin {"fetch", "report"} => t.version > 0
    /\ \A j \in Jobs : status[j] \in Active => retries[j] <= MaxRetries
    /\ \A j \in Jobs : status[j] = "absent" => retries[j] = 0
    /\ \A w \in Workers, j \in Jobs : worker[w].seen[j] > 0 => status[j] # "absent"

-----------------------------------------------------------------------------
(* The jobs and whoever works on them. *)

Busy == {"list", "sync", "fail", "fail_again"}

(* What a job's status is at each place of its worker. *)
StatusAt == [list |-> {"running"}, sync |-> {"running"},
             fail |-> {"running", "completed"},
             fail_again |-> {"running", "completed", "failed"}]

(* A job that no process took by mistake has one worker, whose place it    *)
(* shows.                                                                  *)
Holders ==
    /\ \A w \in Workers : worker[w].at \in Busy <=> Job(w) # Nothing
    /\ \A w \in Workers : worker[w].at \in Busy /\ Job(w) \notin touched =>
            status[Job(w)] \in StatusAt[worker[w].at]
    /\ \A v, w \in Workers : v # w /\ Job(v) # Nothing /\ Job(v) = Job(w) =>
            Job(v) \in touched

Clean == Jobs \ (touched \cup stray)

(* The tasks of a job belong to its worker; there is one of each course,   *)
(* and it has not been counted.                                            *)
TasksCounted ==
    /\ \A t \in tasks : t.job \in Clean =>
        /\ worker[t.worker].at = "sync" /\ Job(t.worker) = t.job
        /\ items[t.job][t.course] = 0
    /\ \A t, u \in tasks :
        t.job \in Clean /\ t.job = u.job /\ t.course = u.course => t = u
    /\ ItemsOnce /\ CountsAgree

(* A job that has still to be listed has no items. *)
Fresh ==
    /\ \A j \in Clean : status[j] \in {"absent", "pending"} =>
        \A c \in Courses : items[j][c] = 0
    /\ \A w \in Workers : worker[w].at = "list" /\ Job(w) \in Clean =>
        \A c \in Courses : items[Job(w)][c] = 0

(* What a starting process has read of a job is at most its last try; a    *)
(* job it may put back is still running, with nobody, and its items are    *)
(* gone.                                                                   *)
Interrupted ==
    \A w \in Workers, j \in Jobs \ touched :
        /\ worker[w].seen[j] <= retries[j] + 1
        /\ worker[w].at = "requeue" /\ worker[w].seen[j] = retries[j] + 1 =>
            /\ status[j] = "running" /\ ~Held(j)
            /\ worker[w].seen[j] <= MaxRetries /\ j \notin stray =>
                \A c \in Courses : items[j][c] = 0

Working == Holders /\ TasksCounted /\ Fresh /\ Interrupted

-----------------------------------------------------------------------------
(* The requests: a scope is raced when two of them have looked. *)

Asked ==
    /\ \A s \in raced, t \in Scopes : Same(s, t) => t \in raced
    /\ \A s, t \in Scopes :
        Same(s, t) /\ asked[s] > 0 /\ asked[t] > (IF s = t THEN 1 ELSE 0) => s \in raced
    /\ \A j \in Jobs \ touched, s \in Scopes :
        status[j] \in Active /\ asked[s] > 0 /\ Same(scope[j], s) => s \in raced
    /\ \A j \in Jobs : status[j] # "absent" => scope[j] \in Scopes
    /\ OneActiveSync

-----------------------------------------------------------------------------
(* The trees: of a course that is not torn at most one task has begun to   *)
(* write, and the root tells how far it is.                                *)

Begun(t) == t.at \in {"rest", "prune"}

Grown ==
    /\ \A c \in Courses \ torn :
        \/ tree[c].root = 0 \/ tree[c] = Whole(tree[c].root)
        \/ \E t \in tasks : t.course = c /\ Begun(t)
    /\ \A t \in tasks : Begun(t) /\ t.course \notin torn =>
        /\ \A u \in tasks : u # t /\ u.course = t.course => ~Begun(u)
        /\ tree[t.course].root \in {0, t.version}
        /\ t.at = "prune" /\ tree[t.course].root # 0 =>
            /\ tree[t.course].common = t.version
            /\ t.version \in tree[t.course].own

-----------------------------------------------------------------------------
(* Nobody works on a job that was not inserted. *)
Present == \A w \in Workers : Job(w) # Nothing => status[Job(w)] # "absent"

IInv == Typed /\ Working /\ Asked /\ Grown /\ Present

-----------------------------------------------------------------------------
(* What is counted one by one is finite. *)

LEMMA DocumentsFinite ==
    ASSUME NEW S, IsFiniteSet(S), NEW f \in [S -> Nat]
    PROVE  /\ IsFiniteSet(Documents(f))
           /\ Cardinality(Documents(f)) \in Nat
<1> DEFINE g == [x \in S |-> {x} \X (1..f[x])]
           R == {g[x] : x \in S}
<1>1. g \in Surjection(S, R)
  <2>1. g \in [S -> R]
    OBVIOUS
  <2>2. \A r \in R : \E x \in S : g[x] = r
    OBVIOUS
  <2> QED  BY <2>1, <2>2 DEF Surjection
<1>2. IsFiniteSet(R)
  BY <1>1, FS_Surjection
<1>3. \A r \in R : IsFiniteSet(r)
  <2>1. SUFFICES ASSUME NEW x \in S  PROVE IsFiniteSet({x} \X (1..f[x]))
    OBVIOUS
  <2>2. 1 \in Int /\ f[x] \in Int
    OBVIOUS
  <2>3. IsFiniteSet(1..f[x])
    BY <2>2, FS_Interval
  <2>4. IsFiniteSet({x})
    BY FS_Singleton
  <2> QED  BY <2>3, <2>4, FS_Product
<1>4. Documents(f) = UNION R
  <2>1. DOMAIN f = S
    OBVIOUS
  <2> QED  BY <2>1 DEF Documents
<1>5. IsFiniteSet(Documents(f))
  <2> HIDE DEF R
  <2> QED  BY <1>2, <1>3, <1>4, FS_UNION
<1> QED  BY <1>5, FS_CardinalityType

LEMMA TotalIsNat ==
    ASSUME TypeOK, NEW j \in Jobs
    PROVE  Total(j) \in Nat
<1>1. items[j] \in [Courses -> Nat]
  BY DEF TypeOK
<1> QED  BY <1>1, SyncAssumption, DocumentsFinite DEF Total

LEMMA NothingIsNoJob == Nothing \notin Jobs
BY SyncAssumption

LEMMA JobOf ==
    ASSUME TypeOK, NEW w \in Workers
    PROVE  /\ Job(w) \in Jobs \cup {Nothing}
           /\ Job(w) = worker[w].job
           /\ worker[w].at \in Places
           /\ worker[w].seen \in [Jobs -> 0..MaxRetries + 1]
BY DEF TypeOK, Job

-----------------------------------------------------------------------------
(* The types. *)

Statuses == {"absent"} \cup Active \cup Terminal
Root == [root : Nat, common : Nat, own : SUBSET (1..MaxChanges + 1)]
State == [at : Places, job : Jobs \cup {Nothing},
          seen : [Jobs -> 0..MaxRetries + 1]]

LEMMA IdleType == Idle \in State /\ [Idle EXCEPT !.at = "down"] \in State
                  /\ NoCourse \in Root
<1>1. Unseen \in [Jobs -> 0..MaxRetries + 1]
  BY SyncAssumption DEF Unseen
<1> QED  BY <1>1 DEF Idle, State, Places, NoCourse, Root

LEMMA PublishTyped ==
    ASSUME Typed, NEW c \in Courses, Publish(c) \/ Withdraw(c) \/ DeleteCourse(c)
    PROVE  Typed'
<1>1. changes' \in 0..MaxChanges /\ changes' = changes + 1
  BY SyncAssumption DEF Typed, TypeOK, Publish, Withdraw, DeleteCourse, Changes
<1>2. live' \in [Courses -> Versions]
  BY <1>1, SyncAssumption DEF Typed, TypeOK, Publish, Withdraw, DeleteCourse, Versions
<1>3. live' \in [Courses -> Nat]
  BY <1>2 DEF Versions
<1>4. tree' \in [Courses -> Root]
  BY IdleType DEF Typed, TypeOK, Publish, Withdraw, DeleteCourse, Root
<1>5. UNCHANGED <<torn, job, requests, worker, tasks, faults, marks>>
  BY DEF Publish, Withdraw, DeleteCourse
<1> QED
  BY <1>1, <1>2, <1>3, <1>4, <1>5
  DEF Typed, TypeOK, Root, job, requests, marks

LEMMA AskTyped ==
    ASSUME Typed, NEW s \in Scopes, AskSync(s) \/ CreateJob(s)
    PROVE  Typed'
<1>1. CASE AskSync(s)
  <2>1. asked' \in [Scopes -> Nat] /\ raced' \subseteq Scopes
    BY <1>1 DEF AskSync, Typed, TypeOK
  <2> QED
    BY <1>1, <2>1 DEF AskSync, Typed, TypeOK, catalogue, job, marks
<1>2. CASE CreateJob(s)
  <2>1. PICK j \in Unused : /\ status' = [status EXCEPT ![j] = "pending"]
                            /\ scope' = [scope EXCEPT ![j] = s]
    BY <1>2 DEF CreateJob
  <2>2. j \in Jobs /\ status[j] = "absent" /\ retries[j] = 0
    BY DEF Unused, Typed
  <2>3. asked' \in [Scopes -> Nat]
    BY <1>2 DEF CreateJob, Typed, TypeOK
  <2>4. status' \in [Jobs -> Statuses] /\ scope' \in [Jobs -> Scopes \cup {Nothing}]
    BY <2>1, <2>2 DEF Typed, TypeOK, Statuses, Active
  <2>5. \A i \in Jobs : status'[i] = IF i = j THEN "pending" ELSE status[i]
    BY <2>1, <2>2 DEF Typed, TypeOK
  <2> QED
    BY <1>2, <2>2, <2>3, <2>4, <2>5, SyncAssumption
    DEF CreateJob, Typed, TypeOK, Statuses, Active, catalogue, marks
<1> QED  BY <1>1, <1>2

LEMMA FinishTyped ==
    ASSUME Typed, NEW w \in Workers, NEW s \in Terminal, FinishJob(w, s),
           Job(w) \in Jobs
    PROVE  /\ status' \in [Jobs -> Statuses] /\ scope' \in [Jobs -> Scopes \cup {Nothing}]
           /\ retries' = retries /\ items' = items
           /\ counted' \in [Jobs -> Nat]
           /\ \A j \in Jobs : status'[j] = status[j] \/ status'[j] \in Terminal
<1>1. Total(Job(w)) \in Nat
  BY TotalIsNat DEF Typed
<1> QED  BY <1>1 DEF FinishJob, Typed, TypeOK, Statuses, Terminal

(* Steps of a worker that end no try: its place and its job, its tasks.    *)
LEMMA MovesTyped ==
    ASSUME Typed, NEW w \in Workers, NEW r \in State,
           worker' = [worker EXCEPT ![w] = r],
           \A j \in Jobs : r.seen[j] > 0 => status[j] # "absent",
           status' \in [Jobs -> Statuses], counted' \in [Jobs -> Nat],
           \A j \in Jobs : \/ status'[j] = status[j]
                           \/ status'[j] \in Terminal
                           \/ status[j] = "pending" /\ status'[j] = "running",
           UNCHANGED <<live, tree, changes, scope, retries, items, requests>>,
           tasks' \subseteq Task,
           \A t \in tasks' : t \in tasks \/ (t.at = "fetch" /\ t.version = 0),
           faults' \in 0..MaxFaults, torn' \subseteq Courses,
           stray' \subseteq Jobs, touched' \subseteq Jobs, orphans' \subseteq Jobs
    PROVE  Typed'
<1>1. /\ worker' \in [Workers -> State]
      /\ \A v \in Workers : worker'[v] = IF v = w THEN r ELSE worker[v]
  BY DEF Typed, TypeOK, State
<1>2. TypeOK'
  BY <1>1 DEF Typed, TypeOK, State, Statuses, requests
<1>3. \A t \in tasks' : /\ t.version \in Versions
                        /\ t.at \notin {"fetch", "report"} => t.version > 0
  BY SyncAssumption DEF Typed, Versions
<1>4. \A j \in Jobs : status'[j] \in Active => retries'[j] <= MaxRetries
  BY DEF Typed, Active, Terminal
<1>5. \A j \in Jobs : status'[j] = "absent" => status[j] = "absent"
  BY DEF Terminal
<1> QED  BY <1>1, <1>2, <1>3, <1>4, <1>5 DEF Typed

LEMMA WorkTyped ==
    ASSUME Typed, Holders, NEW w \in Workers, Work(w)
    PROVE  Typed'
<1> USE DEF requests, marks, catalogue
<1>0. worker[w] \in State /\ \A j \in Jobs : worker[w].seen[j] > 0 => status[j] # "absent"
  BY DEF Typed, TypeOK, State
<1>1. CASE Claim(w)
  <2>1. PICK j \in Jobs : /\ status[j] = "pending"
                          /\ status' = [status EXCEPT ![j] = "running"]
                          /\ worker' = [worker EXCEPT ![w].at = "list", ![w].job = j]
    BY <1>1 DEF Claim
  <2> DEFINE r == [worker[w] EXCEPT !.at = "list", !.job = j]
  <2>2. r \in State /\ r.seen = worker[w].seen
    BY <1>0 DEF State, Places
  <2>3. worker' = [worker EXCEPT ![w] = r]
    BY <2>1 DEF Typed, TypeOK
  <2>4. /\ status' \in [Jobs -> Statuses]
        /\ \A i \in Jobs : \/ status'[i] = status[i]
                           \/ status[i] = "pending" /\ status'[i] = "running"
    BY <2>1 DEF Typed, TypeOK, Statuses, Active
  <2>5. UNCHANGED <<catalogue, scope, retries, counted, items, requests, tasks, faults, marks>>
    BY <1>1 DEF Claim
  <2>6. /\ counted' \in [Jobs -> Nat] /\ faults' \in 0..MaxFaults
        /\ torn' \subseteq Courses /\ stray' \subseteq Jobs
        /\ touched' \subseteq Jobs /\ orphans' \subseteq Jobs
        /\ tasks' \subseteq Task /\ tasks' = tasks
    BY <2>5 DEF Typed, TypeOK
  <2> HIDE DEF r
  <2> QED  BY <1>0, <2>2, <2>3, <2>4, <2>5, <2>6, MovesTyped
<1>2. CASE List(w)
  <2>1. PICK place \in {"sync", "fail"} : Goes(w, place)
    BY <1>2 DEF List
  <2> DEFINE r == [worker[w] EXCEPT !.at = place]
  <2>2. r \in State /\ r.seen = worker[w].seen
    BY <1>0 DEF State, Places
  <2>3. worker' = [worker EXCEPT ![w] = r]
    BY <2>1 DEF Typed, TypeOK, Goes
  <2>4. Job(w) \in Jobs
    BY <1>2, JobOf DEF List, Holders, Busy, Typed
  <2>5. /\ tasks' \subseteq Task
        /\ \A t \in tasks' : t \in tasks \/ (t.at = "fetch" /\ t.version = 0)
    <3>1. Wanted(Job(w)) \subseteq Courses
      <4>1. CASE scope[Job(w)] = "all" \/ scope[Job(w)] = "new"
        BY <4>1 DEF Wanted, Listed
      <4>2. CASE scope[Job(w)] # "all" /\ scope[Job(w)] # "new"
        BY <4>2 DEF Wanted, Listed
      <4> QED  BY <4>1, <4>2
    <3>2. \A c \in Courses : [worker |-> w, job |-> Job(w), course |-> c,
                              version |-> 0, at |-> "fetch"] \in Task
      BY <2>4 DEF Task
    <3>3. tasks \subseteq Task
      BY DEF Typed, TypeOK
    <3>4. CASE tasks' = tasks
      BY <3>3, <3>4
    <3>5. CASE tasks' = tasks \cup
                {[worker |-> w, job |-> Job(w), course |-> c, version |-> 0,
                  at |-> "fetch"] : c \in Wanted(Job(w))}
      <4>1. SUFFICES ASSUME NEW t \in tasks', t \notin tasks
                     PROVE  t \in Task /\ t.at = "fetch" /\ t.version = 0
        BY <3>3
      <4>2. PICK c \in Wanted(Job(w)) :
               t = [worker |-> w, job |-> Job(w), course |-> c, version |-> 0,
                    at |-> "fetch"]
        BY <3>5, <4>1
      <4> QED  BY <3>1, <3>2, <4>2
    <3> QED  BY <1>2, <3>4, <3>5 DEF List
  <2>6. UNCHANGED <<catalogue, job, requests, faults, marks>>
    BY <1>2 DEF List
  <2>7. status' \in [Jobs -> Statuses]
    BY <2>6 DEF job, Typed, TypeOK, Statuses
  <2>8. /\ counted' \in [Jobs -> Nat] /\ faults' \in 0..MaxFaults
        /\ torn' \subseteq Courses /\ stray' \subseteq Jobs
        /\ touched' \subseteq Jobs /\ orphans' \subseteq Jobs
    BY <2>6 DEF Typed, TypeOK, job
  <2> HIDE DEF r
  <2> QED  BY <1>0, <2>2, <2>3, <2>5, <2>6, <2>7, <2>8, MovesTyped DEF job
<1>3. CASE Complete(w) \/ Fail(w)
  <2>1. Job(w) \in Jobs
    BY <1>3, JobOf DEF Complete, Fail, Holders, Busy, Typed
  <2>2. PICK s \in Terminal : FinishJob(w, s)
    BY <1>3 DEF Complete, Fail, Terminal
  <2>3. worker' = [worker EXCEPT ![w] = Idle]
    BY <1>3 DEF Complete, Fail, Polls
  <2>4. \A j \in Jobs : ~ (Idle.seen[j] > 0)
    BY DEF Idle, Unseen
  <2>5. UNCHANGED <<catalogue, requests, tasks, faults, marks>>
    BY <1>3 DEF Complete, Fail
  <2>6. /\ status' \in [Jobs -> Statuses] /\ counted' \in [Jobs -> Nat]
        /\ \A j \in Jobs : status'[j] = status[j] \/ status'[j] \in Terminal
        /\ UNCHANGED <<scope, retries, items>>
    BY <2>1, <2>2, FinishTyped DEF FinishJob
  <2>7. /\ faults' \in 0..MaxFaults /\ torn' \subseteq Courses /\ stray' \subseteq Jobs
        /\ touched' \subseteq Jobs /\ orphans' \subseteq Jobs
        /\ tasks' \subseteq Task /\ tasks' = tasks
    BY <2>5 DEF Typed, TypeOK
  <2> QED
    BY <2>3, <2>4, <2>5, <2>6, <2>7, IdleType, MovesTyped
<1> QED  BY <1>1, <1>2, <1>3 DEF Work

LEMMA FaultTyped ==
    ASSUME Typed, Holders, NEW w \in Workers,
           SourceError(w) \/ DatabaseError(w) \/ Crash(w)
    PROVE  Typed'
<1> USE DEF requests, marks, catalogue
<1>0. worker[w] \in State /\ \A j \in Jobs : worker[w].seen[j] > 0 => status[j] # "absent"
  BY DEF Typed, TypeOK, State
<1>1. faults' \in 0..MaxFaults
  BY SyncAssumption DEF SourceError, DatabaseError, Crash, Happens, Typed, TypeOK
<1>2. CASE SourceError(w)
  <2> DEFINE r == [worker[w] EXCEPT !.at = "fail"]
  <2>1. r \in State /\ r.seen = worker[w].seen
    BY <1>0 DEF State, Places
  <2>2. worker' = [worker EXCEPT ![w] = r]
    BY <1>2 DEF SourceError, Goes, Typed, TypeOK
  <2>3. UNCHANGED <<catalogue, job, requests, tasks, marks>>
    BY <1>2 DEF SourceError
  <2>4. /\ counted' \in [Jobs -> Nat] /\ status' \in [Jobs -> Statuses]
        /\ torn' \subseteq Courses /\ stray' \subseteq Jobs
        /\ touched' \subseteq Jobs /\ orphans' \subseteq Jobs
        /\ tasks' \subseteq Task /\ tasks' = tasks
    BY <2>3 DEF Typed, TypeOK, Statuses, job
  <2> HIDE DEF r
  <2> QED  BY <1>0, <1>1, <2>1, <2>2, <2>3, <2>4, MovesTyped DEF job
<1>3. CASE DatabaseError(w)
  <2>1. Job(w) \in Jobs
    BY <1>3, JobOf DEF DatabaseError, Holders, Busy, Typed
  <2>2. /\ status' \in [Jobs -> Statuses] /\ counted' \in [Jobs -> Nat]
        /\ \A j \in Jobs : status'[j] = status[j] \/ status'[j] \in Terminal
        /\ UNCHANGED <<scope, retries, items>>
    <3>1. CASE UNCHANGED job
      BY <3>1 DEF job, Typed, TypeOK, Statuses
    <3>2. ASSUME NEW s \in Terminal, FinishJob(w, s)
          PROVE  /\ status' \in [Jobs -> Statuses] /\ counted' \in [Jobs -> Nat]
                 /\ \A j \in Jobs : status'[j] = status[j] \/ status'[j] \in Terminal
                 /\ UNCHANGED <<scope, retries, items>>
      BY <2>1, <3>2, FinishTyped DEF FinishJob
    <3> QED  BY <1>3, <3>1, <3>2 DEF DatabaseError, Terminal
  <2>3. UNCHANGED <<catalogue, requests, tasks, touched, stray>>
    BY <1>3 DEF DatabaseError
  <2>4. /\ torn' \subseteq Courses /\ stray' \subseteq Jobs /\ touched' \subseteq Jobs
        /\ tasks' \subseteq Task /\ tasks' = tasks
    BY <2>3 DEF Typed, TypeOK
  <2>5. orphans' \subseteq Jobs
    BY <1>3, <2>1 DEF DatabaseError, Typed, TypeOK
  <2>6. PICK r \in State : /\ worker' = [worker EXCEPT ![w] = r]
                           /\ \A j \in Jobs : r.seen[j] > 0 => status[j] # "absent"
    <3>1. CASE worker[w].at = "fail_again"
      <4>1. worker' = [worker EXCEPT ![w] = Idle]
        BY <1>3, <3>1 DEF DatabaseError, Polls
      <4>2. \A j \in Jobs : ~ (Idle.seen[j] > 0)
        BY DEF Idle, Unseen
      <4> QED  BY <4>1, <4>2, IdleType
    <3>2. CASE worker[w].at # "fail_again"
      <4>1. PICK place \in {"fail", "fail_again"} : Goes(w, place)
        BY <1>3, <3>2 DEF DatabaseError
      <4> DEFINE r == [worker[w] EXCEPT !.at = place]
      <4>2. r \in State /\ r.seen = worker[w].seen
        BY <1>0 DEF State, Places
      <4>3. worker' = [worker EXCEPT ![w] = r]
        BY <4>1 DEF Goes, Typed, TypeOK
      <4> HIDE DEF r
      <4> QED  BY <1>0, <4>2, <4>3
    <3> QED  BY <3>1, <3>2
  <2> QED  BY <1>1, <2>2, <2>3, <2>4, <2>5, <2>6, MovesTyped
<1>4. CASE Crash(w)
  <2> DEFINE r == [Idle EXCEPT !.at = "down"]
  <2>1. r \in State /\ \A j \in Jobs : ~ (r.seen[j] > 0)
    BY IdleType DEF Idle, Unseen
  <2>2. worker' = [worker EXCEPT ![w] = r]
    BY <1>4 DEF Crash
  <2>3. UNCHANGED <<live, tree, changes, job, requests, marks>>
    BY <1>4 DEF Crash
  <2>4. /\ counted' \in [Jobs -> Nat] /\ status' \in [Jobs -> Statuses]
        /\ stray' \subseteq Jobs /\ touched' \subseteq Jobs /\ orphans' \subseteq Jobs
    BY <2>3 DEF Typed, TypeOK, Statuses, job
  <2>5. tasks' \subseteq Task /\ tasks' \subseteq tasks /\ torn' \subseteq Courses
    BY <1>4 DEF Crash, Typed, TypeOK, Task
  <2> HIDE DEF r
  <2> QED  BY <1>1, <2>1, <2>2, <2>3, <2>4, <2>5, MovesTyped DEF job
<1> QED  BY <1>2, <1>3, <1>4

LEMMA TasksTyped ==
    ASSUME Typed, tasks' \subseteq Task,
           \A t \in tasks' \ tasks :
                /\ t.version \in Versions
                /\ t.at \notin {"fetch", "report"} => t.version > 0,
           tree' \in [Courses -> Root], torn' \subseteq Courses,
           UNCHANGED <<live, changes, status, scope, retries, counted, requests,
                       touched, orphans>>,
           items' \in [Jobs -> [Courses -> Nat]], stray' \subseteq Jobs,
           faults' \in 0..MaxFaults, worker' \in [Workers -> State],
           \A w \in Workers : worker'[w].seen = worker[w].seen
    PROVE  Typed'
<1>1. TypeOK'
  BY DEF Typed, TypeOK, Root, State, requests
<1> QED  BY <1>1 DEF Typed

LEMMA TaskOf ==
    ASSUME Typed, NEW t \in tasks
    PROVE  /\ t \in Task
           /\ t.worker \in Workers /\ t.job \in Jobs /\ t.course \in Courses
           /\ t.version \in Versions
           /\ t.at \in {"fetch", "compare", "first", "rest", "prune", "report"}
           /\ t.at \notin {"fetch", "report"} => t.version > 0
BY DEF Typed, TypeOK, Task

LEMMA UpsertTyped ==
    ASSUME Typed, NEW t \in tasks, Writing(t), UpsertStep(t)
    PROVE  tree' \in [Courses -> Root]
<1>1. t.version \in 1..MaxChanges + 1 /\ t.version \in Nat /\ t.course \in Courses
  BY TaskOf, SyncAssumption DEF Writing, Versions
<1>2. tree[t.course] \in Root /\ tree \in [Courses -> Root]
  BY <1>1 DEF Typed, TypeOK, Root
<1>3. Upserted(tree[t.course], t) \in Root
  BY <1>1, <1>2 DEF Root, Upserted, Writing
<1> QED  BY <1>1, <1>2, <1>3 DEF UpsertStep

LEMMA CopyTyped ==
    ASSUME Typed, NEW t \in tasks, Copy(t) \/ CourseFails(t) \/ ReportFails(t)
    PROVE  Typed'
<1> USE DEF requests, marks, catalogue
<1>0. /\ tasks \subseteq Task /\ tree \in [Courses -> Root] /\ torn \subseteq Courses
      /\ worker \in [Workers -> State] /\ items \in [Jobs -> [Courses -> Nat]]
      /\ stray \subseteq Jobs /\ faults \in 0..MaxFaults
  BY DEF Typed, TypeOK, Root, State
<1>1. t \in Task
  BY <1>0
<1>2. \A place \in {"compare", "first", "rest", "prune", "report"} :
        Becomes(t, place) /\ (place # "report" => t.version > 0) =>
          /\ tasks' \subseteq Task
          /\ \A u \in tasks' \ tasks : /\ u.version \in Versions
                                       /\ u.at \notin {"fetch", "report"} => u.version > 0
  <2>1. \A place \in {"compare", "first", "rest", "prune", "report"} :
           LET u == [t EXCEPT !.at = place]
           IN  u \in Task /\ u.version = t.version /\ u.at = place
    BY <1>0 DEF Task
  <2> QED  BY <1>0, <2>1, TaskOf DEF Becomes
<1>3. CASE Fetch(t)
  <2>1. /\ tasks' \subseteq Task
        /\ \A u \in tasks' \ tasks : /\ u.version \in Versions
                                     /\ u.at \notin {"fetch", "report"} => u.version > 0
    <3>1. CASE Becomes(t, "report")
      BY <1>2, <3>1
    <3>2. CASE live[t.course] # 0 /\ tasks' = (tasks \ {t}) \cup
                {[t EXCEPT !.at = "compare", !.version = live[t.course]]}
      <4>1. live[t.course] \in Versions /\ live[t.course] > 0
        BY <3>2, TaskOf DEF Typed, Versions
      <4> DEFINE u == [t EXCEPT !.at = "compare", !.version = live[t.course]]
      <4>2. u \in Task /\ u.version = live[t.course] /\ u.at = "compare"
        <5>1. live[t.course] \in Nat
          BY <4>1, SyncAssumption DEF Versions
        <5> QED  BY <1>1, <5>1 DEF Task
      <4>3. tasks' \subseteq tasks \cup {u}
        BY <3>2
      <4> HIDE DEF u
      <4> QED  BY <1>0, <4>1, <4>2, <4>3
    <3> QED  BY <1>3, <3>1, <3>2 DEF Fetch
  <2> QED
    BY <1>0, <1>3, <2>1, TasksTyped DEF Fetch, TaskOnly, job
<1>4. CASE Compare(t)
  <2>1. t.version > 0
    BY <1>4, TaskOf DEF Compare
  <2>2. /\ tasks' \subseteq Task
        /\ \A u \in tasks' \ tasks : /\ u.version \in Versions
                                     /\ u.at \notin {"fetch", "report"} => u.version > 0
    BY <1>2, <1>4, <2>1 DEF Compare
  <2> QED
    BY <1>0, <1>4, <2>2, TasksTyped DEF Compare, TaskOnly, job
<1>5. CASE UpsertTree(t)
  <2>1. t.version > 0 /\ Following[t.at] \in {"rest", "prune", "report"}
    BY <1>5, TaskOf DEF UpsertTree, Writing, Following
  <2>2. /\ tasks' \subseteq Task
        /\ \A u \in tasks' \ tasks : /\ u.version \in Versions
                                     /\ u.at \notin {"fetch", "report"} => u.version > 0
    BY <1>2, <1>5, <2>1 DEF UpsertTree
  <2>3. tree' \in [Courses -> Root]
    BY <1>5, UpsertTyped DEF UpsertTree
  <2>4. torn' \subseteq Courses
    BY <1>0, <1>5, TaskOf DEF UpsertTree
  <2> QED
    BY <1>0, <1>5, <2>2, <2>3, <2>4, TasksTyped DEF UpsertTree, TaskOnly, job
<1>6. CASE CourseFails(t)
  <2>1. /\ tasks' \subseteq Task
        /\ \A u \in tasks' \ tasks : /\ u.version \in Versions
                                     /\ u.at \notin {"fetch", "report"} => u.version > 0
    BY <1>2, <1>6 DEF CourseFails
  <2>2. tree' \in [Courses -> Root]
    BY <1>0, <1>6, UpsertTyped DEF CourseFails
  <2>3. torn' \subseteq Courses
    BY <1>0, <1>6, TaskOf DEF CourseFails
  <2>4. faults' \in 0..MaxFaults
    BY <1>0, <1>6, SyncAssumption DEF CourseFails, Happens
  <2> QED
    BY <1>0, <1>6, <2>1, <2>2, <2>3, <2>4, TasksTyped DEF CourseFails, job
<1>7. CASE Report(t)
  <2>1. items' \in [Jobs -> [Courses -> Nat]]
    BY <1>0, <1>7, TaskOf DEF Report, RecordItem
  <2> QED
    BY <1>0, <1>7, <2>1, TasksTyped DEF Report
<1>8. CASE ReportFails(t)
  <2>1. /\ worker' \in [Workers -> State]
        /\ \A w \in Workers : worker'[w].seen = worker[w].seen
    <3>1. CASE UNCHANGED worker
      BY <1>0, <3>1
    <3>2. CASE Goes(t.worker, "fail")
      <4> DEFINE r == [worker[t.worker] EXCEPT !.at = "fail"]
      <4>1. r \in State /\ r.seen = worker[t.worker].seen
        <5>1. worker[t.worker] \in State
          BY <1>0, TaskOf
        <5> QED  BY <5>1 DEF State, Places
      <4>2. worker' = [worker EXCEPT ![t.worker] = r]
        BY <1>0, <3>2 DEF Goes
      <4> HIDE DEF r
      <4> QED  BY <1>0, <4>1, <4>2
    <3> QED  BY <1>8, <3>1, <3>2 DEF ReportFails
  <2>2. stray' \subseteq Jobs /\ faults' \in 0..MaxFaults
    BY <1>0, <1>8, TaskOf, SyncAssumption DEF ReportFails, Happens
  <2> QED
    BY <1>0, <1>8, <2>1, <2>2, TasksTyped DEF ReportFails, job
<1> QED  BY <1>3, <1>4, <1>5, <1>6, <1>7, <1>8 DEF Copy

LEMMA MistakenJobs ==
    ASSUME Typed, NEW w \in Workers
    PROVE  /\ Requeued(w) \subseteq Jobs /\ GivenUp(w) \subseteq Jobs
           /\ Mistaken(w) \subseteq Requeued(w) \cup GivenUp(w)
           /\ \A j \in Requeued(w) \cup GivenUp(w) :
                 worker[w].seen[j] > 0 /\ status[j] # "absent"
           /\ \A j \in Jobs \ (Requeued(w) \cup GivenUp(w)) : worker[w].seen[j] = 0
           /\ \A j \in Requeued(w) : worker[w].seen[j] \in 1..MaxRetries
           /\ \A j \in GivenUp(w) : worker[w].seen[j] = MaxRetries + 1
<1>1. \A j \in Jobs : worker[w].seen[j] \in 0..MaxRetries + 1
  BY JobOf DEF Typed
<1> QED  BY <1>1, SyncAssumption DEF Typed, Requeued, GivenUp, Mistaken

LEMMA ReconcileTyped ==
    ASSUME Typed, NEW w \in Workers, Reconcile(w)
    PROVE  Typed'
<1> USE DEF requests, marks, catalogue
<1>0. /\ worker \in [Workers -> State] /\ worker[w] \in State
      /\ \A v \in Workers, j \in Jobs : worker[v].seen[j] > 0 => status[j] # "absent"
  BY DEF Typed, TypeOK, State
<1>1. CASE FindInterrupted(w)
  <2> DEFINE g == [j \in Jobs |-> IF status[j] = "running" THEN retries[j] + 1 ELSE 0]
             r == [at |-> "purge", job |-> Nothing, seen |-> g]
  <2>1. \A j \in Jobs : g[j] \in 0..MaxRetries + 1 /\ (g[j] > 0 => status[j] # "absent")
    BY SyncAssumption DEF Typed, TypeOK, Active
  <2>2. g \in [Jobs -> 0..MaxRetries + 1]
    BY <2>1
  <2>3. worker' = [worker EXCEPT ![w] = r]
    BY <1>1 DEF FindInterrupted
  <2> HIDE DEF g
  <2>4. r \in State /\ r.seen = g
    BY <2>2 DEF State, Places
  <2>5. UNCHANGED <<catalogue, job, requests, tasks, faults, marks>>
    BY <1>1 DEF FindInterrupted
  <2>6. /\ counted' \in [Jobs -> Nat] /\ status' \in [Jobs -> Statuses]
        /\ torn' \subseteq Courses /\ stray' \subseteq Jobs
        /\ touched' \subseteq Jobs /\ orphans' \subseteq Jobs
        /\ tasks' \subseteq Task /\ tasks' = tasks /\ faults' \in 0..MaxFaults
    BY <2>5 DEF Typed, TypeOK, Statuses, job
  <2> HIDE DEF r
  <2> QED  BY <1>0, <2>1, <2>3, <2>4, <2>5, <2>6, MovesTyped DEF job
<1>2. CASE PurgeItems(w)
  <2> DEFINE r == [worker[w] EXCEPT !.at = "requeue"]
  <2>1. r \in State /\ r.seen = worker[w].seen
    BY <1>0 DEF State, Places
  <2>2. worker' = [worker EXCEPT ![w] = r]
    BY <1>0, <1>2 DEF PurgeItems, Goes
  <2> HIDE DEF r
  <2>3. worker' \in [Workers -> State]
        /\ \A v \in Workers : worker'[v].seen = worker[v].seen
    BY <1>0, <2>1, <2>2
  <2>4. items' \in [Jobs -> [Courses -> Nat]]
    BY <1>2 DEF PurgeItems, Typed, TypeOK
  <2>5. touched' \subseteq Jobs
    BY <1>2, MistakenJobs DEF PurgeItems, Typed, TypeOK
  <2>6. UNCHANGED <<catalogue, status, scope, retries, counted, requests,
                   tasks, faults, stray, orphans>>
    BY <1>2 DEF PurgeItems
  <2>7. TypeOK'
    BY <2>3, <2>4, <2>5, <2>6 DEF Typed, TypeOK, State
  <2> QED  BY <2>3, <2>6, <2>7 DEF Typed
<1>3. CASE Requeue(w)
  <2>1. /\ worker' \in [Workers -> State]
        /\ worker'[w] = Idle /\ \A v \in Workers \ {w} : worker'[v] = worker[v]
    BY <1>0, <1>3, IdleType DEF Requeue, Polls
  <2>2. UNCHANGED <<catalogue, scope, counted, items, requests, tasks, faults, stray>>
    BY <1>3 DEF Requeue
  <2>3. \A j \in Jobs :
          /\ j \in Requeued(w) => /\ status'[j] = "pending"
                                  /\ retries'[j] = worker[w].seen[j]
          /\ j \in GivenUp(w) => /\ status'[j] = "failed"
                                 /\ retries'[j] = worker[w].seen[j]
          /\ j \notin Requeued(w) \cup GivenUp(w) =>
                /\ status'[j] = status[j]
                /\ retries'[j] = retries[j]
    <3>1. \A j \in GivenUp(w) : j \notin Requeued(w)
      BY MistakenJobs, SyncAssumption
    <3> QED  BY <1>3, <3>1 DEF Requeue, Reconciled
  <2>4. status' \in [Jobs -> Statuses] /\ retries' \in [Jobs -> 0..MaxRetries + 1]
    <3>1. \A j \in Jobs : status'[j] \in Statuses
      BY <2>3 DEF Typed, TypeOK, Statuses, Active, Terminal
    <3>2. \A j \in Jobs : retries'[j] \in 0..MaxRetries + 1
      BY <2>3, MistakenJobs, SyncAssumption DEF Typed, TypeOK
    <3> QED  BY <1>3, <3>1, <3>2 DEF Requeue, Reconciled
  <2>5. touched' \subseteq Jobs /\ orphans' \subseteq Jobs
    BY <1>3, MistakenJobs DEF Requeue, Typed, TypeOK
  <2>6. TypeOK'
    BY <2>1, <2>2, <2>4, <2>5 DEF Typed, TypeOK, State, Statuses
  <2>7. \A j \in Jobs : status'[j] \in Active => retries'[j] <= MaxRetries
    BY <2>3, MistakenJobs DEF Typed, Active
  <2>8. \A j \in Jobs : status'[j] = "absent" => retries'[j] = 0 /\ status[j] = "absent"
    BY <2>3, MistakenJobs DEF Typed
  <2>9. \A v \in Workers, j \in Jobs : worker'[v].seen[j] > 0 => status'[j] # "absent"
    <3>1. \A j \in Jobs : ~ (Idle.seen[j] > 0)
      BY DEF Idle, Unseen
    <3> QED  BY <1>0, <2>1, <2>8, <3>1
  <2> QED  BY <2>2, <2>6, <2>7, <2>8, <2>9 DEF Typed
<1> QED  BY <1>1, <1>2, <1>3 DEF Reconcile

-----------------------------------------------------------------------------
(* The requests. *)

LEMMA SameScopes ==
    /\ \A s, t : Same(s, t) => Same(t, s)
    /\ \A s, t, u : Same(s, t) /\ Same(t, u) => Same(s, u)
    /\ \A s : Same(s, s)
BY DEF Same

(* Steps that make no job active, but jobs taken by mistake. *)
LEMMA AskedKept ==
    ASSUME Asked, UNCHANGED <<asked, raced, scope>>, touched \subseteq touched',
           \A j \in Jobs \ touched' : status'[j] \in Active => status[j] \in Active,
           \A j \in Jobs : status'[j] # "absent" => status[j] # "absent"
    PROVE  Asked'
<1>1. OneActiveSync'
  <2> SUFFICES ASSUME NEW i \in Jobs \ touched', NEW j \in Jobs \ touched', i # j,
                      {status'[i], status'[j]} \subseteq Active,
                      Same(scope[i], scope[j])
               PROVE  scope[i] \in raced
    BY DEF OneActiveSync
  <2>1. i \in Jobs \ touched /\ j \in Jobs \ touched
    OBVIOUS
  <2>2. status[i] \in Active /\ status[j] \in Active
    OBVIOUS
  <2> QED  BY <2>1, <2>2 DEF Asked, OneActiveSync
<1> QED  BY <1>1 DEF Asked

LEMMA AskAsked ==
    ASSUME Typed, Asked, NEW s \in Scopes, AskSync(s)
    PROVE  Asked'
<1> USE DEF requests, marks, catalogue, job
<1>1. asked \in [Scopes -> Nat] /\ raced \subseteq Scopes
  BY DEF Typed, TypeOK
<1>2. /\ asked' = [asked EXCEPT ![s] = @ + 1]
      /\ UNCHANGED <<status, scope, touched>>
      /\ raced' = IF Asking(s) THEN raced \cup {t \in Scopes : Same(s, t)} ELSE raced
      /\ raced \subseteq raced'
  BY DEF AskSync
<1>3. \A t \in Scopes : asked'[t] = IF t = s THEN asked[t] + 1 ELSE asked[t]
  BY <1>1, <1>2
<1>4. \A t \in raced', u \in Scopes : Same(t, u) => u \in raced'
  BY <1>1, <1>2, SameScopes DEF Asked
<1>5. ASSUME NEW t \in Scopes, NEW u \in Scopes, Same(t, u), asked'[t] > 0,
             asked'[u] > (IF t = u THEN 1 ELSE 0)
      PROVE  t \in raced'
  <2>1. CASE t # s /\ u # s
    BY <1>2, <1>3, <1>5, <2>1 DEF Asked
  <2>2. CASE t = s /\ u = s
    <3>1. asked[s] > 0
      BY <1>1, <1>3, <1>5, <2>2
    <3>2. Asking(s)
      BY <3>1, SameScopes DEF Asking
    <3> QED  BY <1>2, <2>2, <3>2, SameScopes
  <2>3. CASE t # s /\ u = s
    <3>1. asked[t] > 0 /\ Same(s, t)
      BY <1>3, <1>5, <2>3, SameScopes
    <3>2. Asking(s)
      BY <3>1 DEF Asking
    <3> QED  BY <1>2, <3>1, <3>2
  <2>4. CASE t = s /\ u # s
    <3>1. asked[u] > 0 /\ Same(s, u)
      BY <1>3, <1>5, <2>4
    <3>2. Asking(s)
      BY <3>1 DEF Asking
    <3> QED  BY <1>2, <2>4, <3>2, SameScopes
  <2> QED  BY <2>1, <2>2, <2>3, <2>4
<1>6. ASSUME NEW j \in Jobs \ touched, NEW t \in Scopes, status[j] \in Active,
             asked'[t] > 0, Same(scope[j], t)
      PROVE  t \in raced'
  <2>1. t # s
    BY <1>6 DEF AskSync, ActiveSync
  <2> QED  BY <1>2, <1>3, <1>6, <2>1 DEF Asked
<1>7. OneActiveSync'
  BY <1>2 DEF Asked, OneActiveSync
<1> QED  BY <1>2, <1>4, <1>5, <1>6, <1>7 DEF Asked

LEMMA CreateAsked ==
    ASSUME Typed, Asked, NEW s \in Scopes, CreateJob(s)
    PROVE  Asked'
<1> USE DEF requests, marks, catalogue, job
<1>0. PICK k \in Unused : /\ status' = [status EXCEPT ![k] = "pending"]
                          /\ scope' = [scope EXCEPT ![k] = s]
  BY DEF CreateJob
<1>1. /\ asked \in [Scopes -> Nat] /\ raced \subseteq Scopes
      /\ status \in [Jobs -> Statuses] /\ scope \in [Jobs -> Scopes \cup {Nothing}]
      /\ k \in Jobs /\ status[k] = "absent"
  BY DEF Typed, TypeOK, Statuses, Unused
<1>2. /\ asked[s] > 0
      /\ asked' = [asked EXCEPT ![s] = @ - 1]
      /\ UNCHANGED <<raced, touched>>
  BY DEF CreateJob
<1>3. \A t \in Scopes : asked'[t] = IF t = s THEN asked[t] - 1 ELSE asked[t]
  BY <1>1, <1>2
<1>4. /\ \A j \in Jobs : status'[j] = IF j = k THEN "pending" ELSE status[j]
      /\ \A j \in Jobs : scope'[j] = IF j = k THEN s ELSE scope[j]
  BY <1>0, <1>1
<1>5. ASSUME NEW t \in Scopes, NEW u \in Scopes, Same(t, u), asked'[t] > 0,
             asked'[u] > (IF t = u THEN 1 ELSE 0)
      PROVE  t \in raced
  <2>1. asked[t] \in Nat /\ asked[u] \in Nat
    BY <1>1
  <2>2. asked[t] > 0 /\ asked[u] > (IF t = u THEN 1 ELSE 0)
    BY <1>3, <1>5, <2>1
  <2> QED  BY <1>5, <2>2 DEF Asked
<1>6. \A t \in Scopes : asked'[t] > 0 /\ Same(s, t) => t \in raced
  <2> SUFFICES ASSUME NEW t \in Scopes, asked'[t] > 0, Same(s, t)
               PROVE  t \in raced
    OBVIOUS
  <2>1. Same(t, s)
    BY SameScopes
  <2>2. CASE t = s
    <3>1. asked[s] > 1
      BY <1>1, <1>3, <2>2
    <3> QED  BY <1>2, <2>1, <2>2, <3>1 DEF Asked
  <2>3. CASE t # s
    <3>1. asked[t] > 0
      BY <1>1, <1>3, <2>3
    <3> QED  BY <1>2, <2>1, <2>3, <3>1 DEF Asked
  <2> QED  BY <2>2, <2>3
<1>7. ASSUME NEW j \in Jobs \ touched, NEW t \in Scopes, status'[j] \in Active,
             asked'[t] > 0, Same(scope'[j], t)
      PROVE  t \in raced
  <2>1. CASE j = k
    BY <1>4, <1>6, <1>7, <2>1
  <2>2. CASE j # k
    <3>1. asked[t] > 0
      BY <1>1, <1>2, <1>3, <1>7
    <3> QED  BY <1>4, <1>7, <2>2, <3>1 DEF Asked
  <2> QED  BY <2>1, <2>2
<1>8. \A j \in Jobs : status'[j] # "absent" => scope'[j] \in Scopes
  BY <1>4 DEF Asked
<1>9. \A j \in Jobs \ touched :
        j # k /\ status[j] \in Active /\ Same(scope[j], s) =>
            s \in raced /\ scope[j] \in raced
  <2> SUFFICES ASSUME NEW j \in Jobs \ touched, j # k, status[j] \in Active,
                      Same(scope[j], s)
               PROVE  s \in raced /\ scope[j] \in raced
    OBVIOUS
  <2>1. s \in raced
    BY <1>2 DEF Asked
  <2>2. scope[j] \in Scopes /\ Same(s, scope[j])
    BY SameScopes DEF Asked, Active
  <2> QED  BY <2>1, <2>2 DEF Asked
<1>10. OneActiveSync'
  <2> SUFFICES ASSUME NEW i \in Jobs \ touched, NEW j \in Jobs \ touched, i # j,
                      {status'[i], status'[j]} \subseteq Active,
                      Same(scope'[i], scope'[j])
               PROVE  scope'[i] \in raced
    BY <1>2 DEF OneActiveSync
  <2>1. CASE i # k /\ j # k
    BY <1>4, <2>1 DEF Asked, OneActiveSync
  <2>2. CASE i = k
    <3>1. scope'[i] = s /\ status[j] \in Active /\ Same(scope[j], s)
      BY <1>4, <2>2, SameScopes
    <3> QED  BY <1>9, <2>2, <3>1
  <2>3. CASE j = k
    <3>1. scope'[i] = scope[i] /\ status[i] \in Active /\ Same(scope[i], s)
      BY <1>4, <2>3
    <3> QED  BY <1>9, <2>3, <3>1
  <2> QED  BY <2>1, <2>2, <2>3
<1> QED  BY <1>2, <1>5, <1>7, <1>8, <1>10 DEF Asked

-----------------------------------------------------------------------------
(* The trees. *)

LEMMA GrownKept ==
    ASSUME Grown, UNCHANGED <<tree, torn>>,
           \A t \in tasks : Begun(t) => t \in tasks',
           \A t \in tasks' : Begun(t) => t \in tasks
    PROVE  Grown'
<1>1. \A c \in Courses \ torn :
        \/ tree[c].root = 0 \/ tree[c] = Whole(tree[c].root)
        \/ \E t \in tasks' : t.course = c /\ Begun(t)
  BY DEF Grown
<1>2. \A t \in tasks' : Begun(t) /\ t.course \notin torn =>
        /\ \A u \in tasks' : u # t /\ u.course = t.course => ~Begun(u)
        /\ tree[t.course].root \in {0, t.version}
        /\ t.at = "prune" /\ tree[t.course].root # 0 =>
            /\ tree[t.course].common = t.version
            /\ t.version \in tree[t.course].own
  BY DEF Grown
<1> QED  BY <1>1, <1>2 DEF Grown

LEMMA DeleteGrown ==
    ASSUME Typed, Grown, NEW c \in Courses, DeleteCourse(c)
    PROVE  Grown'
<1>1. /\ tree' = [tree EXCEPT ![c] = NoCourse] /\ UNCHANGED <<torn, tasks>>
      /\ tree \in [Courses -> Root] /\ NoCourse.root = 0
  BY DEF DeleteCourse, Typed, TypeOK, Root, NoCourse
<1>2. \A d \in Courses : tree'[d] = IF d = c THEN NoCourse ELSE tree[d]
  BY <1>1
<1>3. \A t \in tasks : t.course \in Courses
  BY TaskOf
<1> QED  BY <1>1, <1>2, <1>3 DEF Grown

LEMMA CrashGrown ==
    ASSUME Typed, Grown, NEW w \in Workers, Crash(w)
    PROVE  Grown'
<1>1. /\ UNCHANGED tree
      /\ tasks' = {t \in tasks : t.worker # w}
      /\ torn' = torn \cup {t.course : t \in {u \in tasks : u.worker = w /\ Writing(u)}}
  BY DEF Crash
<1>2. \A t \in tasks : Begun(t) /\ t.course \notin torn' =>
            t.course \notin torn /\ t \in tasks'
  BY <1>1 DEF Begun, Writing
<1>3. \A c \in Courses \ torn' :
        \/ tree[c].root = 0 \/ tree[c] = Whole(tree[c].root)
        \/ \E t \in tasks' : t.course = c /\ Begun(t)
  <2> SUFFICES ASSUME NEW c \in Courses \ torn',
                      tree[c].root # 0, tree[c] # Whole(tree[c].root)
               PROVE  \E t \in tasks' : t.course = c /\ Begun(t)
    OBVIOUS
  <2>1. PICK t \in tasks : t.course = c /\ Begun(t)
    BY <1>1 DEF Grown
  <2> QED  BY <1>2, <2>1
<1>4. \A t \in tasks' : Begun(t) /\ t.course \notin torn' =>
        /\ \A u \in tasks' : u # t /\ u.course = t.course => ~Begun(u)
        /\ tree[t.course].root \in {0, t.version}
        /\ t.at = "prune" /\ tree[t.course].root # 0 =>
            /\ tree[t.course].common = t.version
            /\ t.version \in tree[t.course].own
  <2>1. tasks' \subseteq tasks /\ torn \subseteq torn'
    BY <1>1
  <2> QED  BY <2>1 DEF Grown
<1> QED  BY <1>1, <1>3, <1>4 DEF Grown

(* What a step of upsert_tree makes of the course it writes. *)
LEMMA UpsertedIs ==
    ASSUME Typed, NEW t \in tasks, Writing(t), UpsertStep(t)
    PROVE  LET n == tree[t.course]  m == tree'[t.course]
           IN  /\ n \in Root /\ m \in Root
               /\ t.at = "first" => /\ m.root = t.version
               /\ t.at = "rest" => /\ m.root = n.root /\ m.common = t.version
                                   /\ t.version \in m.own
               /\ t.at = "prune" => /\ m.root = n.root /\ m.common = n.common
                                    /\ m.own = n.own \cap {t.version}
               /\ \A c \in Courses \ {t.course} : tree'[c] = tree[c]
<1>1. tree \in [Courses -> Root] /\ tree' \in [Courses -> Root] /\ t.course \in Courses
  BY UpsertTyped, TaskOf DEF Typed, TypeOK, Root
<1>2. /\ tree'[t.course] = Upserted(tree[t.course], t)
      /\ \A c \in Courses \ {t.course} : tree'[c] = tree[c]
  BY <1>1 DEF UpsertStep
<1>3. tree[t.course] \in Root
  BY <1>1
<1>4. CASE t.at = "first"
  BY <1>1, <1>2, <1>3, <1>4 DEF Upserted, Root
<1>5. CASE t.at = "rest"
  <2>1. tree'[t.course] = [tree[t.course] EXCEPT
                            !.common = t.version,
                            !.own = tree[t.course].own \cup {t.version}]
    BY <1>2, <1>5 DEF Upserted
  <2>2. /\ tree'[t.course].root = tree[t.course].root
        /\ tree'[t.course].common = t.version
        /\ tree'[t.course].own = tree[t.course].own \cup {t.version}
    BY <1>3, <2>1 DEF Root
  <2> QED  BY <1>1, <1>2, <1>3, <1>5, <2>2
<1>6. CASE t.at = "prune"
  BY <1>1, <1>2, <1>3, <1>6 DEF Upserted, Root
<1> QED  BY <1>4, <1>5, <1>6 DEF Writing

LEMMA UpsertGrown ==
    ASSUME Typed, Grown, NEW t \in tasks, UpsertTree(t)
    PROVE  Grown'
<1> DEFINE c == t.course
           u == [t EXCEPT !.at = Following[t.at]]
<1>1. Writing(t) /\ UpsertStep(t) /\ tasks' = (tasks \ {t}) \cup {u}
  BY DEF UpsertTree, Becomes
<1>2. /\ c \in Courses /\ t.version > 0 /\ t.version \in Nat
      /\ t.at \in {"first", "rest", "prune"}
  BY <1>1, TaskOf, SyncAssumption DEF Writing, Versions
<1>3. /\ u.course = c /\ u.version = t.version
      /\ t.at = "first" => u.at = "rest"
      /\ t.at = "rest" => u.at = "prune"
      /\ t.at = "prune" => u.at = "report"
  <2>1. t \in Task
    BY TaskOf
  <2> QED  BY <1>2, <2>1 DEF Task, Following
<1>4. \A d \in Courses \ {c} : tree'[d] = tree[d] /\ (d \in torn' <=> d \in torn)
  BY <1>1, UpsertedIs DEF UpsertTree
<1>5. c \notin torn' =>
        /\ \A v \in tasks \ {t} : v.course = c => ~Writing(v)
        /\ c \in torn => tree'[c] = Whole(t.version)
  BY DEF UpsertTree, Meets
<1> HIDE DEF u
<1>6. c \notin torn' =>
        \A v \in tasks' : v.course = c /\ Begun(v) => v = u
  BY <1>1, <1>5 DEF Begun, Writing
<1>7. c \notin torn' =>
        /\ Begun(u) => /\ tree'[c].root \in {0, u.version}
                       /\ u.at = "prune" /\ tree'[c].root # 0 =>
                            /\ tree'[c].common = u.version
                            /\ u.version \in tree'[c].own
        /\ ~Begun(u) => tree'[c].root = 0 \/ tree'[c] = Whole(tree'[c].root)
  <2> SUFFICES ASSUME c \notin torn'
               PROVE  /\ Begun(u) =>
                           /\ tree'[c].root \in {0, u.version}
                           /\ u.at = "prune" /\ tree'[c].root # 0 =>
                                /\ tree'[c].common = u.version
                                /\ u.version \in tree'[c].own
                      /\ ~Begun(u) => tree'[c].root = 0 \/ tree'[c] = Whole(tree'[c].root)
    OBVIOUS
  <2>1. CASE c \in torn
    <3>1. tree'[c] = Whole(t.version)
      BY <1>5, <2>1
    <3> QED  BY <1>3, <3>1 DEF Whole
  <2>2. CASE c \notin torn
    <3>1. Begun(t) => /\ tree[c].root \in {0, t.version}
                      /\ t.at = "prune" /\ tree[c].root # 0 =>
                          /\ tree[c].common = t.version
                          /\ t.version \in tree[c].own
      BY <2>2 DEF Grown
    <3>2. CASE t.at = "first"
      BY <1>1, <1>3, <3>2, UpsertedIs DEF Begun
    <3>3. CASE t.at = "rest"
      BY <1>1, <1>3, <3>1, <3>3, UpsertedIs DEF Begun
    <3>4. CASE t.at = "prune"
      <4>1. u.at = "report" /\ ~Begun(u)
        BY <1>3, <3>4 DEF Begun
      <4>2. /\ tree'[c] \in Root /\ tree'[c].root = tree[c].root
            /\ tree'[c].common = tree[c].common
            /\ tree'[c].own = tree[c].own \cap {t.version}
        BY <1>1, <3>4, UpsertedIs
      <4>3. ASSUME tree'[c].root # 0  PROVE tree'[c] = Whole(tree'[c].root)
        <5>1. tree'[c].root = t.version /\ tree'[c].common = t.version
              /\ tree'[c].own = {t.version}
          BY <3>1, <3>4, <4>2, <4>3 DEF Begun
        <5> QED  BY <4>2, <5>1 DEF Whole, Root
      <4> QED  BY <4>1, <4>3
    <3> QED  BY <1>2, <3>2, <3>3, <3>4
  <2> QED  BY <2>1, <2>2
<1> HIDE DEF c
<1>8. \A v \in tasks : v.course \in Courses
  BY TaskOf
<1>9. \A d \in Courses \ torn' :
        \/ tree'[d].root = 0 \/ tree'[d] = Whole(tree'[d].root)
        \/ \E v \in tasks' : v.course = d /\ Begun(v)
  <2>1. CASE c \in torn'
    <3> SUFFICES ASSUME NEW d \in Courses \ torn', tree[d].root # 0,
                        tree[d] # Whole(tree[d].root)
                 PROVE  \E v \in tasks' : v.course = d /\ Begun(v)
      BY <1>4, <2>1
    <3>1. PICK v \in tasks : v.course = d /\ Begun(v)
      BY <1>4, <2>1 DEF Grown
    <3> QED  BY <1>1, <2>1, <3>1 DEF c
  <2>2. CASE c \notin torn'
    <3> SUFFICES ASSUME NEW d \in Courses \ torn', d # c, tree[d].root # 0,
                        tree[d] # Whole(tree[d].root)
                 PROVE  \E v \in tasks' : v.course = d /\ Begun(v)
      BY <1>1, <1>3, <1>4, <1>7, <2>2
    <3>1. PICK v \in tasks : v.course = d /\ Begun(v)
      BY <1>4 DEF Grown
    <3> QED  BY <1>1, <3>1 DEF c
  <2> QED  BY <2>1, <2>2
<1>10. ASSUME NEW v \in tasks', Begun(v), v.course \notin torn'
       PROVE  /\ \A x \in tasks' : x # v /\ x.course = v.course => ~Begun(x)
              /\ tree'[v.course].root \in {0, v.version}
              /\ v.at = "prune" /\ tree'[v.course].root # 0 =>
                  /\ tree'[v.course].common = v.version
                  /\ v.version \in tree'[v.course].own
  <2>1. CASE v.course = c
    <3>1. v = u
      BY <1>6, <1>10, <2>1
    <3> QED  BY <1>6, <1>7, <1>10, <2>1, <3>1
  <2>2. CASE v.course # c
    <3>1. v \in tasks /\ v.course \notin torn /\ tree'[v.course] = tree[v.course]
      BY <1>1, <1>3, <1>4, <1>8, <1>10, <2>2
    <3>2. \A x \in tasks' : x.course = v.course => x \in tasks
      BY <1>1, <1>3, <2>2
    <3> QED  BY <1>10, <3>1, <3>2 DEF Grown
  <2> QED  BY <2>1, <2>2
<1> QED  BY <1>9, <1>10 DEF Grown

LEMMA FailGrown ==
    ASSUME Typed, Grown, NEW t \in tasks, CourseFails(t)
    PROVE  Grown'
<1> DEFINE u == [t EXCEPT !.at = "report"]
<1>1. tasks' = (tasks \ {t}) \cup {u} /\ t \in Task
  BY TaskOf DEF CourseFails, Becomes
<1>2. u.at = "report" /\ ~Begun(u)
  BY <1>1 DEF Task, Begun
<1> HIDE DEF u
<1>3. CASE ~Writing(t)
  <2>1. UNCHANGED <<tree, torn>> /\ ~Begun(t)
    BY <1>3 DEF CourseFails, Writing, Begun
  <2> QED  BY <1>1, <1>2, <2>1, GrownKept
<1>4. CASE Writing(t)
  <2>1. torn' = torn \cup {t.course} /\ \A d \in Courses \ {t.course} : tree'[d] = tree[d]
    BY <1>4, UpsertedIs DEF CourseFails
  <2>2. \A v \in tasks' : Begun(v) => v \in tasks /\ v # t
    BY <1>1, <1>2
  <2>3. \A v \in tasks : v.course \in Courses
    BY TaskOf
  <2>4. \A d \in Courses \ torn' :
          \/ tree'[d].root = 0 \/ tree'[d] = Whole(tree'[d].root)
          \/ \E v \in tasks' : v.course = d /\ Begun(v)
    <3> SUFFICES ASSUME NEW d \in Courses \ torn', d # t.course, d \notin torn,
                        tree[d].root # 0, tree[d] # Whole(tree[d].root)
                 PROVE  \E v \in tasks' : v.course = d /\ Begun(v)
      BY <2>1
    <3>1. PICK v \in tasks : v.course = d /\ Begun(v)
      BY DEF Grown
    <3> QED  BY <1>1, <3>1
  <2>5. ASSUME NEW v \in tasks', Begun(v), v.course \notin torn'
        PROVE  /\ \A x \in tasks' : x # v /\ x.course = v.course => ~Begun(x)
               /\ tree'[v.course].root \in {0, v.version}
               /\ v.at = "prune" /\ tree'[v.course].root # 0 =>
                   /\ tree'[v.course].common = v.version
                   /\ v.version \in tree'[v.course].own
    <3>1. v \in tasks /\ v.course \notin torn /\ tree'[v.course] = tree[v.course]
      BY <2>1, <2>2, <2>3, <2>5
    <3>2. \A x \in tasks' : Begun(x) => x \in tasks
      BY <2>2
    <3> QED  BY <2>5, <3>1, <3>2 DEF Grown
  <2> QED  BY <2>4, <2>5 DEF Grown
<1> QED  BY <1>3, <1>4

-----------------------------------------------------------------------------
(* The jobs and whoever works on them. *)

LEMMA SameTotal ==
    ASSUME items' = items, NEW j \in Jobs
    PROVE  Total(j)' = Total(j)
BY DEF Total

LEMMA WorkingKept ==
    ASSUME Working, UNCHANGED <<status, retries, counted, items, worker, tasks,
                                stray, touched>>
    PROVE  Working'
<1>1. Holders'
  BY DEF Working, Holders, Job
<1>2. CountsAgree'
  BY SameTotal DEF Working, TasksCounted, CountsAgree
<1>3. TasksCounted'
  BY <1>2 DEF Working, TasksCounted, Clean, ItemsOnce, Job
<1>4. Fresh'
  BY DEF Working, Fresh, Clean, Job
<1>5. Interrupted'
  BY DEF Working, Interrupted, Held
<1> QED  BY <1>1, <1>3, <1>4, <1>5 DEF Working

(* A task of a job that can be counted on is the only one of its course,   *)
(* and its worker has the job, which is running.                           *)
LEMMA CleanTask ==
    ASSUME Typed, Working, NEW t \in tasks, t.job \in Clean
    PROVE  /\ worker[t.worker].at = "sync" /\ Job(t.worker) = t.job
           /\ status[t.job] = "running" /\ Held(t.job)
           /\ items[t.job][t.course] = 0
           /\ \A w \in Workers : Job(w) = t.job => w = t.worker
<1>1. t.worker \in Workers /\ t.job \in Jobs /\ t.job \notin touched
  BY TaskOf DEF Clean
<1>2. worker[t.worker].at = "sync" /\ Job(t.worker) = t.job
      /\ items[t.job][t.course] = 0
  BY DEF Working, TasksCounted
<1>3. status[t.job] = "running"
  BY <1>1, <1>2 DEF Working, Holders, Busy, StatusAt
<1>4. Held(t.job)
  BY <1>1, <1>2 DEF Held, Job
<1>5. \A w \in Workers : Job(w) = t.job => w = t.worker
  BY <1>1, <1>2, NothingIsNoJob DEF Working, Holders
<1> QED  BY <1>2, <1>3, <1>4, <1>5

(* A worker goes on with its job, or leaves it; it lists nothing.          *)
LEMMA MoveWorking ==
    ASSUME Typed, Working, NEW w \in Workers, NEW r \in State,
           worker' = [worker EXCEPT ![w] = r],
           tasks' \subseteq tasks,
           UNCHANGED <<items, retries, stray, touched>>,
           r.at \in Busy <=> r.job # Nothing,
           r.at \in Busy => r.job = Job(w),
           r.at \notin {"list", "requeue"},
           \A j \in Jobs \ touched : r.seen[j] <= retries[j] + 1,
           \A t \in tasks' : t.job \in Clean => t.worker # w,
           \A j \in Jobs : j # Job(w) => status'[j] = status[j] /\ counted'[j] = counted[j],
           Job(w) \in Jobs \ touched => status'[Job(w)] \in {"running"} \cup Terminal,
           Job(w) \in Clean /\ status'[Job(w)] \in Terminal /\ retries[Job(w)] <= MaxRetries
              => counted'[Job(w)] = Total(Job(w)),
           r.at \in Busy /\ r.job \notin touched => status'[r.job] \in StatusAt[r.at]
    PROVE  Working'
<1>1. \A v \in Workers : /\ worker'[v] = IF v = w THEN r ELSE worker[v]
                         /\ Job(v)' = IF v = w THEN r.job ELSE Job(v)
  BY DEF Typed, TypeOK, Job
<1>2. \A v \in Workers : Job(v) \in Jobs \cup {Nothing}
  BY JobOf DEF Typed
<1>3. Clean' = Clean
  BY DEF Clean
<1>4. Holders'
  <2>1. \A v \in Workers : worker'[v].at \in Busy <=> Job(v)' # Nothing
    BY <1>1 DEF Working, Holders
  <2>2. ASSUME NEW v \in Workers, worker'[v].at \in Busy, Job(v)' \notin touched
        PROVE  status'[Job(v)'] \in StatusAt[worker'[v].at]
    <3>1. CASE v = w
      BY <1>1, <2>2, <3>1
    <3>2. CASE v # w
      <4>1. /\ worker'[v] = worker[v] /\ Job(v)' = Job(v)
            /\ Job(v) \in Jobs /\ Job(v) # Job(w)
        BY <1>1, <1>2, <2>2, <3>2 DEF Working, Holders
      <4> QED  BY <2>2, <4>1 DEF Working, Holders
    <3> QED  BY <3>1, <3>2
  <2>3. \A v, x \in Workers : v # x /\ Job(v)' # Nothing /\ Job(v)' = Job(x)' =>
            Job(v)' \in touched
    BY <1>1 DEF Working, Holders
  <2> QED  BY <2>1, <2>2, <2>3 DEF Holders
<1>5. TasksCounted'
  <2>1. ASSUME NEW t \in tasks', t.job \in Clean
        PROVE  /\ worker'[t.worker].at = "sync" /\ Job(t.worker)' = t.job
               /\ items[t.job][t.course] = 0
    <3>1. t \in tasks /\ t.worker # w /\ t.worker \in Workers
      BY <2>1, TaskOf
    <3> QED  BY <1>1, <2>1, <3>1, CleanTask
  <2>2. \A t, u \in tasks' :
            t.job \in Clean /\ t.job = u.job /\ t.course = u.course => t = u
    BY DEF Working, TasksCounted
  <2>3. ItemsOnce'
    BY DEF Working, TasksCounted, ItemsOnce
  <2>4. CountsAgree'
    <3> SUFFICES ASSUME NEW j \in Clean, status'[j] \in Terminal,
                        retries[j] <= MaxRetries
                 PROVE  counted'[j] = Total(j)
      BY SameTotal DEF CountsAgree, Clean
    <3>1. CASE j = Job(w)
      BY <3>1
    <3>2. CASE j # Job(w)
      BY <3>2 DEF Working, TasksCounted, CountsAgree, Clean
    <3> QED  BY <3>1, <3>2
  <2> QED  BY <1>3, <2>1, <2>2, <2>3, <2>4 DEF TasksCounted
<1>6. Fresh'
  <2>1. ASSUME NEW j \in Clean, status'[j] \in {"absent", "pending"}
        PROVE  \A c \in Courses : items[j][c] = 0
    <3>1. j \in Jobs \ touched
      BY DEF Clean
    <3>2. j # Job(w)
      BY <2>1, <3>1 DEF Terminal
    <3> QED  BY <2>1, <3>1, <3>2 DEF Working, Fresh
  <2>2. ASSUME NEW v \in Workers, worker'[v].at = "list", Job(v)' \in Clean
        PROVE  \A c \in Courses : items[Job(v)'][c] = 0
    <3>1. worker[v].at = "list" /\ Job(v)' = Job(v)
      BY <1>1, <2>2
    <3> QED  BY <2>2, <3>1 DEF Working, Fresh
  <2> QED  BY <1>3, <2>1, <2>2 DEF Fresh
<1>7. Interrupted'
  <2> SUFFICES ASSUME NEW v \in Workers, NEW j \in Jobs \ touched
               PROVE  /\ worker'[v].seen[j] <= retries[j] + 1
                      /\ worker'[v].at = "requeue" /\ worker'[v].seen[j] = retries[j] + 1 =>
                          /\ status'[j] = "running" /\ ~Held(j)'
                          /\ worker'[v].seen[j] <= MaxRetries /\ j \notin stray =>
                              \A c \in Courses : items[j][c] = 0
    BY DEF Interrupted
  <2>1. CASE v = w
    BY <1>1, <2>1
  <2>2. CASE v # w
    <3>1. worker'[v] = worker[v]
      BY <1>1, <2>2
    <3>2. ASSUME ~Held(j)  PROVE ~Held(j)' /\ status'[j] = status[j]
      <4>1. \A x \in Workers : Job(x) # j
        BY <3>2 DEF Held, Job
      <4>2. \A x \in Workers : worker'[x].job # j
        BY <1>1, <4>1, NothingIsNoJob DEF Job
      <4> QED  BY <4>1, <4>2 DEF Held
    <3> QED  BY <3>1, <3>2 DEF Working, Interrupted
  <2> QED  BY <2>1, <2>2
<1> QED  BY <1>4, <1>5, <1>6, <1>7 DEF Working

LEMMA EndWorking ==
    ASSUME Typed, Working, NEW w \in Workers, Complete(w) \/ Fail(w) \/ DatabaseError(w)
    PROVE  Working'
<1> USE DEF requests, marks, catalogue
<1>1. /\ Job(w) \in Jobs
      /\ worker[w].at \in {"sync", "fail", "fail_again"}
      /\ worker[w].at = "sync" => TasksOf(w, Job(w)) = {}
      /\ UNCHANGED <<tasks, touched, stray>>
  <2>1. /\ worker[w].at \in {"sync", "fail", "fail_again"}
        /\ worker[w].at = "sync" => TasksOf(w, Job(w)) = {}
        /\ UNCHANGED <<tasks, touched, stray>>
    BY DEF Complete, Fail, DatabaseError
  <2> QED  BY <2>1, JobOf DEF Typed, Working, Holders, Busy
<1>2. \A t \in tasks' : t.job \in Clean => t.worker # w
  <2> SUFFICES ASSUME NEW t \in tasks, t.job \in Clean, t.worker = w  PROVE FALSE
    BY <1>1
  <2>1. worker[w].at = "sync" /\ t.job = Job(w)
    BY CleanTask
  <2>2. t \in TasksOf(w, Job(w))
    BY <2>1 DEF TasksOf
  <2> QED  BY <1>1, <2>1, <2>2
<1>3. /\ UNCHANGED <<scope, retries, items>>
      /\ \A j \in Jobs : j # Job(w) => status'[j] = status[j] /\ counted'[j] = counted[j]
      /\ \/ /\ status'[Job(w)] = (IF worker[w].at = "sync" THEN "completed" ELSE "failed")
            /\ counted'[Job(w)] = Total(Job(w))
         \/ /\ UNCHANGED <<status, counted>>
            /\ worker' = [worker EXCEPT ![w] = IF worker[w].at = "fail_again" THEN Idle
                 ELSE [worker[w] EXCEPT !.at =
                         IF worker[w].at = "sync" THEN "fail" ELSE "fail_again"]]
  <2>1. CASE Complete(w)
    BY <1>1, <2>1 DEF Complete, FinishJob, Typed, TypeOK
  <2>2. CASE Fail(w)
    BY <1>1, <2>2 DEF Fail, FinishJob, Typed, TypeOK
  <2>3. CASE DatabaseError(w)
    <3>1. CASE UNCHANGED job
      BY <2>3, <3>1 DEF DatabaseError, job, Goes, Polls, Typed, TypeOK
    <3>2. CASE FinishJob(w, IF worker[w].at = "sync" THEN "completed" ELSE "failed")
      BY <1>1, <3>2 DEF FinishJob, Typed, TypeOK
    <3> QED  BY <2>3, <3>1, <3>2 DEF DatabaseError
  <2> QED  BY <2>1, <2>2, <2>3
<1>4. worker[w] \in State
  BY DEF Typed, TypeOK, State
<1>5. PICK r \in State :
        /\ worker' = [worker EXCEPT ![w] = r]
        /\ \/ r = Idle
           \/ /\ r.job = Job(w) /\ r.seen = worker[w].seen
              /\ worker[w].at = "sync" => r.at = "fail"
              /\ worker[w].at = "fail" => r.at = "fail_again"
              /\ worker[w].at # "fail_again"
  <2>1. CASE worker' = [worker EXCEPT ![w] = Idle]
    BY <2>1, IdleType
  <2>2. ASSUME worker[w].at # "fail_again",
               Goes(w, IF worker[w].at = "sync" THEN "fail" ELSE "fail_again")
        PROVE  \E r \in State :
                 /\ worker' = [worker EXCEPT ![w] = r]
                 /\ r.job = Job(w) /\ r.seen = worker[w].seen
                 /\ worker[w].at = "sync" => r.at = "fail"
                 /\ worker[w].at = "fail" => r.at = "fail_again"
    <3> DEFINE r == [worker[w] EXCEPT !.at =
                        IF worker[w].at = "sync" THEN "fail" ELSE "fail_again"]
    <3>1. /\ r \in State /\ r.job = Job(w) /\ r.seen = worker[w].seen
          /\ worker[w].at = "sync" => r.at = "fail"
          /\ worker[w].at = "fail" => r.at = "fail_again"
      BY <1>4 DEF State, Places, Job
    <3>2. worker' = [worker EXCEPT ![w] = r]
      BY <2>2 DEF Goes, Typed, TypeOK
    <3> HIDE DEF r
    <3> QED  BY <3>1, <3>2
  <2> QED  BY <2>1, <2>2 DEF Complete, Fail, DatabaseError, Polls
<1>6. Job(w) \notin touched => status[Job(w)] \in StatusAt[worker[w].at]
  BY <1>1 DEF Working, Holders, Busy
<1>7. Job(w) \in Jobs \ touched =>
        /\ status'[Job(w)] \in {"running"} \cup Terminal
        /\ r.at \in Busy => status'[Job(w)] \in StatusAt[r.at]
  <2> SUFFICES ASSUME Job(w) \notin touched
               PROVE  /\ status'[Job(w)] \in {"running"} \cup Terminal
                      /\ r.at \in Busy => status'[Job(w)] \in StatusAt[r.at]
    OBVIOUS
  <2>1. CASE worker[w].at = "sync"
    BY <1>3, <1>5, <1>6, <2>1 DEF StatusAt, Terminal, Busy, Idle
  <2>2. CASE worker[w].at = "fail"
    BY <1>3, <1>5, <1>6, <2>2 DEF StatusAt, Terminal, Busy, Idle
  <2>3. CASE worker[w].at = "fail_again"
    BY <1>3, <1>5, <1>6, <2>3 DEF StatusAt, Terminal, Busy, Idle
  <2> QED  BY <1>1, <2>1, <2>2, <2>3
<1>8. Job(w) \in Clean /\ status'[Job(w)] \in Terminal /\ retries[Job(w)] <= MaxRetries
         => counted'[Job(w)] = Total(Job(w))
  BY <1>3 DEF Working, TasksCounted, CountsAgree, Clean
<1>9. /\ r.at \in Busy <=> r.job # Nothing
      /\ r.at \in Busy => r.job = Job(w)
      /\ r.at \notin {"list", "requeue"}
      /\ \A j \in Jobs \ touched : r.seen[j] <= retries[j] + 1
  <2>1. CASE r = Idle
    BY <2>1 DEF Idle, Busy, Unseen, Typed, TypeOK
  <2>2. CASE r # Idle
    BY <1>1, <1>5, <2>2, NothingIsNoJob DEF Working, Interrupted, Busy
  <2> QED  BY <2>1, <2>2
<1> QED
  BY <1>1, <1>2, <1>3, <1>5, <1>7, <1>8, <1>9, MoveWorking

LEMMA SourceWorking ==
    ASSUME Typed, Working, NEW w \in Workers, SourceError(w)
    PROVE  Working'
<1> USE DEF requests, marks, catalogue
<1> DEFINE r == [worker[w] EXCEPT !.at = "fail"]
<1>1. worker[w] \in State /\ worker[w].at = "list" /\ Job(w) \in Jobs
  BY JobOf DEF SourceError, Typed, TypeOK, State, Working, Holders, Busy
<1>2. /\ r \in State /\ r.at = "fail" /\ r.job = Job(w) /\ r.seen = worker[w].seen
  BY <1>1 DEF State, Places, Job
<1>3. worker' = [worker EXCEPT ![w] = r]
  BY DEF SourceError, Goes, Typed, TypeOK
<1> HIDE DEF r
<1>4. UNCHANGED <<tasks, status, retries, counted, items, touched, stray>>
  BY DEF SourceError, job
<1>5. \A t \in tasks' : t.job \in Clean => t.worker # w
  BY <1>1, <1>4, CleanTask
<1>6. Job(w) \notin touched => status[Job(w)] = "running"
  BY <1>1 DEF Working, Holders, Busy, StatusAt
<1>7. \A j \in Jobs \ touched : r.seen[j] <= retries[j] + 1
  BY <1>2 DEF Working, Interrupted
<1>8. /\ Job(w) \in Jobs \ touched => status'[Job(w)] \in {"running"} \cup Terminal
      /\ Job(w) \in Clean => status'[Job(w)] \notin Terminal
      /\ r.at \in Busy /\ r.job \notin touched => status'[r.job] \in StatusAt[r.at]
  BY <1>2, <1>4, <1>6 DEF StatusAt, Terminal, Clean
<1>9. /\ r.at \in Busy <=> r.job # Nothing
      /\ r.at \notin {"list", "requeue"}
  BY <1>1, <1>2, NothingIsNoJob DEF Busy
<1> QED
  BY <1>2, <1>3, <1>4, <1>5, <1>7, <1>8, <1>9, MoveWorking

LEMMA CrashWorking ==
    ASSUME Typed, Working, NEW w \in Workers, Crash(w)
    PROVE  Working'
<1> USE DEF requests, marks, catalogue
<1> DEFINE r == [Idle EXCEPT !.at = "down"]
<1>1. r \in State /\ r.at = "down" /\ r.job = Nothing /\ r.seen = Unseen
  BY IdleType DEF Idle
<1>2. worker' = [worker EXCEPT ![w] = r] /\ tasks' = {t \in tasks : t.worker # w}
  BY DEF Crash
<1> HIDE DEF r
<1>3. UNCHANGED <<status, retries, counted, items, touched, stray>>
  BY DEF Crash, job
<1>4. \A j \in Jobs \ touched : r.seen[j] <= retries[j] + 1
  BY <1>1 DEF Unseen, Typed, TypeOK
<1>5. Job(w) \in Jobs \ touched => status[Job(w)] \in {"running"} \cup Terminal
  BY JobOf, NothingIsNoJob DEF Working, Holders, Busy, StatusAt, Typed, Terminal
<1>6. Job(w) \in Clean /\ status[Job(w)] \in Terminal /\ retries[Job(w)] <= MaxRetries
         => counted[Job(w)] = Total(Job(w))
  BY DEF Working, TasksCounted, CountsAgree, Clean
<1> QED
  BY <1>1, <1>2, <1>3, <1>4, <1>5, <1>6, MoveWorking DEF Busy

LEMMA FindWorking ==
    ASSUME Typed, Working, NEW w \in Workers, FindInterrupted(w)
    PROVE  Working'
<1> USE DEF requests, marks, catalogue
<1> DEFINE g == [j \in Jobs |-> IF status[j] = "running" THEN retries[j] + 1 ELSE 0]
           r == [at |-> "purge", job |-> Nothing, seen |-> g]
<1>1. \A j \in Jobs : g[j] \in 0..MaxRetries + 1 /\ g[j] <= retries[j] + 1
  BY SyncAssumption DEF Typed, TypeOK, Active
<1>2. r \in State /\ r.at = "purge" /\ r.job = Nothing
  BY <1>1 DEF State, Places
<1>3. worker' = [worker EXCEPT ![w] = r] /\ worker[w].at = "down"
  BY DEF FindInterrupted
<1>4. \A j \in Jobs \ touched : r.seen[j] <= retries[j] + 1
  BY <1>1
<1> HIDE DEF g, r
<1>5. UNCHANGED <<tasks, status, retries, counted, items, touched, stray>>
  BY DEF FindInterrupted, job
<1>6. Job(w) = Nothing
  BY <1>3 DEF Working, Holders, Busy
<1>7. \A t \in tasks' : t.job \in Clean => t.worker # w
  BY <1>3, <1>5, CleanTask
<1>8. Job(w) \notin Jobs \ touched /\ Job(w) \notin Clean
  BY <1>6, NothingIsNoJob DEF Clean
<1>9. r.at \notin Busy /\ r.at \notin {"list", "requeue"}
  BY <1>2 DEF Busy
<1> QED
  BY <1>2, <1>3, <1>4, <1>5, <1>7, <1>8, <1>9, MoveWorking

LEMMA CreateWorking ==
    ASSUME Typed, Working, NEW s \in Scopes, CreateJob(s)
    PROVE  Working'
<1> USE DEF requests, marks, catalogue
<1>0. PICK k \in Unused : status' = [status EXCEPT ![k] = "pending"]
  BY DEF CreateJob
<1>1. /\ k \in Jobs /\ status[k] = "absent"
      /\ \A j \in Jobs : status'[j] = IF j = k THEN "pending" ELSE status[j]
  BY <1>0 DEF Unused, Typed, TypeOK
<1>2. UNCHANGED <<retries, counted, items, worker, tasks, touched, stray>>
  BY DEF CreateJob
<1>3. Clean' = Clean /\ \A v \in Workers : Job(v)' = Job(v)
  BY <1>2 DEF Clean, Job
<1>4. Holders'
  <2>1. ASSUME NEW v \in Workers, worker[v].at \in Busy, Job(v) \notin touched
        PROVE  status'[Job(v)] \in StatusAt[worker[v].at]
    <3>1. status[Job(v)] \in StatusAt[worker[v].at] /\ Job(v) \in Jobs
      BY <2>1, JobOf DEF Typed, Working, Holders
    <3>2. Job(v) # k
      BY <1>1, <2>1, <3>1 DEF Busy, StatusAt
    <3> QED  BY <1>1, <3>1, <3>2
  <2> QED  BY <1>2, <1>3, <2>1 DEF Working, Holders
<1>5. CountsAgree'
  BY <1>1, <1>2, SameTotal DEF Working, TasksCounted, CountsAgree, Terminal
<1>6. TasksCounted'
  BY <1>2, <1>5 DEF Working, TasksCounted, ItemsOnce, Clean, Job
<1>7. Fresh'
  BY <1>1, <1>2, <1>3 DEF Working, Fresh, Clean
<1>8. Interrupted'
  <2> SUFFICES ASSUME NEW v \in Workers, NEW j \in Jobs \ touched,
                      worker[v].at = "requeue", worker[v].seen[j] = retries[j] + 1
               PROVE  status'[j] = status[j]
    BY <1>2 DEF Working, Interrupted, Held
  <2>1. status[j] = "running"
    BY DEF Working, Interrupted
  <2> QED  BY <1>1, <2>1
<1> QED  BY <1>4, <1>6, <1>7, <1>8 DEF Working

LEMMA ClaimWorking ==
    ASSUME Typed, Working, NEW w \in Workers, Claim(w)
    PROVE  Working'
<1> USE DEF requests, marks, catalogue
<1>0. PICK k \in Jobs : /\ status[k] = "pending"
                        /\ status' = [status EXCEPT ![k] = "running"]
                        /\ worker' = [worker EXCEPT ![w].at = "list", ![w].job = k]
  BY DEF Claim
<1>1. /\ \A j \in Jobs : status'[j] = IF j = k THEN "running" ELSE status[j]
      /\ worker'[w].at = "list" /\ Job(w)' = k
      /\ worker'[w].seen = worker[w].seen
      /\ \A v \in Workers \ {w} : worker'[v] = worker[v] /\ Job(v)' = Job(v)
  <2>1. worker \in [Workers -> State] /\ worker[w] \in State
    BY DEF Typed, TypeOK, State
  <2> QED  BY <1>0, <2>1 DEF Typed, TypeOK, Job, State
<1>2. UNCHANGED <<retries, counted, items, tasks, touched, stray>>
  BY DEF Claim
<1>3. worker[w].at = "poll" /\ Job(w) = Nothing
  BY DEF Claim, Working, Holders, Busy
<1>4. Clean' = Clean
  BY <1>2 DEF Clean
<1>5. k \notin touched => \A v \in Workers : Job(v) # k
  <2> SUFFICES ASSUME k \notin touched, NEW v \in Workers, Job(v) = k  PROVE FALSE
    OBVIOUS
  <2>1. worker[v].at \in Busy
    BY NothingIsNoJob DEF Working, Holders
  <2>2. status[k] \in StatusAt[worker[v].at]
    BY <2>1 DEF Working, Holders
  <2> QED  BY <1>0, <2>1, <2>2 DEF Busy, StatusAt
<1>6. Holders'
  <2>1. \A v \in Workers : worker'[v].at \in Busy <=> Job(v)' # Nothing
    BY <1>1, NothingIsNoJob DEF Working, Holders, Busy
  <2>2. ASSUME NEW v \in Workers, worker'[v].at \in Busy, Job(v)' \notin touched
        PROVE  status'[Job(v)'] \in StatusAt[worker'[v].at]
    <3>1. CASE v = w
      BY <1>1, <3>1 DEF StatusAt
    <3>2. CASE v # w
      <4>1. /\ worker'[v] = worker[v] /\ Job(v)' = Job(v) /\ Job(v) \in Jobs
        BY <1>1, <2>2, <3>2, JobOf DEF Typed, Working, Holders
      <4>2. Job(v) # k
        BY <1>5, <2>2, <4>1
      <4> QED  BY <1>1, <2>2, <4>1, <4>2 DEF Working, Holders
    <3> QED  BY <3>1, <3>2
  <2>3. \A v, x \in Workers : v # x /\ Job(v)' # Nothing /\ Job(v)' = Job(x)' =>
            Job(v)' \in touched
    BY <1>1, <1>5 DEF Working, Holders
  <2> QED  BY <1>2, <2>1, <2>2, <2>3 DEF Holders
<1>7. CountsAgree'
  BY <1>1, <1>2, SameTotal DEF Working, TasksCounted, CountsAgree, Terminal
<1>8. TasksCounted'
  <2>1. ASSUME NEW t \in tasks, t.job \in Clean
        PROVE  worker'[t.worker].at = "sync" /\ Job(t.worker)' = t.job
    <3>1. t.worker # w /\ t.worker \in Workers
      BY <1>3, <2>1, CleanTask, TaskOf
    <3> QED  BY <1>1, <2>1, <3>1, CleanTask
  <2> QED  BY <1>2, <1>4, <1>7, <2>1 DEF Working, TasksCounted, ItemsOnce
<1>9. Fresh'
  <2>1. ASSUME NEW j \in Clean, status'[j] \in {"absent", "pending"}
        PROVE  \A c \in Courses : items[j][c] = 0
    BY <1>1, <2>1 DEF Working, Fresh, Clean
  <2>2. ASSUME NEW v \in Workers, worker'[v].at = "list", Job(v)' \in Clean
        PROVE  \A c \in Courses : items[Job(v)'][c] = 0
    <3>1. CASE v = w
      BY <1>0, <1>1, <2>2, <3>1 DEF Working, Fresh
    <3>2. CASE v # w
      BY <1>1, <2>2, <3>2 DEF Working, Fresh
    <3> QED  BY <3>1, <3>2
  <2> QED  BY <1>2, <1>4, <2>1, <2>2 DEF Fresh
<1>10. Interrupted'
  <2> SUFFICES ASSUME NEW v \in Workers, NEW j \in Jobs \ touched
               PROVE  /\ worker'[v].seen[j] <= retries[j] + 1
                      /\ worker'[v].at = "requeue" /\ worker'[v].seen[j] = retries[j] + 1 =>
                          /\ status'[j] = "running" /\ ~Held(j)'
                          /\ worker'[v].seen[j] <= MaxRetries /\ j \notin stray =>
                              \A c \in Courses : items[j][c] = 0
    BY <1>2 DEF Interrupted
  <2>1. CASE v = w
    BY <1>1, <2>1 DEF Working, Interrupted
  <2>2. CASE v # w
    <3>1. worker'[v] = worker[v]
      BY <1>1, <2>2
    <3>2. ASSUME status[j] = "running", ~Held(j)  PROVE ~Held(j)' /\ status'[j] = status[j]
      <4>1. \A x \in Workers : worker'[x].job # j
        BY <1>0, <1>1, <3>2 DEF Held, Job
      <4> QED  BY <1>1, <3>2, <4>1 DEF Held
    <3> QED  BY <3>1, <3>2 DEF Working, Interrupted
  <2> QED  BY <2>1, <2>2
<1> QED  BY <1>6, <1>8, <1>9, <1>10 DEF Working

LEMMA ListWorking ==
    ASSUME Typed, Working, NEW w \in Workers, List(w)
    PROVE  Working'
<1> USE DEF requests, marks, catalogue
<1>1. PICK place \in {"sync", "fail"} :
        /\ Goes(w, place)
        /\ \/ tasks' = tasks
           \/ /\ place = "sync"
              /\ tasks' = tasks \cup
                  {[worker |-> w, job |-> Job(w), course |-> c, version |-> 0,
                    at |-> "fetch"] : c \in Wanted(Job(w))}
  BY DEF List
<1>2. /\ worker[w].at = "list" /\ Job(w) \in Jobs
      /\ UNCHANGED <<status, retries, counted, items, touched, stray>>
  BY JobOf DEF List, job, Typed, Working, Holders, Busy
<1>3. /\ \A v \in Workers \ {w} : worker'[v] = worker[v]
      /\ worker'[w].at = place
      /\ \A v \in Workers : Job(v)' = Job(v) /\ worker'[v].seen = worker[v].seen
      /\ \A v \in Workers : worker'[v].job = worker[v].job
  <2>1. worker \in [Workers -> State] /\ worker[w] \in State
    BY DEF Typed, TypeOK, State
  <2> QED  BY <1>1, <2>1 DEF Goes, Job, State
<1>4. Clean' = Clean
  BY <1>2 DEF Clean
<1>5. \A t \in tasks : t.job \in Clean => t.worker # w /\ t.job # Job(w)
  BY <1>2, CleanTask
<1>6. Holders'
  <2>1. \A v \in Workers : worker'[v].at \in Busy <=> Job(v)' # Nothing
    BY <1>2, <1>3 DEF Working, Holders, Busy
  <2>2. ASSUME NEW v \in Workers, worker'[v].at \in Busy, Job(v)' \notin touched
        PROVE  status'[Job(v)'] \in StatusAt[worker'[v].at]
    <3>1. CASE v = w
      <4>1. status[Job(w)] = "running"
        BY <1>2, <1>3, <2>2, <3>1 DEF Working, Holders, Busy, StatusAt
      <4> QED  BY <1>1, <1>2, <1>3, <3>1, <4>1 DEF StatusAt
    <3>2. CASE v # w
      BY <1>2, <1>3, <2>2, <3>2 DEF Working, Holders
    <3> QED  BY <3>1, <3>2
  <2>3. \A v, x \in Workers : v # x /\ Job(v)' # Nothing /\ Job(v)' = Job(x)' =>
            Job(v)' \in touched
    BY <1>3 DEF Working, Holders
  <2> QED  BY <1>2, <2>1, <2>2, <2>3 DEF Holders
<1>7. TasksCounted'
  <2>1. \A t \in tasks' \ tasks : /\ t.worker = w /\ t.job = Job(w) /\ place = "sync"
                                  /\ t.version = 0 /\ t.at = "fetch"
                                  /\ t.course \in Wanted(Job(w))
                                  /\ t = [worker |-> w, job |-> Job(w), course |-> t.course,
                                          version |-> 0, at |-> "fetch"]
    BY <1>1
  <2>2. Wanted(Job(w)) \subseteq Courses
    <3>1. CASE scope[Job(w)] = "all" \/ scope[Job(w)] = "new"
      BY <3>1 DEF Wanted, Listed
    <3>2. CASE scope[Job(w)] # "all" /\ scope[Job(w)] # "new"
      BY <3>2 DEF Wanted, Listed
    <3> QED  BY <3>1, <3>2
  <2>3. ASSUME NEW t \in tasks', t.job \in Clean
        PROVE  /\ worker'[t.worker].at = "sync" /\ Job(t.worker)' = t.job
               /\ items[t.job][t.course] = 0
    <3>1. CASE t \in tasks
      <4>1. t.worker \in Workers \ {w}
        BY <1>5, <2>3, <3>1, TaskOf
      <4> QED  BY <1>3, <2>3, <3>1, <4>1, CleanTask
    <3>2. CASE t \notin tasks
      <4>1. t.worker = w /\ t.job = Job(w) /\ t.course \in Courses /\ place = "sync"
        BY <2>1, <2>2, <3>2
      <4>2. items[Job(w)][t.course] = 0
        BY <1>2, <2>3, <4>1 DEF Working, Fresh
      <4> QED  BY <1>3, <4>1, <4>2
    <3> QED  BY <3>1, <3>2
  <2>4. ASSUME NEW t \in tasks', NEW u \in tasks', t.job \in Clean, t.job = u.job,
               t.course = u.course
        PROVE  t = u
    <3>1. CASE t \in tasks /\ u \in tasks
      BY <2>4, <3>1 DEF Working, TasksCounted
    <3>2. CASE t \notin tasks /\ u \notin tasks
      BY <2>1, <2>4, <3>2
    <3>3. CASE (t \in tasks /\ u \notin tasks) \/ (t \notin tasks /\ u \in tasks)
      BY <1>5, <2>1, <2>4, <3>3
    <3> QED  BY <3>1, <3>2, <3>3
  <2>5. ItemsOnce' /\ CountsAgree'
    BY <1>2, SameTotal DEF Working, TasksCounted, ItemsOnce, CountsAgree
  <2> QED  BY <1>2, <1>4, <2>3, <2>4, <2>5 DEF TasksCounted
<1>8. Fresh'
  <2>1. \A v \in Workers : worker'[v].at = "list" => worker[v].at = "list"
    BY <1>2, <1>3
  <2> QED  BY <1>2, <1>3, <1>4, <2>1 DEF Working, Fresh
<1>9. Interrupted'
  <2>1. \A v \in Workers : worker'[v].at = "requeue" => worker[v].at = "requeue"
    BY <1>1, <1>3
  <2>2. \A j \in Jobs : Held(j)' <=> Held(j)
    BY <1>3 DEF Held
  <2> QED  BY <1>2, <1>3, <2>1, <2>2 DEF Working, Interrupted
<1> QED  BY <1>6, <1>7, <1>8, <1>9 DEF Working

(* A task goes on to its next place: nothing that is counted changes. *)
LEMMA BecomesWorking ==
    ASSUME Typed, Working, NEW t \in tasks, NEW u,
           tasks' = (tasks \ {t}) \cup {u},
           u.worker = t.worker, u.job = t.job, u.course = t.course,
           UNCHANGED <<status, retries, counted, items, worker, stray, touched>>
    PROVE  Working'
<1>1. Holders' /\ Fresh' /\ Interrupted'
  <2>1. Holders'
    BY DEF Working, Holders, Job
  <2>2. Fresh'
    BY DEF Working, Fresh, Clean, Job
  <2>3. Interrupted'
    BY DEF Working, Interrupted, Held
  <2> QED  BY <2>1, <2>2, <2>3
<1>2. ItemsOnce' /\ CountsAgree' /\ Clean' = Clean
  BY SameTotal DEF Working, TasksCounted, ItemsOnce, CountsAgree, Clean
<1>3. ASSUME NEW x \in tasks', x.job \in Clean
      PROVE  /\ worker'[x.worker].at = "sync" /\ Job(x.worker)' = x.job
             /\ items'[x.job][x.course] = 0
  <2>1. PICK y \in tasks : y.worker = x.worker /\ y.job = x.job /\ y.course = x.course
    OBVIOUS
  <2>2. /\ worker[y.worker].at = "sync" /\ Job(y.worker) = y.job
        /\ items[y.job][y.course] = 0
    BY <1>3, <2>1 DEF Working, TasksCounted
  <2> QED  BY <2>1, <2>2 DEF Job
<1>4. ASSUME NEW x \in tasks', NEW y \in tasks', x.job \in Clean, x.job = y.job,
             x.course = y.course
      PROVE  x = y
  <2>1. CASE x # u /\ y # u
    BY <1>4, <2>1 DEF Working, TasksCounted
  <2>2. CASE x = u /\ y # u
    BY <1>4, <2>2 DEF Working, TasksCounted
  <2>3. CASE x # u /\ y = u
    BY <1>4, <2>3 DEF Working, TasksCounted
  <2> QED  BY <2>1, <2>2, <2>3
<1> QED  BY <1>1, <1>2, <1>3, <1>4 DEF Working, TasksCounted

LEMMA CopyWorking ==
    ASSUME Typed, Working, NEW t \in tasks,
           Fetch(t) \/ Compare(t) \/ UpsertTree(t) \/ CourseFails(t)
    PROVE  Working'
<1> USE DEF requests, marks, catalogue
<1>0. t \in Task
  BY TaskOf
<1>1. UNCHANGED <<status, retries, counted, items, worker, stray, touched>>
  BY DEF Fetch, Compare, UpsertTree, CourseFails, TaskOnly, job
<1>2. ASSUME NEW place, Becomes(t, place)
      PROVE  Working'
  <2> DEFINE u == [t EXCEPT !.at = place]
  <2>1. u.worker = t.worker /\ u.job = t.job /\ u.course = t.course
    BY <1>0 DEF Task
  <2>2. tasks' = (tasks \ {t}) \cup {u}
    BY <1>2 DEF Becomes
  <2> HIDE DEF u
  <2> QED  BY <1>1, <2>1, <2>2, BecomesWorking
<1>3. CASE tasks' = (tasks \ {t}) \cup
                {[t EXCEPT !.at = "compare", !.version = live[t.course]]}
  <2> DEFINE u == [t EXCEPT !.at = "compare", !.version = live[t.course]]
  <2>1. u.worker = t.worker /\ u.job = t.job /\ u.course = t.course
    BY <1>0 DEF Task
  <2>2. tasks' = (tasks \ {t}) \cup {u}
    BY <1>3
  <2> HIDE DEF u
  <2> QED  BY <1>1, <2>1, <2>2, BecomesWorking
<1> QED  BY <1>2, <1>3 DEF Fetch, Compare, UpsertTree, CourseFails

LEMMA ReportWorking ==
    ASSUME Typed, Working, NEW t \in tasks, Report(t)
    PROVE  Working'
<1> USE DEF requests, marks, catalogue
<1> DEFINE k == t.job
           d == t.course
<1>1. /\ k \in Jobs /\ d \in Courses /\ t.worker \in Workers
      /\ tasks' = tasks \ {t}
      /\ UNCHANGED <<status, retries, counted, worker, stray, touched>>
  BY TaskOf DEF Report
<1>2. /\ \A j \in Jobs \ {k} : items'[j] = items[j]
      /\ \A c \in Courses : items'[k][c] = IF c = d THEN items[k][c] + 1 ELSE items[k][c]
  BY <1>1 DEF Report, RecordItem, Typed, TypeOK
<1>3. /\ Clean' = Clean /\ \A v \in Workers : Job(v)' = Job(v)
      /\ \A j \in Jobs : Held(j)' <=> Held(j)
  BY <1>1 DEF Clean, Job, Held
<1>4. k \in Clean => /\ status[k] = "running" /\ Held(k) /\ items[k][d] = 0
                     /\ \A w \in Workers : Job(w) = k => worker[w].at = "sync"
  BY CleanTask
<1> HIDE DEF k, d
<1>5. Holders'
  BY <1>1 DEF Working, Holders, Job
<1>6. ItemsOnce'
  BY <1>1, <1>2, <1>4 DEF Working, TasksCounted, ItemsOnce, Clean
<1>7. CountsAgree'
  <2> SUFFICES ASSUME NEW j \in Clean, status[j] \in Terminal, retries[j] <= MaxRetries
               PROVE  counted[j] = Total(j)'
    BY <1>1 DEF CountsAgree, Clean
  <2>1. j # k /\ j \in Jobs
    BY <1>4 DEF Terminal, Clean
  <2>2. Total(j)' = Total(j)
    BY <1>2, <2>1 DEF Total
  <2> QED  BY <2>2 DEF Working, TasksCounted, CountsAgree, Clean
<1>8. TasksCounted'
  <2>1. ASSUME NEW x \in tasks', x.job \in Clean
        PROVE  /\ worker'[x.worker].at = "sync" /\ Job(x.worker)' = x.job
               /\ items'[x.job][x.course] = 0
    <3>1. /\ x \in tasks /\ x # t /\ x.job \in Jobs /\ x.course \in Courses
          /\ x.worker \in Workers
      BY <1>1, <2>1, TaskOf
    <3>2. items'[x.job][x.course] = items[x.job][x.course]
      <4>1. CASE x.job = k
        <5>1. x.course # d
          BY <2>1, <3>1, <4>1 DEF Working, TasksCounted, k, d
        <5> QED  BY <1>2, <3>1, <4>1, <5>1
      <4>2. CASE x.job # k
        BY <1>2, <3>1, <4>2
      <4> QED  BY <4>1, <4>2
    <3> QED  BY <1>1, <1>3, <2>1, <3>1, <3>2, CleanTask
  <2>2. \A x, y \in tasks' :
            x.job \in Clean /\ x.job = y.job /\ x.course = y.course => x = y
    BY <1>1 DEF Working, TasksCounted
  <2> QED  BY <1>3, <1>6, <1>7, <2>1, <2>2 DEF TasksCounted
<1>9. Fresh'
  <2>1. ASSUME NEW j \in Clean, status[j] \in {"absent", "pending"}
        PROVE  \A c \in Courses : items'[j][c] = 0
    <3>1. j # k /\ j \in Jobs
      BY <1>4, <2>1 DEF Clean
    <3> QED  BY <1>2, <2>1, <3>1 DEF Working, Fresh
  <2>2. ASSUME NEW v \in Workers, worker[v].at = "list", Job(v) \in Clean
        PROVE  \A c \in Courses : items'[Job(v)][c] = 0
    <3>1. Job(v) # k /\ Job(v) \in Jobs
      BY <1>4, <2>2 DEF Clean
    <3> QED  BY <1>2, <2>2, <3>1 DEF Working, Fresh
  <2> QED  BY <1>1, <1>3, <2>1, <2>2 DEF Fresh
<1>10. Interrupted'
  <2> SUFFICES ASSUME NEW v \in Workers, NEW j \in Jobs \ touched,
                      worker[v].at = "requeue", worker[v].seen[j] = retries[j] + 1,
                      worker[v].seen[j] <= MaxRetries, j \notin stray
               PROVE  \A c \in Courses : items'[j][c] = 0
    BY <1>1, <1>3 DEF Working, Interrupted
  <2>1. j \in Clean /\ ~Held(j)
    BY DEF Working, Interrupted, Clean
  <2>2. j # k
    BY <1>4, <2>1
  <2> QED  BY <1>2, <2>2 DEF Working, Interrupted
<1> QED  BY <1>5, <1>8, <1>9, <1>10 DEF Working

LEMMA ReportFailsWorking ==
    ASSUME Typed, Working, NEW t \in tasks, ReportFails(t)
    PROVE  Working'
<1> USE DEF requests, marks, catalogue
<1> DEFINE k == t.job
           w == t.worker
<1>1. /\ k \in Jobs /\ w \in Workers /\ tasks' = tasks \ {t}
      /\ UNCHANGED <<status, retries, counted, items, touched>>
      /\ stray \subseteq stray' /\ stray' \subseteq stray \cup {k}
      /\ TasksOf(w, k) # {t} => k \in stray'
  BY TaskOf DEF ReportFails, job
<1>2. /\ \A v \in Workers \ {w} : worker'[v] = worker[v]
      /\ \A v \in Workers : Job(v)' = Job(v) /\ worker'[v].seen = worker[v].seen
      /\ \A v \in Workers : worker'[v].job = worker[v].job
      /\ \/ worker'[w] = worker[w]
         \/ Job(w) = k /\ worker[w].at = "sync" /\ worker'[w].at = "fail"
  <2>1. worker \in [Workers -> State] /\ worker[w] \in State
    BY <1>1 DEF Typed, TypeOK, State
  <2>2. CASE UNCHANGED worker
    BY <2>2 DEF Job
  <2>3. CASE Goes(w, "fail") /\ Job(w) = k /\ worker[w].at = "sync"
    BY <1>1, <2>1, <2>3 DEF Goes, Job, State
  <2> QED  BY <2>2, <2>3 DEF ReportFails
<1>3. Clean' \subseteq Clean
  BY <1>1 DEF Clean
<1>4. k \in Clean' => \A x \in tasks : x.job = k => x = t
  <2> SUFFICES ASSUME k \in Clean', NEW x \in tasks, x.job = k  PROVE x = t
    OBVIOUS
  <2>1. TasksOf(w, k) = {t} /\ k \in Clean
    BY <1>1, <1>3 DEF Clean
  <2>2. Job(w) = k /\ Job(x.worker) = k /\ x.worker \in Workers
    BY <2>1, CleanTask, TaskOf
  <2>3. x.worker = w
    BY <2>1, <2>2, CleanTask
  <2>4. x \in TasksOf(w, k)
    BY <2>3 DEF TasksOf
  <2> QED  BY <2>1, <2>4
<1> HIDE DEF k, w
<1>5. Holders'
  <2>1. \A v \in Workers : worker'[v].at \in Busy <=> Job(v)' # Nothing
    BY <1>1, <1>2 DEF Working, Holders, Busy
  <2>2. ASSUME NEW v \in Workers, worker'[v].at \in Busy, Job(v)' \notin touched
        PROVE  status'[Job(v)'] \in StatusAt[worker'[v].at]
    <3>1. CASE worker'[v] = worker[v]
      BY <1>1, <1>2, <2>2, <3>1 DEF Working, Holders
    <3>2. CASE worker'[v] # worker[v]
      <4>1. v = w /\ worker[v].at = "sync" /\ worker'[v].at = "fail"
        BY <1>2, <3>2
      <4>2. status[Job(v)] = "running"
        BY <1>2, <2>2, <4>1 DEF Working, Holders, Busy, StatusAt
      <4> QED  BY <1>1, <1>2, <4>1, <4>2 DEF StatusAt
    <3> QED  BY <3>1, <3>2
  <2>3. \A v, x \in Workers : v # x /\ Job(v)' # Nothing /\ Job(v)' = Job(x)' =>
            Job(v)' \in touched
    BY <1>2 DEF Working, Holders
  <2> QED  BY <1>1, <2>1, <2>2, <2>3 DEF Holders
<1>6. TasksCounted'
  <2>1. ASSUME NEW x \in tasks', x.job \in Clean'
        PROVE  /\ worker'[x.worker].at = "sync" /\ Job(x.worker)' = x.job
               /\ items'[x.job][x.course] = 0
    <3>1. x \in tasks /\ x # t /\ x.job \in Clean /\ x.worker \in Workers
      BY <1>1, <1>3, <2>1, TaskOf
    <3>2. x.job # k
      BY <1>4, <2>1, <3>1
    <3>3. worker'[x.worker] = worker[x.worker]
      BY <1>2, <3>1, <3>2, CleanTask
    <3> QED  BY <1>1, <1>2, <3>1, <3>3, CleanTask
  <2>2. \A x, y \in tasks' :
            x.job \in Clean' /\ x.job = y.job /\ x.course = y.course => x = y
    BY <1>1, <1>3 DEF Working, TasksCounted
  <2>3. ItemsOnce' /\ CountsAgree'
    BY <1>1, SameTotal DEF Working, TasksCounted, ItemsOnce, CountsAgree
  <2> QED  BY <2>1, <2>2, <2>3 DEF TasksCounted
<1>7. Fresh'
  <2>1. \A v \in Workers : worker'[v].at = "list" => worker[v].at = "list"
    BY <1>2
  <2> QED  BY <1>1, <1>2, <1>3, <2>1 DEF Working, Fresh
<1>8. Interrupted'
  <2>1. \A v \in Workers : worker'[v].at = "requeue" => worker[v].at = "requeue"
    BY <1>2
  <2>2. \A j \in Jobs : Held(j)' <=> Held(j)
    BY <1>2 DEF Held
  <2> QED  BY <1>1, <1>2, <2>1, <2>2 DEF Working, Interrupted
<1> QED  BY <1>5, <1>6, <1>7, <1>8 DEF Working

(* A job put back without a mistake is running with nobody, and has no     *)
(* tasks.                                                                  *)
LEMMA RightlyTaken ==
    ASSUME Typed, Working, NEW w \in Workers, NEW j \in Requeued(w) \cup GivenUp(w),
           j \notin Mistaken(w)
    PROVE  /\ ~Held(j) /\ status[j] = "running" /\ worker[w].seen[j] = retries[j] + 1
           /\ j \in Clean => \A t \in tasks : t.job # j
<1>1. ~Held(j) /\ status[j] = "running" /\ worker[w].seen[j] = retries[j] + 1
  BY MistakenJobs DEF Mistaken
<1> QED  BY <1>1, CleanTask

LEMMA PurgeWorking ==
    ASSUME Typed, Working, NEW w \in Workers, PurgeItems(w)
    PROVE  Working'
<1> USE DEF requests, marks, catalogue
<1>1. /\ touched' = touched \cup Mistaken(w)
      /\ UNCHANGED <<status, retries, counted, tasks, stray>>
      /\ \A j \in Jobs : items'[j] = IF j \in Requeued(w) THEN [c \in Courses |-> 0]
                                     ELSE items[j]
  BY DEF PurgeItems
<1>2. /\ \A v \in Workers \ {w} : worker'[v] = worker[v]
      /\ \A v \in Workers : Job(v)' = Job(v) /\ worker'[v].seen = worker[v].seen
      /\ \A v \in Workers : worker'[v].job = worker[v].job
      /\ worker[w].at = "purge" /\ worker'[w].at = "requeue"
  <2>1. worker \in [Workers -> State] /\ worker[w] \in State
    BY DEF Typed, TypeOK, State
  <2> QED  BY <2>1 DEF PurgeItems, Goes, Job, State
<1>3. Clean' \subseteq Clean /\ \A j \in Clean' : j \notin Mistaken(w) /\ j \in Jobs
  BY <1>1 DEF Clean
<1>4. \A j \in Clean' : j \in Requeued(w) =>
        ~Held(j) /\ status[j] = "running" /\ \A t \in tasks : t.job # j
  BY <1>3, RightlyTaken
<1>5. \A j \in Jobs : Held(j)' <=> Held(j)
  BY <1>2 DEF Held
<1>6. Holders'
  <2>1. \A v \in Workers : worker'[v].at \in Busy <=> Job(v)' # Nothing
    BY <1>2 DEF Working, Holders, Busy
  <2>2. ASSUME NEW v \in Workers, worker'[v].at \in Busy, Job(v)' \notin touched'
        PROVE  status'[Job(v)'] \in StatusAt[worker'[v].at]
    <3>1. v # w
      BY <1>2, <2>2 DEF Busy
    <3> QED  BY <1>1, <1>2, <2>2, <3>1 DEF Working, Holders
  <2>3. \A v, x \in Workers : v # x /\ Job(v)' # Nothing /\ Job(v)' = Job(x)' =>
            Job(v)' \in touched'
    BY <1>1, <1>2 DEF Working, Holders
  <2> QED  BY <2>1, <2>2, <2>3 DEF Holders
<1>7. TasksCounted'
  <2>1. ASSUME NEW t \in tasks, t.job \in Clean'
        PROVE  /\ worker'[t.worker].at = "sync" /\ Job(t.worker)' = t.job
               /\ items'[t.job][t.course] = 0
    <3>1. /\ t.job \in Clean /\ t.worker \in Workers /\ t.worker # w
          /\ t.job \notin Requeued(w)
      BY <1>2, <1>3, <1>4, <2>1, TaskOf, CleanTask
    <3> QED  BY <1>1, <1>2, <1>3, <2>1, <3>1, CleanTask
  <2>2. \A t, u \in tasks' :
            t.job \in Clean' /\ t.job = u.job /\ t.course = u.course => t = u
    BY <1>1, <1>3 DEF Working, TasksCounted
  <2>3. ItemsOnce'
    <3> SUFFICES ASSUME NEW j \in Clean', NEW c \in Courses  PROVE items'[j][c] <= 1
      BY DEF ItemsOnce, Clean
    <3> QED  BY <1>1, <1>3 DEF Working, TasksCounted, ItemsOnce, Clean
  <2>4. CountsAgree'
    <3> SUFFICES ASSUME NEW j \in Clean', status[j] \in Terminal, retries[j] <= MaxRetries
                 PROVE  counted[j] = Total(j)'
      BY <1>1 DEF CountsAgree, Clean
    <3>1. j \notin Requeued(w)
      BY <1>4 DEF Terminal
    <3>2. Total(j)' = Total(j)
      BY <1>1, <1>3, <3>1 DEF Total
    <3> QED  BY <1>3, <3>2 DEF Working, TasksCounted, CountsAgree, Clean
  <2> QED  BY <1>1, <2>1, <2>2, <2>3, <2>4 DEF TasksCounted
<1>8. Fresh'
  <2>1. ASSUME NEW j \in Clean', status[j] \in {"absent", "pending"}
        PROVE  \A c \in Courses : items'[j][c] = 0
    BY <1>1, <1>3, <2>1 DEF Working, Fresh
  <2>2. ASSUME NEW v \in Workers, worker'[v].at = "list", Job(v)' \in Clean'
        PROVE  \A c \in Courses : items'[Job(v)'][c] = 0
    <3>1. worker[v].at = "list"
      BY <1>2, <2>2
    <3> QED  BY <1>1, <1>2, <1>3, <2>2, <3>1 DEF Working, Fresh
  <2> QED  BY <1>1, <2>1, <2>2 DEF Fresh
<1>9. Interrupted'
  <2> SUFFICES ASSUME NEW v \in Workers, NEW j \in Jobs \ touched'
               PROVE  /\ worker'[v].seen[j] <= retries'[j] + 1
                      /\ worker'[v].at = "requeue" /\ worker'[v].seen[j] = retries'[j] + 1 =>
                          /\ status'[j] = "running" /\ ~Held(j)'
                          /\ worker'[v].seen[j] <= MaxRetries /\ j \notin stray' =>
                              \A c \in Courses : items'[j][c] = 0
    BY DEF Interrupted
  <2>1. j \in Jobs \ touched /\ j \notin Mistaken(w)
    BY <1>1
  <2>2. worker'[v].seen[j] <= retries'[j] + 1
    BY <1>1, <1>2, <2>1 DEF Working, Interrupted
  <2>3. CASE v = w
    <3> SUFFICES ASSUME worker[w].seen[j] = retries[j] + 1
                 PROVE  /\ status[j] = "running" /\ ~Held(j)
                        /\ worker[w].seen[j] <= MaxRetries =>
                            \A c \in Courses : items'[j][c] = 0
      BY <1>1, <1>2, <1>5, <2>2, <2>3
    <3>1. worker[w].seen[j] > 0 /\ worker[w].seen[j] \in 0..MaxRetries + 1
      BY JobOf DEF Typed, TypeOK
    <3>2. j \in Requeued(w) \cup GivenUp(w)
      BY <3>1, SyncAssumption DEF Requeued, GivenUp
    <3>3. worker[w].seen[j] <= MaxRetries => j \in Requeued(w)
      BY <3>1, SyncAssumption DEF Requeued
    <3> QED  BY <1>1, <2>1, <3>2, <3>3, RightlyTaken
  <2>4. CASE v # w
    <3>1. worker'[v] = worker[v]
      BY <1>2, <2>4
    <3> QED  BY <1>1, <1>5, <2>1, <3>1 DEF Working, Interrupted
  <2> QED  BY <2>3, <2>4
<1> QED  BY <1>6, <1>7, <1>8, <1>9 DEF Working

LEMMA RequeueWorking ==
    ASSUME Typed, Working, NEW w \in Workers, Requeue(w)
    PROVE  Working'
<1> USE DEF requests, marks, catalogue
<1> DEFINE T == Requeued(w) \cup GivenUp(w)
<1>1. /\ touched' = touched \cup Mistaken(w)
      /\ UNCHANGED <<counted, items, tasks, stray>>
      /\ \A j \in Jobs \ T : status'[j] = status[j] /\ retries'[j] = retries[j]
      /\ \A j \in T : retries'[j] = worker[w].seen[j]
      /\ \A j \in Requeued(w) : status'[j] = "pending"
      /\ \A j \in GivenUp(w) : status'[j] = "failed"
  <2>1. Requeued(w) \subseteq Jobs /\ GivenUp(w) \subseteq Jobs
    BY MistakenJobs
  <2>2. \A j \in GivenUp(w) : j \notin Requeued(w)
    BY MistakenJobs, SyncAssumption
  <2> QED  BY <2>1, <2>2 DEF Requeue, Reconciled
<1>2. /\ \A v \in Workers \ {w} : worker'[v] = worker[v] /\ Job(v)' = Job(v)
      /\ worker'[w] = Idle /\ Job(w)' = Nothing
      /\ worker[w].at = "requeue" /\ Job(w) = Nothing
  BY DEF Requeue, Polls, Idle, Job, Typed, TypeOK, Working, Holders, Busy
<1>3. Clean' \subseteq Clean /\ \A j \in Clean' : j \notin Mistaken(w) /\ j \in Jobs
  BY <1>1 DEF Clean
<1>4. \A j \in Jobs \ touched' : j \in T =>
        ~Held(j) /\ status[j] = "running" /\ worker[w].seen[j] = retries[j] + 1
  BY <1>1, RightlyTaken
<1>5. \A j \in Clean' : j \in T => \A t \in tasks : t.job # j
  BY <1>3, RightlyTaken
<1>6. \A j \in Jobs : Held(j)' <=> Held(j)
  BY <1>2, NothingIsNoJob DEF Held, Job
<1>7. T \subseteq Jobs
  BY MistakenJobs
<1>8. \A j \in Requeued(w) : worker[w].seen[j] <= MaxRetries
  BY MistakenJobs, SyncAssumption
<1> HIDE DEF T
<1>9. Holders'
  <2>1. \A v \in Workers : worker'[v].at \in Busy <=> Job(v)' # Nothing
    BY <1>2 DEF Working, Holders, Busy, Idle
  <2>2. ASSUME NEW v \in Workers, worker'[v].at \in Busy, Job(v)' \notin touched'
        PROVE  status'[Job(v)'] \in StatusAt[worker'[v].at]
    <3>1. v # w /\ worker'[v] = worker[v] /\ Job(v)' = Job(v) /\ Job(v) \in Jobs
      BY <1>2, <2>2, JobOf DEF Busy, Idle, Typed, Working, Holders
    <3>2. Held(Job(v))
      BY DEF Held, Job
    <3>3. Job(v) \notin T
      BY <1>4, <2>2, <3>1, <3>2
    <3>4. Job(v) \notin touched
      BY <1>1, <2>2, <3>1
    <3> QED  BY <1>1, <2>2, <3>1, <3>3, <3>4 DEF Working, Holders
  <2>3. \A v, x \in Workers : v # x /\ Job(v)' # Nothing /\ Job(v)' = Job(x)' =>
            Job(v)' \in touched'
    BY <1>1, <1>2 DEF Working, Holders
  <2> QED  BY <2>1, <2>2, <2>3 DEF Holders
<1>10. TasksCounted'
  <2>1. ASSUME NEW t \in tasks, t.job \in Clean'
        PROVE  /\ worker'[t.worker].at = "sync" /\ Job(t.worker)' = t.job
               /\ items'[t.job][t.course] = 0
    <3>1. t.job \in Clean /\ t.worker \in Workers /\ t.worker # w
      BY <1>2, <1>3, <2>1, TaskOf, CleanTask
    <3> QED  BY <1>1, <1>2, <2>1, <3>1, CleanTask
  <2>2. \A t, u \in tasks' :
            t.job \in Clean' /\ t.job = u.job /\ t.course = u.course => t = u
    BY <1>1, <1>3 DEF Working, TasksCounted
  <2>3. ItemsOnce'
    BY <1>1 DEF Working, TasksCounted, ItemsOnce
  <2>4. CountsAgree'
    <3> SUFFICES ASSUME NEW j \in Clean', status'[j] \in Terminal, retries'[j] <= MaxRetries
                 PROVE  counted[j] = Total(j)
      BY <1>1, SameTotal DEF CountsAgree, Clean
    <3>1. j \notin T
      <4>1. ASSUME j \in Requeued(w)  PROVE FALSE
        BY <1>1, <4>1 DEF Terminal
      <4>2. ASSUME j \in GivenUp(w)  PROVE FALSE
        <5>1. worker[w].seen[j] = MaxRetries + 1 /\ retries'[j] = worker[w].seen[j]
          BY <1>1, <4>2, MistakenJobs DEF T
        <5> QED  BY <5>1, SyncAssumption
      <4> QED  BY <4>1, <4>2 DEF T
    <3> QED  BY <1>1, <1>3, <3>1 DEF Working, TasksCounted, CountsAgree, Clean
  <2> QED  BY <1>1, <2>1, <2>2, <2>3, <2>4 DEF TasksCounted
<1>11. Fresh'
  <2>1. ASSUME NEW j \in Clean', status'[j] \in {"absent", "pending"}
        PROVE  \A c \in Courses : items'[j][c] = 0
    <3>1. CASE j \in Requeued(w)
      <4>1. j \in T /\ j \in Jobs \ touched'
        BY <3>1 DEF T, Clean
      <4>2. worker[w].seen[j] = retries[j] + 1 /\ j \in Jobs \ touched /\ j \notin stray
        BY <1>1, <1>4, <4>1 DEF Clean
      <4> QED  BY <1>1, <1>2, <1>8, <3>1, <4>2 DEF Working, Interrupted
    <3>2. CASE j \in GivenUp(w)
      BY <1>1, <2>1, <3>2
    <3>3. CASE j \notin T
      BY <1>1, <1>3, <2>1, <3>3 DEF Working, Fresh
    <3> QED  BY <3>1, <3>2, <3>3 DEF T
  <2>2. ASSUME NEW v \in Workers, worker'[v].at = "list", Job(v)' \in Clean'
        PROVE  \A c \in Courses : items'[Job(v)'][c] = 0
    <3>1. v # w
      BY <1>2, <2>2 DEF Idle
    <3> QED  BY <1>1, <1>2, <1>3, <2>2, <3>1 DEF Working, Fresh
  <2> QED  BY <2>1, <2>2 DEF Fresh
<1>12. Interrupted'
  <2> SUFFICES ASSUME NEW v \in Workers, NEW j \in Jobs \ touched'
               PROVE  /\ worker'[v].seen[j] <= retries'[j] + 1
                      /\ worker'[v].at = "requeue" /\ worker'[v].seen[j] = retries'[j] + 1 =>
                          /\ status'[j] = "running" /\ ~Held(j)'
                          /\ worker'[v].seen[j] <= MaxRetries /\ j \notin stray' =>
                              \A c \in Courses : items'[j][c] = 0
    BY DEF Interrupted
  <2>0. /\ retries[j] \in Nat /\ retries'[j] \in Nat /\ worker[v].seen[j] \in Nat
        /\ worker[v].seen[j] <= retries[j] + 1 /\ j \in Jobs \ touched
        /\ j \in T => retries'[j] = retries[j] + 1
    <3>1. j \in Jobs \ touched
      BY <1>1
    <3>2. retries[j] \in Nat /\ worker[v].seen[j] \in Nat
      BY JobOf, SyncAssumption DEF Typed, TypeOK
    <3>3. worker[v].seen[j] <= retries[j] + 1
      BY <3>1 DEF Working, Interrupted
    <3>4. j \in T => retries'[j] = retries[j] + 1
      BY <1>1, <1>4
    <3>5. j \notin T => retries'[j] = retries[j]
      BY <1>1
    <3> QED  BY <3>1, <3>2, <3>3, <3>4, <3>5
  <2>1. CASE v = w
    BY <1>2, <2>0, <2>1 DEF Idle, Unseen
  <2>2. CASE v # w
    <3>1. worker'[v] = worker[v]
      BY <1>2, <2>2
    <3>2. CASE j \in T
      BY <2>0, <3>1, <3>2
    <3>3. CASE j \notin T
      BY <1>1, <1>6, <2>0, <3>1, <3>3 DEF Working, Interrupted
    <3> QED  BY <3>2, <3>3
  <2> QED  BY <2>1, <2>2
<1> QED  BY <1>9, <1>10, <1>11, <1>12 DEF Working

-----------------------------------------------------------------------------
(* What becomes of the status of a job. *)

Moves(j) ==
    \/ status'[j] = status[j]
    \/ status[j] = "pending" /\ status'[j] = "running"
    \/ status[j] = "running" /\ status'[j] = "completed"
    \/ status[j] \in {"running", "completed"} /\ status'[j] = "failed"

(* What workers and tasks keep of the jobs: none is inserted or made       *)
(* active, a try is never taken back, and only jobs that exist are put     *)
(* back.                                                                   *)
Keeps ==
    /\ UNCHANGED <<scope, asked, raced>> /\ touched \subseteq touched'
    /\ \A j \in Jobs : status'[j] = "absent" <=> status[j] = "absent"
    /\ \A v \in Workers : Job(v)' # Nothing =>
        \/ Job(v)' = Job(v)
        \/ Job(v)' \in Jobs /\ status[Job(v)'] = "pending"
    /\ \A j \in Jobs \ touched' : status'[j] \in Active => status[j] \in Active
    /\ \A j \in Jobs : /\ retries[j] > 0 => retries'[j] > 0
                       /\ retries[j] = 0 /\ retries'[j] > 0 => status[j] # "absent"
                       /\ j \in touched' \ touched => status[j] # "absent"
    /\ \A j \in Jobs \ touched' : retries'[j] = 0 => Moves(j)

LEMMA SameKeeps ==
    ASSUME Typed, UNCHANGED <<status, scope, retries, asked, raced, touched>>,
           \A v \in Workers : Job(v)' = Job(v)
    PROVE  Keeps
BY DEF Keeps, Moves

LEMMA TasksKeep ==
    ASSUME Typed, NEW t \in tasks, Copy(t) \/ CourseFails(t) \/ ReportFails(t)
    PROVE  Keeps
<1>1. UNCHANGED <<status, scope, retries, asked, raced, touched>>
  BY DEF Copy, Fetch, Compare, UpsertTree, Report, CourseFails, ReportFails, TaskOnly,
         job, requests, marks
<1>2. \A v \in Workers : Job(v)' = Job(v)
  <2>1. CASE UNCHANGED worker
    BY <2>1 DEF Job
  <2>2. CASE ~ UNCHANGED worker
    <3>1. Goes(t.worker, "fail")
      BY <2>2 DEF Copy, Fetch, Compare, UpsertTree, Report, CourseFails, ReportFails,
                  TaskOnly
    <3>2. worker \in [Workers -> State]
      BY DEF Typed, TypeOK, State
    <3> QED  BY <3>1, <3>2 DEF Goes, Job, State
  <2> QED  BY <2>1, <2>2
<1> QED  BY <1>1, <1>2, SameKeeps

LEMMA WorkersKeep ==
    ASSUME Typed, Working, Present, NEW w \in Workers,
           Work(w) \/ SourceError(w) \/ DatabaseError(w) \/ Crash(w) \/ Reconcile(w)
    PROVE  Keeps
<1> USE DEF requests, marks, catalogue
<1>0. worker \in [Workers -> State] /\ worker[w] \in State
      /\ status \in [Jobs -> Statuses] /\ retries \in [Jobs -> 0..MaxRetries + 1]
  BY DEF Typed, TypeOK, State, Statuses
<1>1. CASE Claim(w)
  <2>0. PICK k \in Jobs : /\ status[k] = "pending"
                          /\ status' = [status EXCEPT ![k] = "running"]
                          /\ worker' = [worker EXCEPT ![w].at = "list", ![w].job = k]
    BY <1>1 DEF Claim
  <2>1. \A j \in Jobs : status'[j] = IF j = k THEN "running" ELSE status[j]
    BY <1>0, <2>0
  <2>2. Job(w)' = k /\ \A v \in Workers \ {w} : Job(v)' = Job(v)
    BY <1>0, <2>0 DEF Job, State
  <2>3. UNCHANGED <<scope, retries, asked, raced, touched>>
    BY <1>1 DEF Claim
  <2> QED  BY <2>0, <2>1, <2>2, <2>3 DEF Keeps, Moves, Active
<1>2. CASE List(w) \/ SourceError(w) \/ Crash(w) \/ FindInterrupted(w)
  <2>1. UNCHANGED <<status, scope, retries, asked, raced, touched>>
    BY <1>2 DEF List, SourceError, Crash, FindInterrupted, job
  <2>2. \A v \in Workers : Job(v)' \in {Job(v), Nothing}
    <3>1. CASE \E place \in Places : Goes(w, place)
      BY <1>0, <3>1 DEF Goes, Job, State
    <3>2. CASE Crash(w) \/ FindInterrupted(w)
      BY <1>0, <3>2 DEF Crash, FindInterrupted, Job, Idle
    <3> QED  BY <1>2, <3>1, <3>2 DEF List, SourceError, Places
  <2> QED  BY <2>1, <2>2 DEF Keeps, Moves
<1>3. CASE Complete(w) \/ Fail(w) \/ DatabaseError(w)
  <2>1. /\ Job(w) \in Jobs /\ status[Job(w)] # "absent"
        /\ worker[w].at \in {"sync", "fail", "fail_again"}
        /\ Job(w) \notin touched => status[Job(w)] \in StatusAt[worker[w].at]
    <3>1. worker[w].at \in {"sync", "fail", "fail_again"}
      BY <1>3 DEF Complete, Fail, DatabaseError
    <3>2. worker[w].at \in Busy /\ Job(w) # Nothing /\ Job(w) \in Jobs
      BY <3>1, JobOf DEF Typed, Working, Holders, Busy
    <3> QED  BY <3>1, <3>2 DEF Present, Working, Holders
  <2>2. UNCHANGED <<scope, retries, asked, raced, touched>>
    BY <1>3 DEF Complete, Fail, DatabaseError, FinishJob, job
  <2>3. \/ UNCHANGED status
        \/ status' = [status EXCEPT ![Job(w)] =
                        IF worker[w].at = "sync" THEN "completed" ELSE "failed"]
    BY <1>3 DEF Complete, Fail, DatabaseError, FinishJob, job
  <2>4. \A v \in Workers : Job(v)' \in {Job(v), Nothing}
    <3>1. CASE \E place \in Places : Goes(w, place)
      BY <1>0, <3>1 DEF Goes, Job, State
    <3>2. CASE Polls(w)
      BY <1>0, <3>2 DEF Polls, Job, Idle
    <3> QED  BY <1>3, <3>1, <3>2 DEF Complete, Fail, DatabaseError, Places
  <2>5. /\ \A j \in Jobs : status'[j] = "absent" <=> status[j] = "absent"
        /\ \A j \in Jobs : status'[j] \in Active => status[j] \in Active
    BY <1>0, <2>1, <2>3 DEF Active
  <2>6. ASSUME NEW j \in Jobs \ touched  PROVE Moves(j)
    <3>1. CASE status'[j] = status[j]
      BY <3>1 DEF Moves
    <3>2. CASE status'[j] # status[j]
      <4>1. /\ j = Job(w)
            /\ status'[j] = (IF worker[w].at = "sync" THEN "completed" ELSE "failed")
        BY <1>0, <2>1, <2>3, <3>2
      <4>2. status[j] \in StatusAt[worker[w].at]
        BY <2>1, <2>6, <4>1
      <4> QED  BY <2>1, <3>2, <4>1, <4>2 DEF Moves, StatusAt
    <3> QED  BY <3>1, <3>2
  <2> QED  BY <2>2, <2>4, <2>5, <2>6 DEF Keeps
<1>4. CASE PurgeItems(w)
  <2>1. UNCHANGED <<status, scope, retries, asked, raced>>
        /\ touched' = touched \cup Mistaken(w)
    BY <1>4 DEF PurgeItems
  <2>2. \A v \in Workers : Job(v)' = Job(v)
    BY <1>0, <1>4 DEF PurgeItems, Goes, Job, State
  <2>3. \A j \in Mistaken(w) : j \in Jobs /\ status[j] # "absent"
    BY MistakenJobs
  <2> QED  BY <2>1, <2>2, <2>3 DEF Keeps, Moves
<1>5. CASE Requeue(w)
  <2> DEFINE T == Requeued(w) \cup GivenUp(w)
  <2>1. /\ touched' = touched \cup Mistaken(w)
        /\ UNCHANGED <<scope, asked, raced>>
        /\ \A j \in Jobs \ T : status'[j] = status[j] /\ retries'[j] = retries[j]
        /\ \A j \in T : retries'[j] = worker[w].seen[j] /\ status'[j] \in {"pending", "failed"}
    <3>1. Requeued(w) \subseteq Jobs /\ GivenUp(w) \subseteq Jobs
      BY MistakenJobs
    <3> QED  BY <1>5, <3>1 DEF Requeue, Reconciled
  <2>2. \A v \in Workers : Job(v)' \in {Job(v), Nothing}
    BY <1>0, <1>5 DEF Requeue, Polls, Job, Idle
  <2>3. \A j \in T : j \in Jobs /\ status[j] # "absent" /\ worker[w].seen[j] > 0
    BY MistakenJobs
  <2>4. \A j \in T : j \notin touched' => status[j] = "running"
    BY <2>1, RightlyTaken
  <2>5. \A j \in Mistaken(w) : j \in T
    BY MistakenJobs
  <2> HIDE DEF T
  <2>6. \A j \in T : retries'[j] > 0
    BY <2>1, <2>3
  <2>7. \A j \in Jobs : j \in touched' \ touched => status[j] # "absent"
    BY <2>1, <2>3, <2>5
  <2>8. \A j \in Jobs : status'[j] = "absent" <=> status[j] = "absent"
    BY <2>1, <2>3
  <2>9. \A j \in Jobs \ touched' : status'[j] \in Active => status[j] \in Active
    BY <2>1, <2>4 DEF Active
  <2>10. \A j \in Jobs : /\ retries[j] > 0 => retries'[j] > 0
                         /\ retries[j] = 0 /\ retries'[j] > 0 => status[j] # "absent"
    BY <2>1, <2>3, <2>6
  <2>11. \A j \in Jobs \ touched' : retries'[j] = 0 => Moves(j)
    BY <2>1, <2>6 DEF Moves
  <2> QED  BY <2>1, <2>2, <2>7, <2>8, <2>9, <2>10, <2>11 DEF Keeps
<1> QED  BY <1>1, <1>2, <1>3, <1>4, <1>5 DEF Work, Reconcile

LEMMA KeepsInv ==
    ASSUME Typed, Asked, Present, Keeps
    PROVE  Asked' /\ Present'
<1>1. Asked'
  BY AskedKept DEF Keeps
<1>2. Present'
  <2> SUFFICES ASSUME NEW v \in Workers, Job(v)' # Nothing
               PROVE  status'[Job(v)'] # "absent"
    BY DEF Present
  <2>1. Job(v) \in Jobs \cup {Nothing}
    BY JobOf DEF Typed
  <2> DEFINE k == Job(v)'
  <2>2. k \in Jobs /\ status[k] # "absent"
    BY <2>1 DEF Present, Keeps
  <2> HIDE DEF k
  <2>3. status'[k] # "absent"
    BY <2>2 DEF Keeps
  <2> QED  BY <2>3 DEF k
<1> QED  BY <1>1, <1>2

-----------------------------------------------------------------------------
(* The invariant. *)

LEMMA InitInv == Init => IInv
<1> SUFFICES ASSUME Init  PROVE IInv
  OBVIOUS
<1> USE DEF Init
<1>1. Typed
  <2>1. worker \in [Workers -> State] /\ tree \in [Courses -> Root]
    BY IdleType
  <2>2. 1 \in Versions /\ 0 \in 0..MaxRetries + 1 /\ 0 \in 0..MaxFaults /\ 0 \in 0..MaxChanges
    BY SyncAssumption DEF Versions
  <2>3. TypeOK
    BY <2>1, <2>2 DEF TypeOK, State, Root
  <2> QED  BY <2>2, <2>3, SyncAssumption DEF Typed, Active, Idle, Unseen
<1>2. Working
  <2>1. Holders
    BY DEF Holders, Busy, Idle, Job
  <2>2. TasksCounted
    BY DEF TasksCounted, ItemsOnce, CountsAgree, Terminal
  <2>3. Fresh
    BY DEF Fresh, Clean, Idle
  <2>4. Interrupted
    BY DEF Interrupted, Idle, Unseen
  <2> QED  BY <2>1, <2>2, <2>3, <2>4 DEF Working
<1>3. Asked
  BY DEF Asked, OneActiveSync, Active
<1>4. Grown
  BY DEF Grown, NoCourse
<1>5. Present
  BY DEF Present, Job, Idle
<1> QED  BY <1>1, <1>2, <1>3, <1>4, <1>5 DEF IInv

LEMMA CatalogueInv ==
    ASSUME IInv, NEW c \in Courses, Publish(c) \/ Withdraw(c) \/ DeleteCourse(c)
    PROVE  IInv'
<1>1. UNCHANGED <<torn, job, requests, worker, tasks, faults, marks>>
  BY DEF Publish, Withdraw, DeleteCourse
<1>2. Typed' /\ Working'
  BY <1>1, PublishTyped, WorkingKept DEF IInv, job, marks
<1>3. Keeps
  BY <1>1, SameKeeps DEF IInv, job, requests, marks, Job
<1>4. Grown'
  <2>1. CASE DeleteCourse(c)
    BY <2>1, DeleteGrown DEF IInv
  <2>2. CASE UNCHANGED tree
    BY <1>1, <2>2, GrownKept DEF IInv
  <2> QED  BY <2>1, <2>2 DEF Publish, Withdraw
<1> QED  BY <1>2, <1>3, <1>4, KeepsInv DEF IInv

LEMMA RequestInv ==
    ASSUME IInv, NEW s \in Scopes, AskSync(s) \/ CreateJob(s)
    PROVE  IInv'
<1>1. Typed'
  BY AskTyped DEF IInv
<1>2. CASE AskSync(s)
  <2>1. UNCHANGED <<catalogue, job, worker, tasks, faults, marks>>
    BY <1>2 DEF AskSync
  <2>2. Working' /\ Asked'
    BY <1>2, <2>1, WorkingKept, AskAsked DEF IInv, job, marks
  <2>3. Grown'
    BY <2>1, GrownKept DEF IInv, catalogue
  <2>4. Present'
    BY <2>1 DEF IInv, Present, Job, job
  <2> QED  BY <1>1, <2>2, <2>3, <2>4 DEF IInv
<1>3. CASE CreateJob(s)
  <2>1. UNCHANGED <<catalogue, worker, tasks>>
    BY <1>3 DEF CreateJob
  <2>2. Working' /\ Asked'
    BY <1>3, CreateWorking, CreateAsked DEF IInv
  <2>3. Grown'
    BY <2>1, GrownKept DEF IInv, catalogue
  <2>4. Present'
    <3>1. \A j \in Jobs : status'[j] = "absent" => status[j] = "absent"
      BY <1>3 DEF CreateJob, IInv, Typed, TypeOK
    <3> SUFFICES ASSUME NEW v \in Workers, Job(v) # Nothing
                 PROVE  status'[Job(v)] # "absent"
      BY <2>1 DEF Present, Job
    <3>2. Job(v) \in Jobs
      BY JobOf DEF IInv, Typed
    <3> QED  BY <3>1, <3>2 DEF IInv, Present
  <2> QED  BY <1>1, <2>2, <2>3, <2>4 DEF IInv
<1> QED  BY <1>2, <1>3

LEMMA TaskInv ==
    ASSUME IInv, NEW t \in tasks, Copy(t) \/ CourseFails(t) \/ ReportFails(t)
    PROVE  IInv'
<1>1. Typed'
  BY CopyTyped DEF IInv
<1>2. Working'
  BY CopyWorking, ReportWorking, ReportFailsWorking DEF IInv, Copy
<1>3. Asked' /\ Present'
  BY TasksKeep, KeepsInv DEF IInv
<1>4. Grown'
  <2>1. CASE UpsertTree(t) \/ CourseFails(t)
    BY <2>1, UpsertGrown, FailGrown DEF IInv
  <2>2. CASE Fetch(t) \/ Compare(t) \/ Report(t) \/ ReportFails(t)
    <3>1. UNCHANGED <<tree, torn>> /\ ~Begun(t)
      BY <2>2 DEF Fetch, Compare, Report, ReportFails, catalogue, Begun
    <3>2. t \in Task
      BY TaskOf DEF IInv
    <3>3. \A x \in tasks' : x \in tasks \/ ~Begun(x)
      <4>1. CASE Report(t) \/ ReportFails(t)
        BY <4>1 DEF Report, ReportFails
      <4>2. CASE Compare(t) \/ Becomes(t, "report")
        <5>1. \A place \in {"report", "first"} : [t EXCEPT !.at = place].at = place
          BY <3>2 DEF Task
        <5>2. \E place \in {"report", "first"} : Becomes(t, place)
          BY <4>2 DEF Compare
        <5> QED  BY <5>1, <5>2 DEF Becomes, Begun
      <4>3. CASE tasks' = (tasks \ {t}) \cup
                  {[t EXCEPT !.at = "compare", !.version = live[t.course]]}
        <5>1. [t EXCEPT !.at = "compare", !.version = live[t.course]].at = "compare"
          BY <3>2 DEF Task
        <5> QED  BY <4>3, <5>1 DEF Begun
      <4> QED  BY <2>2, <4>1, <4>2, <4>3 DEF Fetch
    <3>4. \A x \in tasks : Begun(x) => x \in tasks'
      BY <2>2, <3>1 DEF Fetch, Compare, Report, ReportFails, Becomes
    <3> QED  BY <3>1, <3>3, <3>4, GrownKept DEF IInv
  <2> QED  BY <2>1, <2>2 DEF Copy
<1> QED  BY <1>1, <1>2, <1>3, <1>4 DEF IInv

LEMMA WorkerInv ==
    ASSUME IInv, NEW w \in Workers,
           Work(w) \/ SourceError(w) \/ DatabaseError(w) \/ Crash(w) \/ Reconcile(w)
    PROVE  IInv'
<1>1. Typed'
  BY WorkTyped, FaultTyped, ReconcileTyped DEF IInv, Working
<1>2. Working'
  BY ClaimWorking, ListWorking, EndWorking, SourceWorking, CrashWorking, FindWorking,
     PurgeWorking, RequeueWorking DEF IInv, Work, Reconcile
<1>3. Asked' /\ Present'
  BY WorkersKeep, KeepsInv DEF IInv
<1>4. Grown'
  <2>1. CASE Crash(w)
    BY <2>1, CrashGrown DEF IInv
  <2>2. CASE List(w)
    <3>1. UNCHANGED <<tree, torn>> /\ tasks \subseteq tasks'
      BY <2>2 DEF List, catalogue
    <3>2. \A t \in tasks' : t \in tasks \/ t.at = "fetch"
      BY <2>2 DEF List
    <3> QED  BY <3>1, <3>2, GrownKept DEF IInv, Begun
  <2>3. CASE ~Crash(w) /\ ~List(w)
    <3>1. UNCHANGED <<tree, torn, tasks>>
      BY <2>3 DEF Work, Claim, Complete, Fail, SourceError, DatabaseError, Reconcile,
                  FindInterrupted, PurgeItems, Requeue, catalogue
    <3> QED  BY <3>1, GrownKept DEF IInv
  <2> QED  BY <2>1, <2>2, <2>3
<1> QED  BY <1>1, <1>2, <1>3, <1>4 DEF IInv

LEMMA StutterInv ==
    ASSUME IInv, UNCHANGED vars
    PROVE  IInv'
<1> USE DEF vars, catalogue, job, requests, marks
<1>1. Typed'
  BY DEF IInv, Typed, TypeOK
<1>2. Working'
  BY WorkingKept DEF IInv
<1>3. Keeps
  BY SameKeeps DEF IInv, Job
<1>4. Grown'
  BY GrownKept DEF IInv
<1> QED  BY <1>1, <1>2, <1>3, <1>4, KeepsInv DEF IInv

LEMMA NextInv ==
    ASSUME IInv, [Next]_vars
    PROVE  IInv'
BY CatalogueInv, RequestInv, TaskInv, WorkerInv, StutterInv DEF Next

(* What TLC checks of one or two jobs, for any number of them. *)
THEOREM SyncJobsInvariant == Spec => []IInv
<1>1. IInv /\ [Next]_vars => IInv'
  BY NextInv
<1> QED  BY InitInv, <1>1, PTL DEF Spec

(* Jobs and their items tell the same story, each course once and the      *)
(* total they show, and no two jobs tell it of the same scope, until a     *)
(* starting process puts back a job by mistake, tasks outlive their job or *)
(* two requests look at once.                                              *)
THEOREM SyncJobsConsistent == Spec => []Consistent
<1>1. IInv => Consistent
  BY DEF IInv, Typed, Working, TasksCounted, Asked, Consistent
<1> QED  BY SyncJobsInvariant, <1>1, PTL

(* The hash of a root, written first, hides no missing node, but for the   *)
(* courses whose upsert failed, died or met another.                       *)
THEOREM TreesStayWhole == Spec => []TreesWhole
<1>1. IInv => TreesWhole
  <2> SUFFICES ASSUME IInv, NEW c \in Courses \ torn,
                      \A t \in tasks : t.course = c => ~Writing(t), tree[c].root > 0
               PROVE  tree[c] = Whole(tree[c].root)
    BY DEF TreesWhole
  <2>1. tree[c].root # 0
    BY DEF IInv, Typed, TypeOK
  <2>2. \A t \in tasks : t.course = c => ~Begun(t)
    BY DEF Writing, Begun
  <2> QED  BY <2>1, <2>2 DEF IInv, Grown
<1> QED  BY SyncJobsInvariant, <1>1, PTL

-----------------------------------------------------------------------------
(* The promise of JobLifecycle. *)

Reopened(j) == j \in touched \/ retries[j] > 0

LEMMA StageIs ==
    ASSUME NEW j \in Jobs
    PROVE  /\ Reopened(j) => StageOf(j) = "reopened"
           /\ ~Reopened(j) =>
              /\ status[j] = "absent" => StageOf(j) = "absent"
              /\ status[j] = "pending" => StageOf(j) = "waiting"
              /\ status[j] = "running" => StageOf(j) = "taken"
              /\ status[j] = "completed" => StageOf(j) = "done"
              /\ status[j] = "failed" => StageOf(j) = "buried"
           /\ StageOf(j) \in Lifecycle!Stages
BY DEF StageOf, Reopened, Lifecycle!Stages

LEMMA StageIsNext ==
    ASSUME NEW j \in Jobs
    PROVE  /\ Reopened(j)' => StageOf(j)' = "reopened"
           /\ ~Reopened(j)' =>
              /\ status'[j] = "pending" => StageOf(j)' = "waiting"
              /\ status'[j] = "running" => StageOf(j)' = "taken"
              /\ status'[j] = "completed" => StageOf(j)' = "done"
              /\ status'[j] = "failed" => StageOf(j)' = "buried"
           /\ StageOf(j)' \in Lifecycle!Stages
BY DEF StageOf, Reopened, Lifecycle!Stages

(* The moves that JobLifecycle allows from the stage a to the stage b. *)
Allowed(a, b) ==
    \/ b = a
    \/ a = "absent" /\ b = "waiting"
    \/ a = "waiting" /\ b = "taken"
    \/ a = "taken" /\ b = "done"
    \/ a \in {"taken", "done"} /\ b = "buried"
    \/ a \in {"waiting", "taken", "done", "buried"} /\ b = "reopened"

LEMMA SameStage ==
    ASSUME NEW j \in Jobs, status'[j] = status[j], Reopened(j)' <=> Reopened(j)
    PROVE  Allowed(StageOf(j), StageOf(j)')
BY DEF Allowed, StageOf, Reopened

LEMMA KeepsStage ==
    ASSUME Typed, Typed', Keeps, NEW j \in Jobs
    PROVE  Allowed(StageOf(j), StageOf(j)')
<1>0. /\ status[j] \in Statuses /\ retries[j] \in 0..MaxRetries + 1
      /\ Reopened(j) => Reopened(j)'
  BY DEF Typed, TypeOK, Statuses, Keeps, Reopened
<1>1. CASE Reopened(j)
  BY <1>0, <1>1, StageIs, StageIsNext DEF Allowed
<1>2. CASE ~Reopened(j) /\ Reopened(j)'
  <2>1. j \notin touched /\ ~(retries[j] > 0)
    BY <1>2 DEF Reopened
  <2>2. retries[j] = 0
    BY <1>0, <2>1, SyncAssumption
  <2>3. status[j] # "absent"
    BY <1>2, <2>1, <2>2 DEF Reopened, Keeps
  <2> QED  BY <1>0, <1>2, <2>3, StageIs, StageIsNext DEF Allowed, Statuses, Active, Terminal
<1>3. CASE ~Reopened(j) /\ ~Reopened(j)'
  <2>1. j \notin touched' /\ ~(retries'[j] > 0) /\ ~(retries[j] > 0)
    BY <1>3 DEF Reopened
  <2>2. retries'[j] = 0
    <3>1. retries'[j] \in 0..MaxRetries + 1
      BY DEF Typed, TypeOK
    <3> QED  BY <2>1, <3>1, SyncAssumption
  <2>3. Moves(j)
    BY <2>1, <2>2 DEF Keeps
  <2>4. CASE status'[j] = status[j]
    BY <1>3, <2>4, SameStage
  <2>5. CASE status'[j] # status[j]
    BY <1>3, <2>3, <2>5, StageIs, StageIsNext DEF Moves, Allowed
  <2> QED  BY <2>4, <2>5
<1> QED  BY <1>0, <1>1, <1>2, <1>3

LEMMA NextStage ==
    ASSUME IInv, [Next]_vars, NEW j \in Jobs
    PROVE  Allowed(StageOf(j), StageOf(j)')
<1>1. Typed'
  BY NextInv DEF IInv
<1>2. ASSUME NEW s \in Scopes, CreateJob(s)
      PROVE  Allowed(StageOf(j), StageOf(j)')
  <2>0. PICK k \in Unused : status' = [status EXCEPT ![k] = "pending"]
    BY <1>2 DEF CreateJob
  <2>1. /\ status \in [Jobs -> Statuses] /\ status[k] = "absent"
        /\ Reopened(j)' <=> Reopened(j)
    BY <1>2 DEF CreateJob, IInv, Typed, TypeOK, Statuses, Unused, marks, Reopened
  <2>2. CASE j # k
    <3>1. status'[j] = status[j]
      BY <2>0, <2>1, <2>2
    <3> QED  BY <2>1, <3>1, SameStage
  <2>3. CASE j = k
    <3>1. status[j] = "absent" /\ status'[j] = "pending"
      BY <2>0, <2>1, <2>3
    <3>2. CASE Reopened(j)
      BY <2>1, <3>2, StageIs, StageIsNext DEF Allowed
    <3>3. CASE ~Reopened(j)
      BY <2>1, <3>1, <3>3, StageIs, StageIsNext DEF Allowed
    <3> QED  BY <3>2, <3>3
  <2> QED  BY <2>2, <2>3
<1>3. CASE UNCHANGED <<job, marks>>
  <2>1. status'[j] = status[j] /\ (Reopened(j)' <=> Reopened(j))
    BY <1>3 DEF job, marks, Reopened
  <2> QED  BY <2>1, SameStage
<1>4. CASE Keeps
  BY <1>1, <1>4, KeepsStage DEF IInv
<1>5. (\E s \in Scopes : CreateJob(s)) \/ UNCHANGED <<job, marks>> \/ Keeps
  <2>1. CASE UNCHANGED vars
    BY <2>1 DEF vars
  <2>2. CASE \E c \in Courses : Publish(c) \/ Withdraw(c) \/ DeleteCourse(c)
    BY <2>2 DEF Publish, Withdraw, DeleteCourse
  <2>3. CASE \E s \in Scopes : AskSync(s)
    BY <2>3 DEF AskSync
  <2>4. CASE \E t \in tasks : Copy(t) \/ CourseFails(t) \/ ReportFails(t)
    BY <2>4, TasksKeep DEF IInv
  <2>5. CASE \E w \in Workers : \/ Work(w) \/ SourceError(w) \/ DatabaseError(w)
                                \/ Crash(w) \/ Reconcile(w)
    BY <2>5, WorkersKeep DEF IInv
  <2> QED  BY <2>1, <2>2, <2>3, <2>4, <2>5 DEF Next
<1> QED  BY <1>2, <1>3, <1>4, <1>5

(* Whatever crashes and errors do to its workers, a sync is taken when it  *)
(* waits, done when it was taken, and stays failed, until a starting       *)
(* process puts it back: every step is a step of JobLifecycle or none.     *)
THEOREM SyncsKeepLifecycle == Spec => KeepsLifecycle
<1> DEFINE Stage == [j \in Jobs |-> StageOf(j)]
<1>1. Init => Lifecycle!Init
  BY DEF Init, Lifecycle!Init, StageOf
<1>2. IInv /\ [Next]_vars => [Lifecycle!Next]_Stage
  <2> SUFFICES ASSUME IInv, [Next]_vars  PROVE Lifecycle!Next
    OBVIOUS
  <2>1. Stage' \in [Jobs -> Lifecycle!Stages]
    BY StageIsNext
  <2>2. ASSUME NEW j \in Jobs
        PROVE  \/ Stage'[j] = Stage[j]
               \/ Lifecycle!Submit(j) \/ Lifecycle!Take(j) \/ Lifecycle!Finish(j)
               \/ Lifecycle!Bury(j) \/ Lifecycle!Reopen(j)
    <3>1. Stage[j] = StageOf(j) /\ Stage'[j] = StageOf(j)'
      OBVIOUS
    <3>2. Allowed(StageOf(j), StageOf(j)')
      BY NextStage
    <3> QED  BY <3>1, <3>2 DEF Allowed, Lifecycle!Submit, Lifecycle!Take,
                Lifecycle!Finish, Lifecycle!Bury, Lifecycle!Reopen, Lifecycle!Move
  <2> QED  BY <2>1, <2>2 DEF Lifecycle!Next
<1> QED  BY <1>1, <1>2, SyncJobsInvariant, PTL DEF KeepsLifecycle, Lifecycle!Spec, Spec
=============================================================================
