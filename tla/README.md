# SEEDS: a TLA+ model of the platform

SEEDS lets teachers hold lessons as telephone conferences and lets callers
listen to learning content through an IVR menu.  The core is the FastAPI
backend in `src/platform/app`; around it are a Node service that plays audio
into a call (`src/websocket-service`), two teacher applications
(`src/Teacher-App`, `src/teacher-webapp`) and a content administration
(`src/ContentWebApp`).

This directory holds TLA+ modules of the parts of the backend whose
correctness depends on order, concurrency and failure, the TLC configurations
that check them on small instances, and TLAPS proofs of what holds for every
instance.  Line numbers are those of the source tree the modules were
translated from; `PROJECT.json` maps each definition to its lines.

    tlc -workers 2 -config conf_lifecycle.cfg MCConferenceCall.tla
    tlapm ConferenceCallProofs.tla

## 1. Inventory

### The conference

| | |
|---|---|
| **Source** | `services/conference_service.py`, `services/confevents/*`, `services/conference_event_dispatcher.py`, `controllers/conference_controller.py`, `controllers/participants_controller.py`, `providers/vonage_api.py`, `services/redis_conference_store.py` |
| **State** | Per process: the manager's `_conferences`. Per conference: `ConferenceCallState` (`is_running`, participants with call status, mute and raised hand, `auto_end_state`, content status, action history), `event_queue`, `event_queue_processing_task`, the auto-end monitor task. In Redis: which leg belongs to which phone. At the provider: the legs themselves. |
| **Operations** | POST `/start`, PUT `/end`, `/sink`, add, remove, mute, playback; the status and DTMF webhooks of the provider; the timer. |
| **Interactions** | Endpoints and webhooks put events into the queue; one loop executes them, each under `wait_for(15 s)`. `/start` dials in the task of its own request, next to the loop it starts. Every leg change at the provider comes back as a webhook that names the phone, not the leg. |
| **Hard** | The loop, the starting task, the monitor and cancelled handlers interleave at every await; a handler can be cut at any await with its state half changed; a sink cancels the loop it runs in; a second `/start` replaces the loop. |
| **Correct means** | `call_status` is what the leg is; every leg that is up can be hung up; a timer that is shown is driven; a running conference has a loop; a conference whose teacher is gone ends; an end ends everything; a sink removes the conference. |

Mute, raised hands and the keys of conference participants (`mute_all_event.py`,
`dtmf_input_event.py`, ...) change `is_muted` before or after one request per
phone, which a thread may carry out later than the next: correct if who is
shown as muted is not heard.

Playback (`play_content_event.py`, ..., `providers/websocket_client.py`,
`src/websocket-service`): a control channel to the Node service, the content
status of the conference, and the reconnection of both: correct if a conference
hears one recording, the one that is shown.

Hold detection, transcription and capture (`services/audio/`,
`conference_service.py`): a task per start takes chunks from a bounded queue,
writes a recording, cuts segments, has them transcribed and sets a flag:
correct if recordings are closed, no speech is lost and the flag is about this
call.

Ownership and caller state (`conference_repository.py`,
`caller_state_service.py`) are single-document writes.

### The IVR

| | |
|---|---|
| **Source** | `services/ivr_service.py`, `repositories/ivr_repository.py`, `controllers/ivr_webhook_controller.py`, `consumers/dtmf_consumer.py`, `consumers/call_event_consumer.py`, `consumers/call_webhook_consumer.py`, `services/fsm/` |
| **State** | One document per call in `ongoingIVRState`: `current_state_id`, `user_actions`, `version`, the marker `pending_dtmf`, `last_dtmf_message_id`; three service bus queues; the daily listening usage. |
| **Operations** | A missed call starts a call; POST `/input` brings a key press; POST `/event` a call event; consumers process both. |
| **Interactions** | The webhook arms the marker, sends the press to the bus and polls the marker. The consumer advances the menu, saves it under the version it read, and gives the new NCCO to the webhook through the marker or, if nobody waits, to the provider by `update_call`. |
| **Hard** | Webhooks and consumers of any number of processes share the document; messages are delivered at least once; the webhook gives up while the consumer claims; the end of the call deletes the document under a consumer; the provider repeats requests. |
| **Correct means** | No press is overwritten or applied twice; a menu that was entered is heard, and the newest one last; what is archived stays archived. |

The menu itself (`services/fsm/`) is a state machine generated from the content
tree, one per set of documents; every call is on the machine it started with,
whatever is rebuilt.  Correct means: no dead ends, no document left out, the
score that of this attempt, and no listening that was not counted.

### Queues, jobs and data

| Component | State | Hard | Correct means |
|---|---|---|---|
| Service bus and base consumer (`providers/service_bus.py`, `consumers/base_consumer.py`) | locked messages per receiver | redelivery, reconnection with messages in hand, failed sends | what was accepted is processed or put away |
| Content jobs (`content_job_consumer.py`, `content_job_repository.py`) | job and content status | a worker that dies after its claim, a time limit that races the result, an edit during the processing | no upload is lost or forgotten, one worker per job, every job ends |
| Content list (`content_service.py`, `content_repository.py`, ...) | two collections | pages merged from two queries while others write | page after page shows everything |
| Sync jobs (`sync_job_consumer.py`, `subodha_service.py`, `content_aggregator_sync_job*_repository.py`) | jobs, items, course trees, progress streams | requeue at start-up of jobs that another process runs; check and create; a tree written root first | trees whole, items once, counts agree, every job and stream ends |
| Textbook remediation (`textbook_remediation*.py`, `remediation/`) | job status, drafts, artifacts | reconcile at start-up, late finish, review during the work | what is verified is what was compiled; a review is not taken back |
| Translations (`translation_service.py`, `translation_repository.py`) | one document per item, versions, audit trail, memory | requests that read a route and write minutes later | decisions stay; only approved text is served and reused; versions differ |
| Websites (`onboarding_service.py`, `website_repository.py`, migration 021) | the collection and its claims | two claims of one hostname, a migration under writers of both versions | one owner per hostname; the gate opens |
| Users, schools, classes, authentication | users, classes, tokens | check and write in separate calls; tokens that outlive what they say | schools keep their members; a phone is unique where it is looked up |
| Migrations 001-020 (`migrations/`) | every collection | cut and run again, beside writers | nothing lost, doubled or left in an older shape |
| Web and Android applications | user interface | | read for the requests they send |

`PROJECT.json` lists every component with its files and status, and the forty
hazards that the properties were written for, each at its line; section 10
lists the others.

## 2. The modules

| Module | Of | Checked by | Proved in |
|---|---|---|---|
| `ConferenceCall` | lifecycle, participants, timer and loop of one conference | `conf_lifecycle`, `conf_participants`, `conf_restart`, `conf_liveness` | `ConferenceCallProofs` |
| `IvrCall` | key presses and events of one IVR call | `ivr_bridge`, `ivr_redelivery`, `ivr_heard` | `IvrCallProofs` |
| `JobLifecycle` | what every background job promises (abstract) | as `KeepsLifecycle` of the three below | refined in the three below |
| `ContentJobs` | uploads, quizzes and their jobs | `content_jobs` | `ContentJobsProofs` |
| `RemediationJobs` | remediation and review of textbooks | `remediation` | `RemediationJobsProofs` |
| `SyncJobs` | synchronization of courses | `sync_jobs` | `SyncJobsProofs` |
| `SyncStreams` | `SyncJobs` with the streams that follow it, and fairness | `platform` | |
| `Translations` | translations of a site into one language | `translations` | `TranslationsProofs` |
| `Websites`, `IvrMenu`, `Accounts`, `Migrations`, `Catalogue` | one component each | `platform` | `DatabaseProofs` |
| `Playback`, `Muting`, `AudioRelay`, `Transcriber` | one component each | `platform` | `AudioProofs` |
| `Missing` | the constant `None` that the modules of the two rows above share | | |
| `MCConferenceCall`, `MCIvrCall`, `MCSyncJobs`, `MCTranslations` | values of constants, symmetry | | |
| `MCPlatform` | the sum of the modules that share no state (section 9) | | |

The modules are not composed into one system: the components meet in the
database, and each access to it is an action of the module that makes it, the
accesses of others being actions of the same module where they touch the same
documents.  `SyncStreams` composes `SyncJobs` with its readers; `Playback`
composes the platform, the Node service and the line between them.

## 3. ConferenceCall

### Correspondence

asyncio switches tasks only at an await that suspends, so an action is the code
between two such awaits, and `at` names the await where the handler of the
current event (`ev`) is suspended.  `Execute...` actions take an event from the
queue and run to the first await; the others resume a handler.

| Variable | Code |
|---|---|
| `registered` | the conference is in the manager's `_conferences` |
| `running`, `status`, `active` | `is_running`, `participants[p].call_status`, `auto_end_state.is_active` |
| `queue`, `task` | `event_queue`, `event_queue_processing_task` |
| `starts`, `rest`, `dials` | the tasks of the POST `/start` requests |
| `monitor`, `ahead` | the monitor task; which starts are over before the timer can expire |
| `calls`, `hooks` | the legs at the provider and the webhooks under way |
| `recorded` | the leg that Redis holds for a phone |
| `lost`, `contended` | history for the properties |

- **Failures.** A timeout (`wait_for`, 15 s) and an exception in a handler are
  both `HandlerCut`: the handler stops where it is, the loop goes on.  A request
  to the provider runs in a thread and outlives the cancellation of its handler;
  `Leftover` lets it take effect at the cut, or not at all.
- **The sink.** `SinkConferenceEvent` cancels the task it runs in.  The task goes
  on (`task = "sinking"`) until its next await that suspends: it finishes
  handlers that return without suspending and dies in the first that does.
  `wait_for` runs the handler in the same task (Python 3.12, the version of the
  Dockerfile and the CI), so the exception reaches the loop.
- **Time.** `expires_at` is at least a minute away: `MonitorExpires` waits until
  the StartTimer handler and the starts under way at that moment are over.
- **Provider.** Webhooks of one phone arrive in order unless `reorder` is among
  the faults.  Dialling is bounded by `MaxDials` per phone.

### Runs

| Run | Question |
|---|---|
| `conf_lifecycle` | reach of legs with cut handlers, failing starts and hang-ups, end and remove; batches of one |
| `conf_participants` | the status of a student who is added, removed and dialled again during a start |
| `conf_restart` | two `/start` requests and a sink, with cuts and webhooks that overtake one another: loop and timer |
| `conf_liveness` | an absent teacher ends the conference, a sink request removes it, whatever ends and sinks are requested meanwhile |

Bounds.  Two phones: a teacher, whose status drives the timer, and a student,
who can be removed; participants interact only through announcements and
batches, and one other participant is enough for both.  One leg per phone, two
where re-dialling is the question.  Two starts where they race.  `MaxQueue`
limits only what endpoints and webhooks add, one or two waiting events being
enough to put anything between a check and its effect; what handlers queue is
never limited.  Deadlock is not checked: a conference that has ended, and a call
whose caller is silent, may stop.

Fairness (`FairSpec`): the loop, the starts and the monitor are asyncio tasks
that are run whenever they are ready; the provider gives up on a leg that
nobody answers and delivers its webhooks.  No fairness for any endpoint, for
answering or hanging up, or for failures.

### Behaviours a reader may not expect

The model has all of them; no property calls them wrong, since the code
promises nothing else.

- The expired timer checks the teacher, then queues the end behind the events
  that are waiting, among them the teacher's return
  (`teacher_disconnect_timer_event.py:89`).
- Announcing the teacher's leaving to everybody can take the handler's 15 s; the
  timer is started after it, and so never.  `TeacherGoneEnds` is about handlers
  that are not cut.
- `end_conf` hangs up answered legs only, so that a leg that rings is answered
  in an ended conference (`vonage_api.py:275`).
- A start that is still dialling sets `is_running` after the end has been
  executed (`conference_service.py:320`).

### Proofs (`ConferenceCallProofs`)

For every set of phones and requests, batch size, bound, and combination of
commands and faults, from `ConferenceAssumption` alone unless said otherwise:

- `TypeCorrect`: `TypeOK`.  It is inductive as it stands, since it includes that
  a busy loop has an event and a stage.
- `TimerAlwaysDriven`: `TimerDriven`.  Inductive together with the types; the
  argument is that the monitor ends only by queueing the expiry or finding the
  timer off, that an expiry leaves the queue only by switching the timer off,
  and that a StartTimer handler which does not reach its end is in `lost`.
- `LoopAlwaysAlive`: `LoopAlive`.  Not inductive: a sinking loop dies at once.
  The strengthening is that a loop is sinking only when the manager has
  forgotten the conference.
- `LegsAlwaysReachable`: `LegsReachable`, every leg that is up is recorded or in
  the hands of whoever dialled it.  The invariant `LegsInv` has six parts: only
  legs that exist are held (`Bounded`), and only by handlers that hold legs
  (`Handling`); of a phone that is not contended only the newest leg is up, and
  nobody is about to record an older one (`Newest`); calls are under way only
  while a start dials or after it has failed (`Dialling`); what a removal forgets
  has been hung up (`Released`); and every other leg is held (`Held`).
- `StatusFollowsTheLeg`: `StatusAgreement`, under the hypothesis that the
  webhooks of one phone are not reordered (`"reorder" \notin Faults`), without
  which it is false.  The invariant `StatusInv` follows the newest report about a
  phone from the line (`LastHook`) over the queue (`LastQueued`) into the status
  (`Agreed`), and says that a participant is entered before the report about the
  leg is executed (`Reported`).  It uses `LegsInv`: a report is the newest because
  no older leg can still be up.

## 4. IvrCall

### Correspondence

Webhooks and consumers run in different processes, so every access to the
document, atomic in MongoDB, is an action, and so is every call of the provider.

| Variable | Code |
|---|---|
| `doc` | the document in `ongoingIVRState`; `menu` is `current_state_id`, `keys` is `user_actions`, `pending` is `pending_dtmf`, `last` is `last_dtmf_message_id` |
| `hook` | where each request to POST `/input` is: `arm`, `send`, `wait` |
| `bus`, `sent`, `received` | the queue `dtmf_input`, its deduplication by `message_id`, delivery counts |
| `work` | where the consumer of each message is, with the state it has loaded |
| `events`, `eventWork` | the queue `call_event` and its consumer |
| `leg`, `heard`, `listening` | the caller |
| `given`, `claimed`, `erased`, `unsure`, `recorded`, `ended` | history for the properties |

A menu is named by the presses that led to it, so that two menus are equal only
if they were reached by the same presses: whatever the menu tree, a press that
is lost or applied twice shows.  A press is at once the key, the request and the
message, whose id the webhook derives from the press.  The provider may repeat
a request that is not answered (`Retry`); the answer to a request it has given
up on is ignored.  An error in a consumer abandons the message and a crash lets
its lock expire; both are `ConsumerCut`.  A webhook polls the marker, but only
`pop_dtmf_result` changes it, and it may come at any time (the deadline): `Pop`
covers both.

### Runs

| Run | Question |
|---|---|
| `ivr_bridge` | a result the consumer leaves in the marker has somebody to fetch it, with repeated requests, failing sends and pushes |
| `ivr_redelivery` | optimistic locking keeps every press, and a redelivered message is applied once, with consumers cut anywhere |
| `ivr_heard` | liveness: a press that was applied is heard |

Two presses are enough for what one press does to another (the marker, the
version and `last` are single fields that two presses contend for), two tries
for a repeated request, two deliveries for a redelivery.  Which call events
the provider sends (`Statuses`) is chosen per run.  The presses are
interchangeable, and the safety runs use that symmetry; the liveness run does
not.  Fairness: consumers and webhooks run on; nobody has to press a key, hang
up, fail or be cut.

`AppliedOnce` names its exceptions, which the code cannot avoid without a
transaction or does not try to: a consumer cut after the save and with no
record of the message (a push that fails is never recorded), and a message
older than the one `last_dtmf_message_id` holds.

### Behaviours a reader may not expect

- The state is versioned, the push after it is not: an older NCCO may be pushed
  last (`dtmf_consumer.py:110`).
- A call event writes back the `current_state_id` it read before its retries,
  without the version check (`ivr_service.py:539`).
- The versioned save upserts and brings back the document that the end of the
  call has deleted (`ivr_repository.py:120`).

The exceptions of the properties are behaviours of the code as well: a
recorded message that is redelivered after another was recorded is processed
again (`AppliedOnce`); a repeated request wipes, or its predecessor pops, the
result the caller should hear, and the bus drops the second message
(`erased` in `BridgeHandsOver`).  And a send that fails returns False where the
webhook expects an exception, so that the caller hears the placeholder and never
`ENQUEUE_FAILED_NCCO`.

### Proofs (`IvrCallProofs`)

The types and the three safety properties of the runs, for every set of presses and
call events, any bound on tries and deliveries, and any mix of faults, from
`IvrAssumption` alone (the special values are distinct from the data):

- `TypeCorrect`: `TypeOK`, together with `NccoReady`: a consumer that may claim
  or push holds an NCCO.  Without it a stale write could pass on None.
- `PressesKept`: `KeysKept`.  The invariant is `Fresh` (no consumer is about to
  save before the call is stored) and `Loaded`: until the end, a state in memory
  is no newer than the document and, at the same version, is the document and
  one press.  A save therefore appends to what was saved last, or fails.
- `BridgeCorrect`: `BridgeHandsOver`.  It is inductive with `MarkerAwaited`: a
  marker in the document belongs to a request that still waits, and holds an NCCO
  once it is claimed; so the pop at the deadline always finds what was left.
- `PressesAppliedOnce`: `AppliedOnce`.  `OneMessage` says that a message is on the
  bus or being worked on, never both, and was sent; `Recognised` says, for a
  press that has been applied, how its message will be recognised where it is
  now: it is recorded, or past its save, or gone, or one of the exceptions.
  Each step of the consumer hands one of these over to the next, `Record` being
  the only step that changes `last_dtmf_message_id`.

`AppliedIsHeard` is liveness and is only model-checked.

## 5. Background jobs

`JobLifecycle` is what whoever asks for a job may count on: only a waiting job
is taken, only a taken one is done, a failed one stays failed, until somebody
interferes by hand.  The three job modules implement it under a refinement
mapping from their status fields and the history of interference (`StageOf`).
The promise is checked as `KeepsLifecycle` in three runs and proved for all
constants.

### ContentJobs

`at` of a worker says which access comes next, and so which write is under way
when the process ends, the database fails, the service it calls fails, the file
is corrupt, or the limit of `wait_for` strikes.  A document is the number of its
last upload and title; `dropped`, `replayed`, `orphans`, `raced` are history.

Run `content_jobs`: one content, one quiz, two jobs, two workers, every fault,
one edit and one replay; two workers are what a replay needs to meet another,
one edit what a late save needs to overwrite.  Fairness: a worker goes on.

- `EditsKept` excepts edits made between read and save: `save_processed` writes
  back both fields as they were read.
- `OneWorkerPerJob` excepts a replay whose first worker has still to write its
  failure: the time limit marks a job failed, then the worker marks it again.
- `JobsEnd` excepts jobs that lost their worker (`orphans`): nothing takes up a
  claimed or running job, `reconcile` exists for the other two kinds only.

Proved (`ContentJobsProofs`): `UploadsConsistent` (`Consistent`), `EditsAreKept`,
`JobsHaveOneWorker` (`OneWorkerPerJob`), `JobsKeepLifecycle`, from
`ContentJobsInvariant`.  The
inductive invariant has, next to the types, `Held` (what a worker's job and
document say while it is at each place), `Copies` (what a worker has read is
what is stored, or the content is in `raced`), `Wav` and `Pursued` (an
unprocessed content has a request or a job on its way).

### RemediationJobs

A worker goes through the places `start` ... `finish`, under the retries of
`BaseConsumer`; reviewers save drafts, verify, reprocess and delete while it
runs; a process that starts marks every running job failed.

Run `remediation`: one textbook, two processes, one reviewer, all faults, one
draft, one crash.  A second textbook would share nothing with the first.
Fairness: workers go on, processes are started again, streams look.

- `VerifiedIsDraft` excepts reviews that met a worker or another review: every
  update is by `_id`, none looks at the status.
- `StreamsEnd` and `JobsEnd` (in `Ends`) except jobs somebody interfered with.

Proved (`RemediationJobsProofs`): `JobsConsistent` (`Consistent`),
`ReviewsAreKept` (the action property `ReviewKept`), `JobsKeepLifecycle`, from
`RemediationInvariant`.  Parts of the invariant: `Holders` and `OneHolder` (who is on
a job and that nobody else is, unless it was touched), `Undisturbed`,
`OneReviewer`, `RunningIsHeld`, `Compiled` (the document is the draft's at each place of a review)
and `Explained` (which translations are missing, and why, at each place of a
worker).  `TranslatedOrExplained` had been stated for jobs nobody had touched; the proof
showed that it needs no exception, and it has none now.

### SyncJobs and SyncStreams

A consumer claims a job and starts a task per course; a task compares hashes,
writes the tree root first, prunes, records an item and counts.  A process that
starts puts the running jobs back and deletes their items.  A stored course is
the version of its root, of the nodes all versions have, and which versions left
nodes of their own: enough to tell a whole tree from one whose write was cut.

Run `sync_jobs`: two jobs, two processes, one course that is published or
withdrawn once, two faults, safety with symmetry.  `SyncJobsEnd` (in `platform`):
one job that is followed, two processes, two faults, liveness.  Fairness: loops
and tasks go on, a process that ended is started again, a stream looks.

- `TreesWhole` excepts courses whose last upsert failed, died or met another:
  the hash, written first, then hides the gap from every later sync.
- `ItemsOnce` and `CountsAgree` except jobs that a starting process took from a
  live one (`touched`), and tasks that outlive their job (`stray`).
- `OneActiveSync` excepts requests that both looked before either inserted.

Proved (`SyncJobsProofs`): `SyncJobsConsistent` (`Consistent`), `TreesStayWhole`
(`TreesWhole`), `SyncsKeepLifecycle`, from `SyncJobsInvariant`.  Parts of the
invariant: `Typed`; `Working`, which is `Holders` (one worker per job, at the place
its status says), `TasksCounted` (a job's counter and items agree with the tasks
that still run), `Fresh` (a job to be listed has no items) and `Interrupted` (what
a starting process has read of a job is not older than its last try); `Asked`
(who has looked for an active job), `Grown` (how far the one task that writes a
tree is) and `Present`.  The proof is of any number of
faults, the run of two: with three, a process may reconcile from a list that is
older than the last reconciliation of another, and take a job that is running
again.  `raced` and `touched` name that case, which the run had not reached.

## 6. Translations

No request locks anything: one that generates reads its route, looks texts up in
the memory, asks the provider and then writes over what is there; a review reads
its document and writes by id; a bulk approval reads all pending entries, writes
them, their versions and their audit records.  Every access is an action.  A
text is a number: 1 is the machine's, others are what editors write.

Run `translations`: two items of one source text (the memory is keyed by the
text, so that one item can spread it to the other), a visitor and a reader, two
reviews of any kind, one change of the site's status or languages.

- `DecisionKept` excepts items for which a request that had read them before
  wrote after the decision.  The same race makes `VersionsDistinct` except them:
  the next number is read from the document.
- `OnlyApproved`: neither the memory nor a visitor of a site that is not first
  party gets a text no reviewer has seen.
- `Consistent`: the version is in the history, the audit trail counts every
  change, unless a request was cut between its writes.

Proved (`TranslationsProofs`) for any items, source texts, requests, reviews and
edits: `TranslationsInvariant`, and from it `TranslationsConsistent`, `DecisionsStay`, `OnlyApprovedSpreads`,
`VersionsDiffer`.  The invariant: `Shaped` (types, and who holds what where),
`Decided` (a review at its write holds what it read, or the item is in `raced`),
`Approved` (every approved text in memory, in flight or answered is in
`blessed`), `Numbers` (bounds on the version numbers in the document, in the
history and in hand) and `Audited`.  It needs that no request is both a visitor
and a review, that `Nobody` is no item, and that the reviews are finitely many:
the audit trail is compared with the number of reviews in flight.

## 7. What is heard in a conference

### Muting

Events of the teacher and of the keypads wait in one queue; each sends one
request per phone, in a thread that outlives a handler which is cut after 15 s.
`people` is what the code believes, `leg` the provider, `late` the threads left
over, `screen` what the application was last told.

`MutingConsistent`: whoever is shown as muted is not heard and the reverse;
nobody who was removed is on the line; the screen is what the code believes.
Excepted, by `doubt`: phones whose request was cut or refused, and legs newer
than the flag: a student who is dialled again joins muted whatever `is_muted`
says, and unmute-all skips those it takes for open.
Instance: a teacher, two students (one the leader), three asks or faults, one
waiting event.

### Playback

Three processes and the line between two of them: commands and reports may be
lost with the line, downloads end in any order, the leg may be opened twice
(attaching it is cut by the handler's limit while its request goes on).

`PlaybackConsistent`: a leg carries one stream however commands follow each
other (`playbackId`); what should be playing is sent; and, once everything is
handled, what is shown is what is heard, unless one of the named mishaps
happened (`doubt`).  Instance: two recordings, two commands or faults after the
first, two legs, two speeds: the second command is what overlaps the first.

Two branches are left out because no run of the code takes them: the service
asks for a new leg with the message RECONNECT and the platform knows `reconnect`
only (`websocketService.js:605`), so that a leg that was closed is not opened
again; and a system message is sent as a command by its file name, which the
service cannot read as a URL (`conference_service.py:173`).

### AudioRelay and Transcriber

`AudioRelay` is the task of each start, the queue that drops when it is full,
the recording with its upload and retries, the window of transcripts and the
flag.  `RelayConsistent`: no recording stays open that no later end would close
(`RecordingsClosed`), nothing listens after a sink (`SunkIsSilent`), and the flag
speaks of these calls (`HeldIsHeard`) unless the words are those of calls before.
`relayDoubt` names what is excepted: a recording that is left open because its
predecessor was still being uploaded, a reset by a start, earlier words.
Instance: a queue of one, a window of two, two starts, two chunks, one fault.

`Transcriber` is how frames become segments.  `SegmentsConsistent`: a voiced run
that is long enough is in a segment (`SpeechKept`), frames are in order, each
once, and two segments share the overlap at most (`SegmentsInOrder`), and what is
sent has enough speech (`EnoughSpeech`).  Instance: segments of at most six frames
(start 2, pre-roll 3, silence 2, overlap 1) over every pattern of twelve frames,
twice the longest segment.

### Proofs (`AudioProofs`)

`NobodyHeardAsMuted`, `ShownIsWhatIsHeard`, `RelayKeepsWatch` and
`SpeechReachesText` state the four properties above for all constants; each
follows from an invariant of its own.

- `MutingInvariant`, from `MutingAssumption`: a wish names a phone
  (`WishesName`), and the marks are no phones (`Marks`).  `MutingConsistent` is
  not inductive: a request takes effect on the leg before or after the flag is
  set.  `Heard` says what a leg is while its request is under way, and what a leg
  that rings will be once it is answered; `Asked` that requests belong to the
  event being executed; `LateDoubted` that what outlives its event has its phone
  in `doubt`; `Shown` and `GoneIsGone` are the other two parts of the property.
- `PlaybackInvariant`, from `PlaybackAssumption` (the normal speed is one of the
  speeds, and `None` is neither a file nor a content).  `ShownIsHeard` says
  nothing until everything is handled; the invariant must say what will be shown
  then.  `Word` is the last report on its way, on the line, in the queue or
  shown; `StatusTrue`, `SpeedTrue` and `UrlTrue` that it is true of the leg unless
  a command that is on its way, or a download, is going to change it.
  `StreamsKeyed` is why a leg carries one stream: a `playbackId` is used for one
  stream, and all but the newest of a leg are dead.  `LegsSound` ties streams
  to what their legs have loaded.
- `RelayInvariant`, from `RelayAssumption` (`None` is no number and no queue, the
  window holds a text).  `RecordingsClosed` and `SunkIsSilent` are inductive with
  the types; the flag is not: `HoldHeard` adds that each text in the window that
  says so is known to have been heard, of which calls, and that while the
  detector works on it the flag may still be behind.
- `SegmentsInvariant`, from `SegmentsAssumption`.  `Waiting` and `Speaking` say
  which frames are being gathered (the last ones, without a gap, after the
  overlap) and what the counters count; `Past` and `TailWhole` that all segments
  that ended, and the overlap, lie before them.  Of the settings the proof needs
  that the pre-roll holds the frames that begin a segment, that a segment may
  be longer than pre-roll and overlap together and than two overlaps, and that
  the overlap is no longer than start and silence.  The defaults (20 ms frames)
  satisfy this; `transcriber.py` does not compare its settings, so that other
  values of the environment lose or repeat frames.

## 8. Data

### Websites

Registration and update by processes of this version, writes of the older one,
deletions, and migration 021, which computes `claimed_domains` under all of them
in rounds.  `OneOwner`: at most one website answers for a hostname once the gate
is open.  `WebsitesConsistent`: claims follow names, and a migration that
reports success leaves nothing out.  `GateOpens` (liveness, fairness for the
migration's next step only): once documents are in order the gate opens.
Instance: two documents, two requests, four hostnames of which two differ in
case and one is invalid, five collections an older version may have left, three
events.  What the older version wrote is excepted (`tampered`): it does not know
the claims.

### IvrMenu

The machine a set of documents makes, as operators, and calls that walk it while
machines are rebuilt, processes restart and keys are delivered again.  A call
whose document is deleted while a key of it is between the check and the count of
the listening time (`late`) is counted all the same, and only then over; the
restart of a process does not bring it back.
`MenusWhole`: a machine that was built has no dead ends, leaves no document out
and announces no key that does nothing, but for a quiz of one question, whose
question no key leads to (`quiz.py:141`), and an option with nothing below.
`CallsConsistent`: a call is in a state of the machine it started with, its score is
that of this attempt, and the limit holds unless two keys are checked at once.
Instances: four sets of documents with two pages, quizzes of one and two
questions and a type without prompt, on one leg; and a race of two legs on the
smallest.

### Accounts

Every endpoint decides from the claims of its token and from reads, then
writes.  `AccountsConsistent`: a school is in itself, phones differ where they
are looked up, a class is in its teacher's school.  `MembersKept`: deleting a
school strands nobody who was counted.  Excepted: cut creations, checks that
look at one of several matching documents, transfers (a token keeps the old
school), users that come while the school is being deleted.  Instance: four
populations, two requests, two tokens.

### Migrations

Every migration of the runner as its database operations, cut anywhere and run
again from chosen positions, beside requests of the platform.  A migration that changes an `_id` inserts the copy
under a new key (`FreshKey`: one that no copy of the document has, as a generated
ObjectId is) and then deletes the original; `half` is the document it stands
between the two with, if any.
`MigrationsConsistent`: nothing is lost or overwritten, copies are only those a
cut left, only a second run of 001 brings back what was deleted, and a complete
run leaves no older shape.  Instance: eight databases, each with documents of
some collections, two runs, two writes.

### Catalogue

A page is merged from two queries between which others write; the cursor is a
time in seconds, and the next page starts at it.  `CatalogueWhole`: a client that
reached the last page saw all that was there throughout; a page repeats only if
as many documents of one age as fit on it end it, or one without a creation time
(`PagesMove`: the listing then does not advance); themes that are offered lead,
with some type, to recordings.  Instance: five
documents of at most three ages, pages of two, one write.

### Proofs (`DatabaseProofs`)

The invariants above are proved for all constants, each from an inductive
invariant of its component.

- `HostnamesHaveOneOwner` (`OneOwner`) and `ClaimsAreTrue`
  (`WebsitesConsistent`), by `SitesInvariant`, for any collection an older version
  has left, any hostnames and requests, from `WebsitesAssumption`.  The
  invariant: a request is served by this version only once the indexes exist
  (`ServedHere`), the migration writes only after it has created them, and only to
  documents it has read (`Phased`), the unique index holds and before it there are
  no claims (`Indexing`), and claims follow the names (`Claimed`).  That a hostname
  has one owner follows: whoever answers for it has it among the claims, and the
  index lets one document claim it.
- `AccountsAgree` (`AccountsConsistent`) and `NobodyLosesSchool` (`MembersKept`),
  by `AccountsInvariant`, from `AccountsAssumption`: the kinds of ids are apart,
  and a population to start from is itself consistent.  The writes of a request
  come after its reads, so the invariant is mostly about decisions that wait:
  `Decided` (what is to be written is about a user who is there, or an id nobody
  has), `Checked` (a phone that was looked up is still good against everybody whom
  the check saw and who is not `doubtful`), `MembersCounted` (whoever was counted
  is gone, or came since and is in `uncounted`), `TokenTrue` and `ClassTrue` (what a
  token or class says holds of its user unless he was transferred).
- `ListShowsAll` (`CatalogueWhole`), by `CatalogueInvariant`, from
  `CatalogueAssumption`.  `Ahead`: what the reader has still to see is in the list
  from its cursor on.  `FirstHalf`, between the two queries of a page: a
  recording that was not fetched is older than all that were, and those are more
  than a page; the merged page therefore never ends behind it.  The attempt
  showed that `PagesMove` needs its exception for documents without a creation
  time, which pages of two do not reach and pages of three do.
- `CallsAgree` (`CallsConsistent`), by `MenuInvariant`, from `MenuAssumption`
  (documents of a set are finitely many, a page holds something, numbers are
  numbers).  `CallFits` ties each call to its own machine, its state, its
  recording and a score that some answers give, so that rebuilding a machine or
  restarting a process changes nothing it says; that every transition leads to a
  state of the same machine, for every set of documents, is a lemma per kind of
  state.  `RoomForCheck` and `HeardWasCounted` are the daily limit: one check is
  open with room for its recording, and the seconds owed to the calls that were
  counted are a set of pairs, since there is no sum to reason about.
- `MigrationsAgree` (`MigrationsConsistent`), by `DocumentsInvariant`, from
  `PopulationsAssumption`, which is what the migrations take for granted of the
  older documents: one document per thing, references as text and string ids only
  where some migration converts them, and older field names only in the
  combinations it selects by (`Understood`).  Four ideas make `MigrationsInv`
  inductive.  `Sound`: ids are distinct, every document has an origin among what
  was left, and one the platform cannot find has no edit.  `Reading`: what a
  migration has read is still what is stored, up to the platform's edit, and due;
  while it makes copies what it read is there.  `FewCopies` counts originals, cut
  runs and the one under way.  `Swept`: a run from the first migration on has left
  nothing due of any migration behind its position, whoever wrote meanwhile, which
  at the end is `CompleteIsShaped`.

The proofs changed the models where these were wrong.  In `IvrMenu` a call that
had been deleted was brought back by the restart of the process that held its
key; a key that had been checked was forgotten with its call although its count
is still written.  In `Migrations` the copy of a document could get the key of
another copy after 019 had removed one.  `PagesMove` lacked an exception.
`AccountsAssumption`, `RelayAssumption`, `PopulationsAssumption` and the others
were found by need: TLC evaluates each of them on the values of `platform.cfg`.

## 9. MCPlatform

The modules of sections 7 and 8, and `SyncStreams`, share no state and need few
states each.  `MCPlatform` is their sum: `Init` chooses a `part`, and the
variables of the others stay as they are.  It is one specification checked once,
with fairness for the parts that have liveness properties, each guarded by its
`part`.  It extends all of them but `SyncStreams`, so that the properties checked
are the definitions the theorems are about and TLC evaluates the assumptions they
rest on; an invariant holds in the parts of others by their initial states.  The run
has 409,575 distinct states.

## 10. What is only model-checked, and what is not modelled

### Model-checked only

- Liveness: `TeacherGoneEnds`, `SinkSinks`, `AppliedIsHeard`, `JobsEnd`, `Ends`,
  `SyncJobsEnd`, `GateOpens`.  Fairness and ENABLED are out of reach of the prover.
- `MenusWhole`, that no menu has a dead end and none leaves a document out: whether
  every state can be reached is a question of paths of any length, whose answer
  for every set of documents takes an induction over data.  It is checked for
  the sets of documents of `platform`.

Every invariant that a run checks is stated by a theorem, and so are the action
properties; what is left to the runs alone is the list above.

The bounds of the runs are named in the constants (`MaxDials`, `MaxFaults`, ...).
The theorems hold for every value of them, the liveness results and the
properties above for the instances of the runs.

### Not modelled

- Code that nothing runs: `restore_from_redis` (tests only),
  `AutoEndTimerFailedEvent`, `HoldDetectedEvent`, `handle_incoming_message` (the
  route `/websocket/{conference_id}` rejects every connection),
  `AudioRecordingConsumer` and `AudioAnalysisConsumer` (nobody produces for them),
  `SASService`, the command STOP_AUDIO (never sent).
- A recording whose process dies before it is closed, retries of `create_call`
  (a leg whose answer is lost is out of reach of the code), and asset uploads, of
  which one that fails is skipped.
- What is said and shown: prompts, wording, the rendering of textbooks
  (`remediation/render.py`), the storage of files (`providers/blob_storage.py`),
  telemetry, settings, build and deployment.
- The web and Android applications are user interface; the order in which they
  send requests is not constrained in the models.

### Further hazards

Beside the forty of `PROJECT.json`, the code is exposed to these.  Where
properties are named they cover the hazard too.

- `providers/vonage_api.py:313`: A removal reads the recorded leg while the
  start task has dialled but not recorded the same phone: the leg survives the
  removal. (`LegsReachable`)
- `services/confevents/teacher_disconnect_timer_event.py:35`: is_active is set
  before the await and the monitor is created after it: cut there, or by a
  second start, the timer shown to the teacher has nobody to drive it.
  (`TimerDriven`)
- `services/confevents/sink_conf_event.py:25`: A sink cancels the very task it
  runs in; what is behind it in the queue is executed or dropped depending on
  the next await, and a start may replace the loop at the same time.
  (`LoopAlive`, `SinkSinks`)
- `services/confevents/teacher_disconnect_timer_event.py:89`: The end is queued
  behind events that arrived before it: the teacher's return is executed between
  the check and the end. ConferenceCall has both orders. The code promises no
  more than that the end is queued, so that a teacher who is back for an instant
  is hung up like the others; TeacherGoneEnds only asks for the end of a teacher
  who stays away.
- `providers/vonage_api.py:275`: Only answered legs are hung up at the end of a
  conference; a leg that rings is answered afterwards. The model has the
  behaviour: such a leg stays recorded, which is all that LegsReachable asks. No
  property says more, because end_conf is written to hang up answered legs.
- `services/conference_service.py:320`: The end is executed by the event loop
  while the start task is still dialling, and the start then declares the
  conference running. ConferenceCall has the behaviour: the conference then runs
  without its legs until somebody ends it again, which the code allows. No code
  or doc says what an end during a start promises.
- `services/conference_event_dispatcher.py:57`: Webhooks are processed as
  background tasks and carry no sequence number: an answered that overtakes a
  ringing leaves call_status behind for good. That the status agrees with the
  leg is false under reordering, by design of the webhook. The run
  conf_participants and the theorem StatusFollowsTheLeg are about the
  participants whose events were not overtaken (contended excludes the others).
- `services/confevents/call_status_change_event.py:26`: Events are keyed by the
  phone, not by the leg: the completed event of an older leg marks a participant
  disconnected who has been dialled again and is up. Excluded from
  StatusAgreement by `contended'; the code has nothing that could tell the legs
  apart.
- `providers/vonage_api.py:107`: create_call is retried after a ReadTimeout: if
  the first request had reached the provider, the phone is dialled twice and
  only the second leg is recorded. The retry is not modelled: a leg from a lost
  answer is out of reach for the code by construction.
- `services/conference_service.py:471`: The last update_state of a start fails
  after is_running was set: the exception handler cancels the loop of a
  conference that claims to run. LoopAlive excepts failed starts for that
  reason; only a second start or a sink revives the loop.
- `services/conference_service.py:502`: A restart of the process forgets every
  conference: restore_from_redis is called by tests only, legs stay up and their
  webhooks are dropped. There is no recovery to model until somebody calls it.
- `providers/vonage_api.py:398`: reconnect_websocket loops every two seconds
  until some participant has a conversation; inside an event handler it holds up
  the queue until the timeout cuts it. The loop is reached by a RECONNECT
  message only, and the audio service sends its type as RECONNECT where the
  platform compares with reconnect: it never runs. Playback models the link as
  it is, without the loop.
- `providers/vonage_api.py:308`: A student who is re-dialled joins muted,
  whatever is_muted says. (`MutingConsistent`)
- `services/confevents/mute_all_event.py:33`: Mute-all gathers one request per
  student; some fail, the rest are applied, and a cut leaves is_muted behind
  what the provider did. (`MutingConsistent`)
- `services/confevents/resume_content_event.py:21`: The playback status is
  STARTING before the message is sent; if sending fails it stays STARTING.
  (`PlaybackConsistent`)
- `repositories/ivr_repository.py:141`: set_dtmf_waiting overwrites the pending
  marker, also one whose result is claimed and not yet popped; a repeated
  request does exactly that. (`BridgeHandsOver`)
- `services/ivr_service.py:539`: A call event writes back the current_state_id
  it read before its retries, without the version check: a key press processed
  meanwhile is undone. IvrCall has the behaviour: call events carry no version,
  and no property of the document survives that write. KeysKept is about the
  saves that carry one.
- `repositories/ivr_repository.py:120`: The versioned save upserts: a key press
  processed after the call has ended brings the deleted state back. (`KeysKept`)
- `services/ivr_service.py:167`: Two missed calls of one phone both find no
  ongoing call, and both dial. IvrMenu has two legs of one phone that both pass
  the check; CallsConsistent holds of each, and nothing in the code says that there
  is one.
- `repositories/content_job_repository.py:55`: mark_* are unconditional: the
  timeout's mark_failed and the worker's mark_completed overwrite one another.
  (`OneWorkerPerJob`, `JobsEnd`)
- `services/content_aggregator_sync_jobs.py:128`: A subscriber reads the
  snapshot and then subscribes: progress between the two is missed.
  (`SyncJobsEnd`)
- `consumers/dtmf_consumer.py:110`: The versioned save orders the states,
  nothing orders the pushes that follow: the caller may be left with the older
  menu. IvrCall has the behaviour: no order among the pushes of two consumers is
  kept, and the code does not try. AppliedIsHeard asks that each applied key is
  pushed, in whatever order.
- `providers/service_bus.py:136`: A failed send is a return value nobody reads:
  the webhook waits for a message that does not exist. The model has the
  behaviour (the fault send_fails): the caller hears the placeholder and never
  ENQUEUE_FAILED_NCCO (ivr_webhook_controller.py:39), since an exception is
  expected where False is returned.
- `services/ivr_service.py:483`: A completed event that is processed before
  start_call_flow has inserted the document is dropped after five attempts: the
  document is never archived. IvrCall has the behaviour; nothing in the code
  promises otherwise, and start_call_flow deletes such documents when they are
  stale.
- `services/fsm/fsm.py:185`: The daily listening usage is increased during the
  transition, before the save that may be rejected: a stale write or a
  redelivery counts twice. (`CallsConsistent`)
- `providers/service_bus.py:99`: An error of receive reconnects the receiver and
  forgets the messages in flight: their consumers finish the work, cannot
  complete the message, and it is delivered again. (`AppliedOnce`, `KeysKept`)
- `services/content_service.py:49`: The content is inserted and the job that
  would process it is not enqueued: nothing ever processes it. (`Consistent`)
- `repositories/content_aggregator_sync_job_repository.py:119`: A process that
  starts reads the running jobs, and writes by _id later: a job which another
  process has put back and worked on meanwhile is put back once more, its items
  deleted under its worker. The proof led to it: it takes three faults.
  (`Consistent`)
- `repositories/content_aggregator_repository.py:31`: Two syncs upsert one
  course from different reads of the source, and each prunes what the other
  wrote. (`TreesWhole`)
- `services/subodha_service.py:265`: gather raises at the first course that
  fails and leaves the other tasks running: they go on counting in a job that is
  over. (`Consistent`, `KeepsLifecycle`)
- `repositories/translation_repository.py:143`: The memory takes any approved
  text of the site, and what it keeps is approved again: one text no reviewer
  saw would spread to every page. (`OnlyApproved`)
- `repositories/translation_repository.py:28`: upsert_source never updates the
  text of a key that is there: a page whose text changed keeps the old source
  and its translations. A consequence of $setOnInsert that the code shows in the
  operator itself; UpsertSource models it and no statement of the code is at
  odds with it.
- `repositories/website_repository.py:128`: An update of the names must
  recompute the claims of the whole document, of which the request names a part.
  (`OneOwner`, `WebsitesConsistent`)
- `services/fsm/instantiation/insti.py:260`: The pages of a menu are computed by
  a rounded division, their links by comparison with the number of pages: an
  item behind the last link would be unreachable. (`MenusWhole`)
- `services/fsm/instantiation/quiz.py:128`: Key 8 replays the question and is an
  option of a question with eight: the construction raises, and the whole
  machine is not rebuilt. (`MenusWhole`)
- `services/fsm/instantiation/insti.py:142`: A type without a prompt is skipped:
  a theme that has only such types must not leave a caller in a menu that offers
  nothing. (`MenusWhole`)
- `services/fsm/instantiation/insti.py:319`: A quiz is offered by its local
  title and looked up by its title: the menu below is built from another
  selection. (`MenusWhole`)
- `services/fsm/state.py:93`: A stored machine cannot be read back after a
  restart: the process builds a new one, while calls in progress name the old.
  (`CallsConsistent`)
- `services/ivr_service.py:354`: is_paused and playback_speed stay in the
  document when the caller goes on to another recording: the next pause key
  resumes a recording that plays. IvrMenu keeps the flags as the code does
  (TogglePause, ChangeSpeed). What the player then does is in the websocket
  service, which the two modules do not share.
- `services/user_service.py:219`: A school is a user and a member of itself: a
  request that deletes a member must not delete the school. (`MembersKept`)
- `services/school_service.py:91`: A school is inserted and then updated with
  its own id: cut in between it is a school of none. (`AccountsConsistent`)
- `services/user_service.py:232`: An update of a teacher's phone number is not
  compared with the others, as that of a student is. (`AccountsConsistent`)
- `migrations/005_contentsv3_snake_case.py:143`: The document is replaced as it
  was read: a write of the running service in between is lost.
  (`MigrationsConsistent`)
- `migrations/002_tenant_scoped_indexes.py:126`: A unique index is created over
  documents an earlier migration has not cleaned: the order and the outcome of
  the runs decide whether it exists. (`MigrationsConsistent`)
- `services/content_service.py:92`: A page is merged from two queries with
  writes in between; the cursor is that of the merged page. (`CatalogueWhole`)
- `services/content_service.py:249`: An item without a creation time ends a
  page: the cursor it gives does not parse, and the listing starts over.
  (`CatalogueWhole`)
- `src/services/websocketService.js:88`: Two play commands overlap: the download
  that ends last is what is played, whatever was asked last.
  (`PlaybackConsistent`)
- `src/services/websocketService.js:397`: Resume or seek with nothing loaded
  raises: the state the platform shows must come back from STARTING.
  (`PlaybackConsistent`)
- `services/confevents/play_content_event.py:24`: The status is STARTING before
  the command is sent; if sending fails nobody takes it back.
  (`PlaybackConsistent`)
- `providers/vonage_api.py:302`: Attaching the audio leg is cut by the 15 s
  limit of the handler while its request goes on: the next attempt opens a
  second leg. (`PlaybackConsistent`)
- `src/services/websocketService.js:605`: A closed audio leg is reported as
  RECONNECT, which the platform does not understand: it is never opened again.
  Playback models the message as ignored: a conference without a leg stays
  silent until the next participant is dialled. NoDeadAir, a part of
  PlaybackConsistent, excepts it.
- `src/services/websocketService.js:600`: The close of an audio leg is reported
  over a control connection that may be gone: the handler dereferences undefined
  and the process ends. Playback has the end of the process as an action
  (Restart), whatever its cause.
- `services/conference_service.py:173`: A system message is sent over the
  control link as a command the audio service does not have; it takes it for a
  file to play. System messages are not in Playback: neither side has a test of
  what is meant, and README.md lists the mismatch.
- `services/confevents/unmute_all_event.py:28`: A student who is dialled again
  joins muted while is_muted says what it said before: unmute-all skips those it
  takes for open. (`MutingConsistent`)
- `services/confevents/mute_participant_event.py:29`: is_muted is set and the
  handler is cut at the announcement, before the state is published: the screens
  show the old value. (`MutingConsistent`)
- `providers/websocket_client.py:241`: The queue of audio to the detector is full:
  chunks are dropped, and what the detector says is about a gap.
  (`RelayConsistent`)
- `services/conference_service.py:321`: The hold flag is reset by a start while
  the detector still works on audio from before. (`RelayConsistent`)
- `services/conference_service.py:474`: A start that fails stops the relay of a
  conference that still runs. (`RelayConsistent`)
- `services/audio/websocket_audio_processor.py:36`: The window of transcripts
  outlives the call: the words of the last one count for the next.
  (`RelayConsistent`)
