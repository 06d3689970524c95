--------------------------- MODULE ConferenceCall ---------------------------
(***************************************************************************)
(* One conference of the platform: the runtime object ConferenceCall of    *)
(* services/conference_service.py, the event loop that executes its        *)
(* events one at a time, the HTTP task that starts it, the auto-end timer  *)
(* and the call legs it dials at the voice provider.                       *)
(*                                                                         *)
(* asyncio runs one piece of code at a time and switches only at an await  *)
(* that suspends, so an action is the code between two such awaits.  `at'  *)
(* names the await where the handler of the current event is suspended:    *)
(*   announce  text-to-speech and system messages to the participants      *)
(*   call      create_call                                                 *)
(*   record    save_participant in Redis                                   *)
(*   lookup    get_all_participants from Redis                             *)
(*   hangup    get_call and update_call(hangup)                            *)
(*   forget    delete_participant in Redis                                 *)
(*   expire    the update_state after which the timer ends the conference  *)
(*   save      any other update_state                                      *)
(***************************************************************************)
EXTENDS Naturals, Sequences, FiniteSets

CONSTANTS
    Phones,      \* the phone numbers that can take part
    Teacher,     \* state.teacher_phone_number
    Enrolled,    \* the participants the conference is created with
    Requests,    \* the POST /start requests that can arrive
    RateLimit,   \* _VONAGE_RATE_LIMIT, the size of a batch of calls
    AutoEnd,     \* settings.auto_end_enabled
    Faults,      \* what may go wrong
    Commands,    \* the endpoints the teacher uses besides /start
    MaxQueue,    \* bound: requests wait while the queue is this long
    MaxDials     \* bound: call legs created for each phone

FaultKinds == {"cut", "start_fails", "hangup_fails", "reorder"}
CommandKinds == {"add", "remove", "end", "sink"}

ASSUME ConferenceAssumption ==
    /\ Enrolled \subseteq Phones             \* set_participant_state
    /\ Teacher \in Enrolled                  \* the teacher is always enrolled
    /\ RateLimit \in Nat \ {0}
    /\ AutoEnd \in BOOLEAN
    /\ Faults \subseteq FaultKinds
    /\ Commands \subseteq CommandKinds
    /\ MaxQueue \in Nat
    /\ MaxDials \in [Phones -> Nat]

-----------------------------------------------------------------------------
(* The types. *)

Absent  == "absent"                          \* not in state.participants
Status  == {"disconnected", "connecting", "connected"}
LegState == {"ringing", "answered", "over"}

StatusChange(p, s) == [type |-> "status", phone |-> p, status |-> s]
AddParticipant(p)  == [type |-> "add", phone |-> p]
RemoveParticipant(p) == [type |-> "remove", phone |-> p]
EndConference(byTimer) == [type |-> "end", auto |-> byTimer]
SinkConference == [type |-> "sink"]
StartTimer     == [type |-> "start_timer"]
CancelTimer    == [type |-> "cancel_timer"]
TimerExpired   == [type |-> "expired"]

StatusEvent == [type : {"status"}, phone : Phones, status : Status]
PhoneEvent  == [type : {"add", "remove"}, phone : Phones]
EndEvent    == [type : {"end"}, auto : BOOLEAN]
PlainEvent  == [type : {"sink", "start_timer", "cancel_timer", "expired"}]
Event       == StatusEvent \cup PhoneEvent \cup EndEvent \cup PlainEvent
NoEvent     == [type |-> "none"]
Watched     == {"add", "sink", "start_timer"}
Stage       == {"announce", "call", "record", "lookup", "hangup", "forget",
                "expire", "save"}

-----------------------------------------------------------------------------
VARIABLES
    registered,  \* the manager's _conferences holds the conference
    running,     \* state.is_running
    status,      \* state.participants[p].call_status, or Absent
    active,      \* state.auto_end_state.is_active
    queue,       \* event_queue
    task,        \* event_queue_processing_task
    ev,          \* the event it is executing
    at,          \* the await where that event's handler is suspended
    todo,        \* the legs EndConferenceEvent has still to look at
    starts,      \* where each POST /start request is
    rest,        \* the phones it has still to put into a batch
    dials,       \* its calls under way: <<p, 0>>, or <<p, i>> once leg i exists
    monitor,     \* the auto-end monitor task is alive
    ahead,       \* the starts that are over before auto_end_state.expires_at
    calls,       \* calls[p][i] is the state of the i-th leg dialled for p
    recorded,    \* the leg Redis holds for p, 0 if none
    hooks        \* status webhooks on their way to the platform

(* History, read by the properties only. *)
VARIABLES
    lost,        \* kinds of the Watched events whose handler was cut short
    contended    \* phones dialled while an older leg was up, or handled by
                 \* two tasks at once

confVars  == <<registered, running, status, active>>
loopVars  == <<task, ev, at, todo, lost>>
startVars == <<starts, rest, dials>>
timerVars == <<monitor, ahead>>
voiceVars == <<calls, hooks, contended>>
vars == <<confVars, queue, loopVars, startVars, timerVars, voiceVars, recorded>>

ConferenceOK ==
    /\ registered \in BOOLEAN
    /\ running \in BOOLEAN
    /\ status \in [Phones -> Status \cup {Absent}]
    /\ active \in BOOLEAN
    /\ queue \in Seq(Event)

LoopOK ==
    /\ task \in {"none", "idle", "busy", "sinking"}
    /\ ev \in Event \cup {NoEvent}
    /\ at \in Stage \cup {"-"}
    /\ todo \in SUBSET (Phones \X Nat)
    /\ task = "busy" => ev \in Event /\ at \in Stage
    /\ lost \in SUBSET Watched

StartsOK ==
    /\ starts \in [Requests -> {"idle", "persist", "dial", "save", "done",
                                "failed"}]
    /\ rest \in [Requests -> SUBSET Phones]
    /\ dials \in [Requests -> SUBSET (Phones \X Nat)]
    /\ monitor \in BOOLEAN
    /\ ahead \in SUBSET Requests

VoiceOK ==
    /\ calls \in [Phones -> Seq(LegState)]
    /\ recorded \in [Phones -> Nat]
    /\ hooks \in [Phones -> Seq(Status)]
    /\ contended \in SUBSET Phones

(* Every variable has its type, and a handler that is suspended has an event *)
(* and a place where it goes on.                                             *)
TypeOK == ConferenceOK /\ LoopOK /\ StartsOK /\ VoiceOK

(* create_conference *)
Init ==
    /\ registered = TRUE
    /\ running = FALSE
    /\ status = [p \in Phones |->
                   IF p \in Enrolled THEN "disconnected" ELSE Absent]
    /\ active = FALSE
    /\ queue = <<>>
    /\ task = "none"
    /\ ev = NoEvent
    /\ at = "-"
    /\ todo = {}
    /\ starts = [r \in Requests |-> "idle"]
    /\ rest = [r \in Requests |-> {}]
    /\ dials = [r \in Requests |-> {}]
    /\ monitor = FALSE
    /\ ahead = {}
    /\ calls = [p \in Phones |-> <<>>]
    /\ recorded = [p \in Phones |-> 0]
    /\ hooks = [p \in Phones |-> <<>>]
    /\ lost = {}
    /\ contended = {}

-----------------------------------------------------------------------------
(* The voice provider.  Each change of a leg is reported by a webhook that *)
(* names the phone only.                                                   *)

(* A leg of p has been created and its task has yet to record it. *)
Unrecorded(p) ==
    \E i \in 1..Len(calls[p]) :
        <<p, i>> \in todo \/ \E r \in Requests : <<p, i>> \in dials[r]

(* create_call for p *)
Dial(p) ==
    /\ Len(calls[p]) < MaxDials[p]
    /\ calls' = [calls EXCEPT ![p] = Append(@, "ringing")]
    /\ hooks' = [hooks EXCEPT ![p] = Append(@, "connecting")]
    /\ contended' = IF \/ \E i \in 1..Len(calls[p]) : calls[p][i] # "over"
                       \/ Unrecorded(p)
                       \/ ev = RemoveParticipant(p)
                    THEN contended \cup {p}
                    ELSE contended

(* update_call(hangup) of leg <<p, i>>, if that leg is in one of `states' *)
HangUp(leg, states) ==
    LET p == leg[1]
        i == leg[2]
    IN  IF i \in 1..Len(calls[p]) /\ calls[p][i] \in states
        THEN /\ calls' = [calls EXCEPT ![p][i] = "over"]
             /\ hooks' = [hooks EXCEPT ![p] = Append(@, "disconnected")]
        ELSE UNCHANGED <<calls, hooks>>

LegAnswered(p, i) ==
    /\ calls[p][i] = "ringing"
    /\ calls' = [calls EXCEPT ![p][i] = "answered"]
    /\ hooks' = [hooks EXCEPT ![p] = Append(@, "connected")]
    /\ UNCHANGED <<confVars, queue, loopVars, startVars, timerVars, recorded,
                   contended>>

(* Busy, unanswered, rejected, failed or completed. *)
LegEnds(p, i) ==
    /\ calls[p][i] # "over"
    /\ calls' = [calls EXCEPT ![p][i] = "over"]
    /\ hooks' = [hooks EXCEPT ![p] = Append(@, "disconnected")]
    /\ UNCHANGED <<confVars, queue, loopVars, startVars, timerVars, recorded,
                   contended>>

-----------------------------------------------------------------------------
(* The event loop, _process_conf_events_queue. *)

Has(type, stage) == task = "busy" /\ ev.type = type /\ at = stage

(* The next event is of this type and its handler runs up to an await. *)
Takes(type) ==
    /\ task \in {"idle", "sinking"}
    /\ queue # <<>>
    /\ Head(queue).type = type

(* A handler suspends.  In a loop that has cancelled itself ("sinking") the *)
(* first await that suspends raises CancelledError and the task is over.    *)
Await(e, stage, legs) ==
    IF task = "sinking"
    THEN /\ task' = "none" /\ ev' = NoEvent /\ at' = "-" /\ todo' = {}
         /\ lost' = lost \cup ({e.type} \cap Watched)
    ELSE /\ task' = "busy" /\ ev' = e /\ at' = stage /\ todo' = legs
         /\ lost' = lost

(* A handler returns and the loop takes the next event. *)
Return ==
    /\ task' = IF task = "sinking" THEN "sinking" ELSE "idle"
    /\ ev' = NoEvent /\ at' = "-" /\ todo' = {}
    /\ UNCHANGED lost

(* What the thread of a cancelled request to the voice provider still does. *)
Leftover ==
    \/ UNCHANGED voiceVars
    \/ Has("add", "call") /\ Dial(ev.phone)
    \/ /\ Has("end", "hangup")
       /\ \E leg \in todo : HangUp(leg, {"answered"})
       /\ UNCHANGED contended
    \/ /\ Has("remove", "hangup")
       /\ HangUp(<<ev.phone, recorded[ev.phone]>>, {"ringing", "answered"})
       /\ UNCHANGED contended

(* Whatever handler is suspended gets CancelledError; its event is gone. *)
DropHandler(next) ==
    /\ task' = next /\ ev' = NoEvent /\ at' = "-" /\ todo' = {}
    /\ lost' = IF task = "busy" THEN lost \cup ({ev.type} \cap Watched)
                               ELSE lost
    /\ Leftover

(* The handler is at an await that can take long or fail. *)
CanBeCut ==
    at = "announce" =>
        \/ \E q \in Phones \ {ev.phone} : status[q] = "connected"
        \/ /\ ev.type = "status" /\ ev.status = "disconnected"
           /\ ev.phone = Teacher /\ running

(* wait_for raises TimeoutError after 15 s, or the handler raises. *)
HandlerCut ==
    /\ "cut" \in Faults
    /\ task = "busy"
    /\ CanBeCut
    /\ DropHandler("idle")
    /\ UNCHANGED <<confVars, queue, startVars, timerVars, recorded>>

(* The self-cancelled loop finds the queue empty and suspends in get(). *)
LoopStops ==
    /\ task = "sinking"
    /\ queue = <<>>
    /\ task' = "none"
    /\ UNCHANGED <<confVars, queue, ev, at, todo, lost, startVars, timerVars,
                   voiceVars, recorded>>

(* update_state was the handler's last await. *)
HandlerSaved ==
    /\ \E type \in {"status", "add", "remove", "end", "cancel_timer",
                    "expired"} : Has(type, "save")
    /\ Return
    /\ UNCHANGED <<confVars, queue, startVars, timerVars, voiceVars, recorded>>

-----------------------------------------------------------------------------
(* CallStatusChangeEvent *)

(* Mutant: an outcome other than answered counts only for a connected leg. *)
ExecuteStatusConnectedOnly ==
    LET e == Head(queue)
        p == e.phone
        ignored == \/ status[p] \in {Absent, e.status}
                   \/ e.status = "disconnected" /\ status[p] # "connected"
    IN  /\ Takes("status")
        /\ queue' = Tail(queue)
        /\ \/ ignored /\ Return /\ UNCHANGED status
           \/ /\ ~ignored
              /\ status' = [status EXCEPT ![p] = e.status]
              /\ Await(e, IF e.status = "connecting" THEN "save"
                                                     ELSE "announce", {})
        /\ UNCHANGED <<registered, running, active, startVars, timerVars,
                       voiceVars, recorded>>

ExecuteStatus ==
    LET e == Head(queue)
        p == e.phone
    IN  /\ Takes("status")
        /\ queue' = Tail(queue)
        /\ \/ /\ status[p] \in {Absent, e.status}
              /\ Return
              /\ UNCHANGED status
           \/ /\ status[p] \notin {Absent, e.status}
              /\ status' = [status EXCEPT ![p] = e.status]
              /\ Await(e, IF e.status = "connecting" THEN "save"
                                                     ELSE "announce", {})
        /\ UNCHANGED <<registered, running, active, startVars, timerVars,
                       voiceVars, recorded>>

(* Mutant: the timer is started only if there is somebody to tell. *)
StatusAnnouncedToOthers ==
    /\ Has("status", "announce")
    /\ queue' =
         IF ev.phone = Teacher /\ ev.status = "connected" /\ active
         THEN Append(queue, CancelTimer)
         ELSE IF /\ ev.phone = Teacher /\ ev.status = "disconnected"
                 /\ \E q \in Phones : status[q] = "connected"
         THEN Append(queue, StartTimer)
         ELSE queue
    /\ Await(ev, "save", {})
    /\ UNCHANGED <<confVars, startVars, timerVars, voiceVars, recorded>>

(* The teacher's return cancels the timer, the teacher's leaving starts it. *)
StatusAnnounced ==
    /\ Has("status", "announce")
    /\ queue' =
         IF ev.phone = Teacher /\ ev.status = "connected" /\ active
         THEN Append(queue, CancelTimer)
         ELSE IF ev.phone = Teacher /\ ev.status = "disconnected"
         THEN Append(queue, StartTimer)
         ELSE queue
    /\ Await(ev, "save", {})
    /\ UNCHANGED <<confVars, startVars, timerVars, voiceVars, recorded>>

-----------------------------------------------------------------------------
(* The auto-end timer. *)

UnderWay(r) == starts[r] \in {"persist", "dial", "save"}

ExecuteStartTimer ==
    /\ Takes("start_timer")
    /\ queue' = Tail(queue)
    /\ \/ /\ ~AutoEnd \/ status[Teacher] \in {Absent, "connected"}
          /\ Return
          /\ UNCHANGED <<active, ahead>>
       \/ /\ AutoEnd /\ status[Teacher] \notin {Absent, "connected"}
          /\ active' = TRUE
          /\ ahead' = {r \in Requests : UnderWay(r)}
          /\ Await(StartTimer, "save", {})
    /\ UNCHANGED <<registered, running, status, startVars, monitor, voiceVars,
                   recorded>>

(* A monitor that is still alive is cancelled, a new one created. *)
TimerStarted ==
    /\ Has("start_timer", "save")
    /\ monitor' = TRUE
    /\ Return
    /\ UNCHANGED <<ahead, confVars, queue, startVars, voiceVars, recorded>>

(* expires_at has passed.  It is minutes after StartTimer wrote it: later   *)
(* than the end of that handler and of the starts then under way.           *)
MonitorExpires ==
    /\ monitor
    /\ active
    /\ ~Has("start_timer", "save")
    /\ \A r \in ahead : ~UnderWay(r)
    /\ queue' = Append(queue, TimerExpired)
    /\ monitor' = FALSE
    /\ UNCHANGED <<ahead, confVars, loopVars, startVars, voiceVars, recorded>>

(* The monitor wakes up and finds the timer switched off. *)
MonitorStops ==
    /\ monitor
    /\ ~active
    /\ monitor' = FALSE
    /\ UNCHANGED <<ahead, confVars, queue, loopVars, startVars, voiceVars, recorded>>

ExecuteExpired ==
    /\ Takes("expired")
    /\ queue' = Tail(queue)
    /\ active' = FALSE
    /\ IF ~active
       THEN Return
       ELSE Await(TimerExpired, IF status[Teacher] = "connected"
                                THEN "save" ELSE "expire", {})
    /\ UNCHANGED <<registered, running, status, startVars, timerVars, voiceVars,
                   recorded>>

ExpirySaved ==
    /\ Has("expired", "expire")
    /\ queue' = Append(queue, EndConference(TRUE))
    /\ Return
    /\ UNCHANGED <<confVars, startVars, timerVars, voiceVars, recorded>>

ExecuteCancelTimer ==
    /\ Takes("cancel_timer")
    /\ queue' = Tail(queue)
    /\ active' = FALSE
    /\ IF active
       THEN /\ monitor' = FALSE
            /\ Await(CancelTimer, "save", {})
       ELSE /\ UNCHANGED monitor
            /\ Return
    /\ UNCHANGED <<ahead, registered, running, status, startVars, voiceVars,
                   recorded>>

-----------------------------------------------------------------------------
(* EndConferenceEvent and end_conf *)

ExecuteEnd ==
    /\ Takes("end")
    /\ queue' = Tail(queue)
    /\ running' = FALSE
    /\ Await(Head(queue), "lookup", {})
    /\ UNCHANGED <<registered, status, active, startVars, timerVars, voiceVars,
                   recorded>>

EndLooksUp ==
    /\ Has("end", "lookup")
    /\ Await(ev, "hangup", {<<p, recorded[p]>> : p \in {q \in Phones :
                                                       recorded[q] # 0}})
    /\ UNCHANGED <<confVars, queue, startVars, timerVars, voiceVars, recorded>>

(* get_call, and a hangup if the leg is answered; an error is only logged. *)
EndHangsUp ==
    /\ Has("end", "hangup")
    /\ \E leg \in todo :
         /\ Await(ev, "hangup", todo \ {leg})
         /\ \/ HangUp(leg, {"answered"})
            \/ "hangup_fails" \in Faults /\ UNCHANGED <<calls, hooks>>
    /\ UNCHANGED <<confVars, queue, startVars, timerVars, recorded, contended>>

EndHungUp ==
    /\ Has("end", "hangup")
    /\ todo = {}
    /\ Await(ev, "save", {})
    /\ UNCHANGED <<confVars, queue, startVars, timerVars, voiceVars, recorded>>

-----------------------------------------------------------------------------
(* SinkConferenceEvent: the loop cancels itself and the manager forgets the *)
(* conference and what Redis holds of it.                                   *)

ExecuteSink ==
    /\ Takes("sink")
    /\ queue' = Tail(queue)
    /\ running' = FALSE
    /\ Await(SinkConference, "save", {})
    /\ UNCHANGED <<registered, status, active, startVars, timerVars, voiceVars,
                   recorded>>

(* Mutant: no on_sink_callback, the manager keeps the conference. *)
SinkSavedKeepsConference ==
    /\ Has("sink", "save")
    /\ task' = "sinking" /\ ev' = NoEvent /\ at' = "-" /\ todo' = {}
    /\ UNCHANGED <<confVars, queue, lost, startVars, timerVars, voiceVars,
                   recorded>>

SinkSaved ==
    /\ Has("sink", "save")
    /\ registered' = FALSE
    /\ recorded' = [p \in Phones |-> 0]
    /\ task' = "sinking" /\ ev' = NoEvent /\ at' = "-" /\ todo' = {}
    /\ UNCHANGED <<running, status, active, queue, lost, startVars, timerVars,
                   voiceVars>>

-----------------------------------------------------------------------------
(* AddParticipantEvent: dial first, then enter the participant. *)

ExecuteAdd ==
    LET e == Head(queue)
    IN  /\ Takes("add")
        /\ queue' = Tail(queue)
        /\ Await(e, IF status[e.phone] = "connected" THEN "save" ELSE "call",
                 {})
        /\ UNCHANGED <<confVars, startVars, timerVars, voiceVars, recorded>>

AddCalls ==
    /\ Has("add", "call")
    /\ Dial(ev.phone)
    /\ Await(ev, "record", {<<ev.phone, Len(calls[ev.phone]) + 1>>})
    /\ UNCHANGED <<confVars, queue, startVars, timerVars, recorded>>

AddRecords ==
    /\ Has("add", "record")
    /\ \E leg \in todo : recorded' = [recorded EXCEPT ![leg[1]] = leg[2]]
    /\ status' = [status EXCEPT ![ev.phone] =
                    IF @ = Absent THEN "disconnected" ELSE "connecting"]
    /\ Await(ev, "save", {})
    /\ UNCHANGED <<registered, running, active, queue, startVars, timerVars,
                   voiceVars>>

-----------------------------------------------------------------------------
(* RemoveParticipantEvent: tell the others, hang up, forget. *)

ExecuteRemove ==
    LET e == Head(queue)
    IN  /\ Takes("remove")
        /\ queue' = Tail(queue)
        /\ IF status[e.phone] = Absent
           THEN Return
           ELSE Await(e, IF \E q \in Phones \ {e.phone} :
                                 status[q] = "connected"
                         THEN "announce" ELSE "hangup", {})
        /\ UNCHANGED <<confVars, startVars, timerVars, voiceVars, recorded>>

RemoveAnnounced ==
    /\ Has("remove", "announce")
    /\ Await(ev, "hangup", {})
    /\ UNCHANGED <<confVars, queue, startVars, timerVars, voiceVars, recorded>>

(* With no leg in Redis there is nothing to hang up or to delete there. *)
RemoveHangsUp ==
    /\ Has("remove", "hangup")
    /\ IF recorded[ev.phone] = 0
       THEN /\ status' = [status EXCEPT ![ev.phone] = Absent]
            /\ Await(ev, "save", {})
            /\ UNCHANGED <<calls, hooks>>
       ELSE /\ HangUp(<<ev.phone, recorded[ev.phone]>>,
                      {"ringing", "answered"})
            /\ Await(ev, "forget", {})
            /\ UNCHANGED status
    /\ contended' = IF Unrecorded(ev.phone) THEN contended \cup {ev.phone}
                                           ELSE contended
    /\ UNCHANGED <<registered, running, active, queue, startVars, timerVars,
                   recorded>>

RemoveForgets ==
    /\ Has("remove", "forget")
    /\ recorded' = [recorded EXCEPT ![ev.phone] = 0]
    /\ status' = [status EXCEPT ![ev.phone] = Absent]
    /\ Await(ev, "save", {})
    /\ UNCHANGED <<registered, running, active, queue, startVars, timerVars,
                   voiceVars>>

-----------------------------------------------------------------------------
(* POST /start: start_conference_call runs in the request's own task, next  *)
(* to the event loop it starts.                                             *)

RequestStart(r) ==
    /\ registered
    /\ starts[r] = "idle"
    /\ starts' = [starts EXCEPT ![r] = "persist"]
    /\ DropHandler("idle")
    /\ UNCHANGED <<confVars, queue, rest, dials, timerVars, recorded>>

StartPersisted(r) ==
    /\ starts[r] = "persist"
    /\ starts' = [starts EXCEPT ![r] = "dial"]
    /\ rest' = [rest EXCEPT ![r] =
                  {Teacher} \cup {p \in Phones : status[p] # Absent}]
    /\ UNCHANGED <<confVars, queue, loopVars, dials, timerVars, voiceVars,
                   recorded>>

(* The teacher is in the first batch, a batch waits for the one before. *)
StartBatch(r) ==
    /\ starts[r] = "dial"
    /\ dials[r] = {}
    /\ \E batch \in SUBSET rest[r] :
         /\ batch # {}
         /\ Teacher \in rest[r] => Teacher \in batch
         /\ Cardinality(batch) = IF Cardinality(rest[r]) < RateLimit
                                 THEN Cardinality(rest[r]) ELSE RateLimit
         /\ dials' = [dials EXCEPT ![r] = batch \X {0}]
         /\ rest' = [rest EXCEPT ![r] = @ \ batch]
    /\ UNCHANGED <<confVars, queue, loopVars, starts, timerVars, voiceVars,
                   recorded>>

StartCalls(r, p) ==
    /\ <<p, 0>> \in dials[r]
    /\ Dial(p)
    /\ dials' = [dials EXCEPT ![r] =
                   (@ \ {<<p, 0>>}) \cup {<<p, Len(calls[p]) + 1>>}]
    /\ UNCHANGED <<confVars, queue, loopVars, starts, rest, timerVars, recorded>>

(* Mutant: the leg is not saved in Redis. *)
StartRecordsNothing(r, leg) ==
    /\ leg \in dials[r]
    /\ leg[2] # 0
    /\ dials' = [dials EXCEPT ![r] = @ \ {leg}]
    /\ UNCHANGED <<confVars, queue, loopVars, starts, rest, timerVars, voiceVars,
                   recorded>>

StartRecords(r, leg) ==
    /\ leg \in dials[r]
    /\ leg[2] # 0
    /\ recorded' = [recorded EXCEPT ![leg[1]] = leg[2]]
    /\ dials' = [dials EXCEPT ![r] = @ \ {leg}]
    /\ UNCHANGED <<confVars, queue, loopVars, starts, rest, timerVars, voiceVars>>

StartRuns(r) ==
    /\ starts[r] = "dial"
    /\ dials[r] = {}
    /\ rest[r] = {}
    /\ running' = TRUE
    /\ starts' = [starts EXCEPT ![r] = "save"]
    /\ UNCHANGED <<registered, status, active, queue, loopVars, rest, dials,
                   timerVars, voiceVars, recorded>>

(* Mutant: the old monitor is cancelled, no new one is created. *)
StartSavedCancelsMonitor(r) ==
    /\ starts[r] = "save"
    /\ starts' = [starts EXCEPT ![r] = "done"]
    /\ monitor' = (monitor /\ ~active)
    /\ UNCHANGED <<ahead, confVars, queue, loopVars, rest, dials, voiceVars, recorded>>

(* restore_auto_end_timer: a timer that is on gets a fresh monitor. *)
StartSaved(r) ==
    /\ starts[r] = "save"
    /\ starts' = [starts EXCEPT ![r] = "done"]
    /\ monitor' = (monitor \/ active)
    /\ UNCHANGED <<ahead, confVars, queue, loopVars, rest, dials, voiceVars, recorded>>

(* The exception handler ends the event loop.  The calls of the batch that  *)
(* are under way are not cancelled.                                         *)
FailStart(r) ==
    /\ starts' = [starts EXCEPT ![r] = "failed"]
    /\ DropHandler("none")

StartSaveFails(r) ==
    /\ "start_fails" \in Faults
    /\ starts[r] \in {"persist", "save"}
    /\ FailStart(r)
    /\ UNCHANGED <<confVars, queue, rest, dials, timerVars, recorded>>

StartCallFails(r, leg) ==
    /\ "start_fails" \in Faults
    /\ leg \in dials[r]
    /\ dials' = [dials EXCEPT ![r] = @ \ {leg}]
    /\ IF starts[r] = "dial"
       THEN FailStart(r)
       ELSE UNCHANGED <<starts, loopVars, voiceVars>>
    /\ UNCHANGED <<confVars, queue, rest, timerVars, recorded>>

-----------------------------------------------------------------------------
(* The other endpoints and the webhook put an event into the queue. *)

Enqueue(command, e) ==
    /\ command \in Commands
    /\ registered
    /\ Len(queue) < MaxQueue
    /\ queue' = Append(queue, e)
    /\ UNCHANGED <<confVars, ev, at, todo, lost, startVars, timerVars, voiceVars,
                   recorded>>

RequestAdd(p)    == Enqueue("add", AddParticipant(p)) /\ UNCHANGED task
RequestRemove(p) == Enqueue("remove", RemoveParticipant(p)) /\ UNCHANGED task
RequestEnd       == Enqueue("end", EndConference(FALSE)) /\ UNCHANGED task

(* Mutant: the event is only queued. *)
RequestSinkOnlyQueues == Enqueue("sink", SinkConference) /\ UNCHANGED task

(* PUT /sink restarts an event loop that is not alive. *)
RequestSink ==
    /\ Enqueue("sink", SinkConference)
    /\ task' = IF task = "none" THEN "idle" ELSE task

(* dispatch_conference_event, for the k-th webhook about p under way *)
Deliver(p, k) ==
    /\ k > 1 => "reorder" \in Faults
    /\ Len(queue) < MaxQueue
    /\ queue' = IF registered
                THEN Append(queue, StatusChange(p, hooks[p][k]))
                ELSE queue
    /\ hooks' = [hooks EXCEPT ![p] =
                   SubSeq(@, 1, k - 1) \o SubSeq(@, k + 1, Len(@))]
    /\ UNCHANGED <<confVars, loopVars, startVars, timerVars, calls, contended,
                   recorded>>

-----------------------------------------------------------------------------
(* Each of these is one stretch of code that asyncio runs without a switch. *)

TakeEvent ==
    \/ ExecuteStatus \/ ExecuteStartTimer \/ ExecuteExpired
    \/ ExecuteCancelTimer \/ ExecuteEnd \/ ExecuteSink \/ ExecuteAdd
    \/ ExecuteRemove

ResumeHandler ==
    \/ HandlerSaved \/ StatusAnnounced \/ TimerStarted \/ ExpirySaved
    \/ EndLooksUp \/ EndHangsUp \/ EndHungUp \/ SinkSaved
    \/ AddCalls \/ AddRecords
    \/ RemoveAnnounced \/ RemoveHangsUp \/ RemoveForgets

StartStep(r) ==
    \/ StartPersisted(r) \/ StartBatch(r) \/ StartRuns(r) \/ StartSaved(r)
    \/ \E p \in Phones : StartCalls(r, p)
    \/ \E leg \in dials[r] : StartRecords(r, leg)

StartFailure(r) ==
    \/ StartSaveFails(r)
    \/ \E leg \in dials[r] : StartCallFails(r, leg)

Monitor == MonitorExpires \/ MonitorStops

Teachers ==
    \/ \E r \in Requests : RequestStart(r)
    \/ \E p \in Phones : RequestAdd(p)
    \/ \E p \in Phones \ {Teacher} : RequestRemove(p)
    \/ RequestEnd
    \/ RequestSink

Voice ==
    \E p \in Phones :
        \/ \E i \in 1..Len(calls[p]) : LegAnswered(p, i) \/ LegEnds(p, i)
        \/ \E k \in 1..Len(hooks[p]) : Deliver(p, k)

(* A self-cancelled loop does not suspend before it is over. *)
Next ==
    \/ TakeEvent
    \/ LoopStops
    \/ /\ task # "sinking"
       /\ \/ ResumeHandler
          \/ HandlerCut
          \/ \E r \in Requests : StartStep(r) \/ StartFailure(r)
          \/ Monitor
          \/ Teachers
          \/ Voice

Spec == Init /\ [][Next]_vars

(***************************************************************************)
(* asyncio runs every task that is ready, a monitor wakes up at least      *)
(* every 30 s, the provider gives up on a leg that nobody answers and      *)
(* reports what becomes of its legs.  Nobody has to hang up, and no        *)
(* endpoint has to be called.                                              *)
(***************************************************************************)
Fairness ==
    /\ WF_vars(TakeEvent)
    /\ WF_vars(task # "sinking" /\ ResumeHandler)
    /\ WF_vars(LoopStops)
    /\ WF_vars(task # "sinking" /\ Monitor)
    /\ \A r \in Requests : WF_vars(task # "sinking" /\ StartStep(r))
    /\ \A p \in Phones :
         /\ WF_vars(/\ task # "sinking"
                    /\ \E k \in 1..Len(hooks[p]) : Deliver(p, k))
         /\ WF_vars(/\ task # "sinking"
                    /\ \E i \in 1..Len(calls[p]) :
                         calls[p][i] = "ringing" /\ LegEnds(p, i))

FairSpec == Spec /\ Fairness

-----------------------------------------------------------------------------
(* Safety. *)

Queued(type) == \E i \in 1..Len(queue) : queue[i].type = type
StartFailed  == \E r \in Requests : starts[r] = "failed"

(***************************************************************************)
(* A timer that is on is still going somewhere: its monitor is alive, or   *)
(* has put the expiry into the queue, or StartTeacherDisconnectTimerEvent  *)
(* is about to create it.  The one exception is a StartTimer handler that  *)
(* was cut short after it had set is_active (a timeout, a failing Redis,   *)
(* a second /start): the timer shown to the teacher then never fires.      *)
(***************************************************************************)
TimerDriven ==
    active => \/ monitor
              \/ Queued("expired")
              \/ Has("start_timer", "save")
              \/ "start_timer" \in lost

(***************************************************************************)
(* A conference that runs, or is being started, has an event loop to       *)
(* execute its events, as long as the manager knows it and no start has    *)
(* failed: sink and end never leave a running conference deaf, whatever    *)
(* they interleave with.                                                   *)
(***************************************************************************)
LoopAlive ==
    /\ registered
    /\ running \/ \E r \in Requests : UnderWay(r)
    /\ ~StartFailed
    => task # "none"

(* What the provider has last reported, or has still to report, about p. *)
LegView(p) ==
    IF calls[p] = <<>> THEN "disconnected"
    ELSE LET last == calls[p][Len(calls[p])]
         IN  CASE last = "ringing"  -> "connecting"
               [] last = "answered" -> "connected"
               [] last = "over"     -> "disconnected"

StatusQueued(p) ==
    \E i \in 1..Len(queue) : queue[i] \in StatusEvent /\ queue[i].phone = p

(***************************************************************************)
(* Once every webhook about a participant has been executed, call_status   *)
(* is what the participant's leg is: no timeout, cut handler, re-dial,     *)
(* removal or second /start leaves it stale.  Excepted are phones dialled  *)
(* again while an older leg was up: the events of two legs of one phone    *)
(* cannot be told apart.                                                   *)
(***************************************************************************)
StatusAgreement ==
    \A p \in Phones :
        /\ registered
        /\ status[p] # Absent
        /\ p \notin contended
        /\ hooks[p] = <<>>
        /\ ~StatusQueued(p)
        => status[p] = LegView(p)

(***************************************************************************)
(* Every leg that is up can be hung up: Redis holds it, or the task that   *)
(* dialled it is about to record it.  A leg is out of reach only if its    *)
(* dialling task was cut short or failed, or two tasks dialled, or dialled  *)
(* and removed, the phone at once, so that one leg hides the other.        *)
(***************************************************************************)
LegsReachable ==
    \A p \in Phones : \A i \in 1..Len(calls[p]) :
        calls[p][i] # "over" =>
            \/ recorded[p] = i
            \/ <<p, i>> \in todo
            \/ \E r \in Requests : <<p, i>> \in dials[r]
            \/ p \in contended
            \/ "add" \in lost
            \/ StartFailed
            \/ ~registered

-----------------------------------------------------------------------------
(* Liveness. *)

(***************************************************************************)
(* teacher_disconnect_timer_event.py: "auto-end conference if teacher      *)
(* stays disconnected".                                                    *)
(***************************************************************************)
TeacherGoneEnds ==
    (registered /\ running /\ status[Teacher] = "disconnected")
        ~> (~registered \/ ~running \/ status[Teacher] # "disconnected")

(***************************************************************************)
(* PUT /sink gets rid of the conference, whatever state it is in: also     *)
(* when its loop had died or executes other events first.                  *)
(***************************************************************************)
SinkSinks == Queued("sink") ~> (~registered \/ "sink" \in lost)

=============================================================================
