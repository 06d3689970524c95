------------------------------- MODULE IvrCall -------------------------------
(***************************************************************************)
(* One call of the IVR: the key presses of the caller on their way from    *)
(* POST /input (controllers/ivr_webhook_controller.py) over the service    *)
(* bus to consumers/dtmf_consumer.py and back as a menu, the call events,  *)
(* and the document of the call in ongoingIVRState that all of them share  *)
(* (repositories/ivr_repository.py).                                       *)
(*                                                                         *)
(* Webhooks and consumers run in any number of processes, so each access   *)
(* to the document, which MongoDB executes atomically, is an action.       *)
(*                                                                         *)
(* A menu (current_state_id, and the NCCO that presents it) is named by    *)
(* the presses that led to it.  What the menus say, the keys that control  *)
(* a recording being played, and the daily limit are left out.             *)
(***************************************************************************)
EXTENDS Naturals, Sequences, FiniteSets

CONSTANTS
    Presses,        \* the key presses (and input time-outs) of the call
    MaxTries,       \* bound: how often Vonage delivers one press
    MaxDeliveries,  \* bound: how often the service bus delivers a message
    Statuses,       \* the call events that the provider sends
    Faults,         \* what may go wrong
    None,           \* no document, no marker, no NCCO
    Bye             \* the NCCO "Server error ... Bye bye"

FaultKinds == {"consumer_cut", "push_fails", "send_fails", "retry"}

Menu == Seq(Presses)
Ncco == Menu \cup {Bye}
Tries == 1..MaxTries
Hook == Presses \X Tries                 \* a request to POST /input
CallEvent == {"answered", "completed"}   \* one status that is no end, one end

(* pending_dtmf, the marker by which webhook and consumer meet *)
Marker == [press : Presses, waiting : BOOLEAN, ncco : Ncco \cup {None}]

(* IVRCallStateMongoDoc: current_state_id, user_actions, version,           *)
(* pending_dtmf, last_dtmf_message_id                                       *)
Document == [menu : Menu, keys : Menu, version : Nat,
             pending : Marker \cup {None}, last : Presses \cup {None}]

(* Where the consumer of a press is, and the state it has in memory *)
Work == [at : {"idle", "check", "load", "save", "claim", "push", "record",
               "complete"},
         menu : Menu, keys : Menu, version : Nat, ncco : Ncco \cup {None}]

(* ... and that of a call event *)
EventWork == [at : {"idle", "find", "write", "archive", "delete"}, menu : Menu]

ASSUME IvrAssumption ==
    /\ MaxTries \in Nat \ {0}
    /\ MaxDeliveries \in Nat
    /\ Statuses \subseteq CallEvent
    /\ Faults \subseteq FaultKinds
    /\ None \notin Document \cup Marker \cup Ncco \cup Presses
    /\ Bye \notin Menu

-----------------------------------------------------------------------------
VARIABLES
    leg,        \* the call at the provider: "up" or "over"
    heard,      \* the NCCO that the caller was last given
    listening,  \* ... and is at an input action of
    started,    \* start_call_flow has inserted the document
    doc,        \* the document, or None
    hook,       \* where each request to /input is
    bus,        \* dtmf_input messages that can be received
    sent,       \* ... that were sent: the bus drops a repeated message_id
    received,   \* how often each message has been received
    work,       \* what the consumer does with each of them
    events,     \* call_event messages that can be received
    eventWork   \* what their consumer does with each of them

(* History, read by the properties only. *)
VARIABLES
    given,      \* presses whose NCCO was given to the caller
    claimed,    \* presses whose NCCO was put into the marker
    erased,     \* ... and lost there, or taken for a request given up
    unsure,     \* presses cut after their save and with no record of it
    recorded,   \* presses that were recorded in last_dtmf_message_id
    ended       \* the call has been archived and its document deleted

callVars  == <<leg, heard, listening, given>>
docVars   == <<started, doc, erased>>
busVars   == <<bus, sent, received>>
workVars  == <<work, claimed, unsure, recorded>>
eventVars == <<events, eventWork, ended>>
vars == <<callVars, docVars, hook, busVars, workVars, eventVars>>

Idle == [at |-> "idle", menu |-> <<>>, keys |-> <<>>, version |-> 0,
         ncco |-> None]

CallOK ==
    /\ leg \in {"up", "over"}
    /\ heard \in Ncco
    /\ listening \in BOOLEAN
    /\ given \in SUBSET Presses

DocOK ==
    /\ started \in BOOLEAN
    /\ doc \in Document \cup {None}
    /\ erased \in SUBSET Presses

BusOK ==
    /\ bus \in SUBSET Presses
    /\ sent \in SUBSET Presses
    /\ received \in [Presses -> Nat]

HookOK ==
    hook \in [Hook -> {"idle", "arm", "send", "send_unarmed", "wait", "done"}]

WorkOK ==
    /\ work \in [Presses -> Work]
    /\ claimed \in SUBSET Presses
    /\ unsure \in SUBSET Presses
    /\ recorded \in SUBSET Presses

EventOK ==
    /\ events \in SUBSET CallEvent
    /\ eventWork \in [CallEvent -> EventWork]
    /\ ended \in BOOLEAN

TypeOK == CallOK /\ DocOK /\ BusOK /\ HookOK /\ WorkOK /\ EventOK

(* start_call_flow has created the call and not yet inserted its document. *)
Init ==
    /\ leg = "up"
    /\ heard = <<>>
    /\ listening = TRUE
    /\ started = FALSE
    /\ doc = None
    /\ hook = [h \in Hook |-> "idle"]
    /\ bus = {}
    /\ sent = {}
    /\ received = [p \in Presses |-> 0]
    /\ work = [p \in Presses |-> Idle]
    /\ events = Statuses \ {"completed"}
    /\ eventWork = [e \in CallEvent |-> [at |-> "idle", menu |-> <<>>]]
    /\ given = {}
    /\ claimed = {}
    /\ erased = {}
    /\ unsure = {}
    /\ recorded = {}
    /\ ended = FALSE

(* start_call_flow, replace_one *)
StartSaves ==
    /\ ~started
    /\ started' = TRUE
    /\ doc' = [menu |-> <<>>, keys |-> <<>>, version |-> 0,
               pending |-> None, last |-> None]
    /\ UNCHANGED <<callVars, erased, hook, busVars, workVars, eventVars>>

-----------------------------------------------------------------------------
(* The caller and the provider. *)

(* The caller is given an NCCO; only one that asks for input listens on. *)
Give(p, ncco) ==
    IF leg = "up"
    THEN /\ heard' = ncco
         /\ listening' = (ncco # Bye)
         /\ given' = given \cup {p}
         /\ UNCHANGED leg
    ELSE UNCHANGED callVars

Press(p) ==
    /\ leg = "up"
    /\ listening
    /\ hook[<<p, 1>>] = "idle"
    /\ listening' = FALSE
    /\ hook' = [hook EXCEPT ![<<p, 1>>] = "arm"]
    /\ UNCHANGED <<leg, heard, given, docVars, busVars, workVars, eventVars>>

Latest(p, k) == \A j \in Tries : j > k => hook[<<p, j>>] = "idle"

(* Vonage gives up on a request and repeats it. *)
Retry(p, k) ==
    /\ "retry" \in Faults
    /\ k + 1 \in Tries
    /\ hook[<<p, k>>] \notin {"idle", "done"}
    /\ hook[<<p, k + 1>>] = "idle"
    /\ hook' = [hook EXCEPT ![<<p, k + 1>>] = "arm"]
    /\ UNCHANGED <<callVars, docVars, busVars, workVars, eventVars>>

(* The phone hangs up; POST /event queues the status for the consumer. *)
HangsUp ==
    /\ leg = "up"
    /\ leg' = "over"
    /\ events' = events \cup (Statuses \cap {"completed"})
    /\ UNCHANGED <<heard, listening, given, docVars, hook, busVars, workVars,
                   eventWork, ended>>

-----------------------------------------------------------------------------
(* POST /input: arm the marker, send the message, wait for the result. *)

Claimed(marker) == marker # None /\ ~marker.waiting

(* Presses whose result sits in the marker and would be lost with it. *)
Unclaimed == IF doc # None /\ Claimed(doc.pending)
             THEN {doc.pending.press} ELSE {}

(* set_dtmf_waiting *)
Arm(p, k) ==
    /\ hook[<<p, k>>] = "arm"
    /\ doc # None
    /\ doc' = [doc EXCEPT !.pending = [press |-> p, waiting |-> TRUE,
                                       ncco |-> None]]
    /\ erased' = erased \cup Unclaimed
    /\ hook' = [hook EXCEPT ![<<p, k>>] = "send"]
    /\ UNCHANGED <<callVars, started, busVars, workVars, eventVars>>

(* ... has not found the document in five attempts *)
ArmFails(p, k) ==
    /\ hook[<<p, k>>] = "arm"
    /\ doc = None
    /\ hook' = [hook EXCEPT ![<<p, k>>] = "send_unarmed"]
    /\ UNCHANGED <<callVars, docVars, busVars, workVars, eventVars>>

(* The answer to a request that Vonage has given up on is ignored; the      *)
(* placeholder asks for input again.                                        *)
Answer(p, k, ncco) ==
    IF ~Latest(p, k) THEN UNCHANGED callVars
    ELSE IF ncco # None THEN Give(p, ncco)
    ELSE /\ listening' = (leg = "up")
         /\ UNCHANGED <<leg, heard, given>>

(* send_dtmf_input reports a failure by returning False, which is not read. *)
Send(p, k) ==
    /\ hook[<<p, k>>] \in {"send", "send_unarmed"}
    /\ \/ /\ sent' = sent \cup {p}
          /\ bus' = IF p \in sent THEN bus ELSE bus \cup {p}
       \/ "send_fails" \in Faults /\ UNCHANGED <<bus, sent>>
    /\ IF hook[<<p, k>>] = "send"
       THEN /\ hook' = [hook EXCEPT ![<<p, k>>] = "wait"]
            /\ UNCHANGED callVars
       ELSE /\ hook' = [hook EXCEPT ![<<p, k>>] = "done"]
            /\ Answer(p, k, None)
    /\ UNCHANGED <<docVars, received, workVars, eventVars>>

(* Mutant: at the deadline the marker is only looked at, not removed. *)
PopPeeks(p, k) ==
    /\ hook[<<p, k>>] = "wait"
    /\ hook' = [hook EXCEPT ![<<p, k>>] = "done"]
    /\ IF doc # None /\ doc.pending # None /\ doc.pending.press = p
       THEN Answer(p, k, doc.pending.ncco)
       ELSE Answer(p, k, None)
    /\ UNCHANGED <<docVars, busVars, workVars, eventVars>>

(* pop_dtmf_result, after a poll that found the result or at the deadline *)
Pop(p, k) ==
    /\ hook[<<p, k>>] = "wait"
    /\ hook' = [hook EXCEPT ![<<p, k>>] = "done"]
    /\ IF doc # None /\ doc.pending # None /\ doc.pending.press = p
       THEN /\ Answer(p, k, doc.pending.ncco)
            /\ doc' = [doc EXCEPT !.pending = None]
            /\ erased' = IF Latest(p, k) /\ leg = "up" THEN erased
                                                       ELSE erased \cup Unclaimed
       ELSE /\ Answer(p, k, None)
            /\ UNCHANGED <<doc, erased>>
    /\ UNCHANGED <<started, busVars, workVars, eventVars>>

-----------------------------------------------------------------------------
(* dtmf_consumer: one action per access to the document or the provider. *)

Working(p, stage) == work[p].at = stage

Goes(p, stage) == work' = [work EXCEPT ![p].at = stage]

(* A message that is received is locked; one that is abandoned can be       *)
(* received again.                                                          *)
Locked(p) == bus \ {p}
Abandoned(p) == bus \cup {p}

Receive(p) ==
    /\ p \in bus
    /\ received[p] < MaxDeliveries
    /\ bus' = Locked(p)
    /\ received' = [received EXCEPT ![p] = @ + 1]
    /\ work' = [work EXCEPT ![p] = [Idle EXCEPT !.at = "check"]]
    /\ UNCHANGED <<callVars, docVars, hook, sent, claimed, unsure, recorded,
                   eventVars>>

(* Mutant: last_dtmf_message_id is not looked at. *)
DuplicateByMarker(p) ==
    /\ doc # None
    /\ Claimed(doc.pending)
    /\ doc.pending.press = p

(* is_dtmf_duplicate *)
Duplicate(p) ==
    /\ doc # None
    /\ \/ doc.last = p
       \/ Claimed(doc.pending) /\ doc.pending.press = p

Check(p) ==
    /\ Working(p, "check")
    /\ Goes(p, IF Duplicate(p) THEN "complete" ELSE "load")
    /\ UNCHANGED <<callVars, docVars, hook, busVars, claimed, unsure, recorded,
                   eventVars>>

(* find_ongoing_call, and the transition of the FSM *)
Load(p) ==
    /\ Working(p, "load")
    /\ doc # None
    /\ work' = [work EXCEPT ![p] =
                  [at |-> "save",
                   menu |-> Append(doc.menu, p),
                   keys |-> Append(doc.keys, p),
                   version |-> doc.version,
                   ncco |-> Append(doc.menu, p)]]
    /\ UNCHANGED <<callVars, docVars, hook, busVars, claimed, unsure, recorded,
                   eventVars>>

(* No document in three attempts: the caller is told goodbye. *)
LoadFails(p) ==
    /\ Working(p, "load")
    /\ doc = None
    /\ work' = [work EXCEPT ![p] = [Idle EXCEPT !.at = "claim", !.ncco = Bye]]
    /\ UNCHANGED <<callVars, docVars, hook, busVars, claimed, unsure, recorded,
                   eventVars>>

(* Mutant: the update does not select the version that was loaded. *)
SaveAnyVersion(p) ==
    LET w == work[p]
    IN  /\ Working(p, "save")
        /\ doc' = IF doc # None
                  THEN [doc EXCEPT !.menu = w.menu, !.keys = w.keys,
                                   !.version = w.version + 1]
                  ELSE [menu |-> w.menu, keys |-> w.keys,
                        version |-> w.version + 1,
                        pending |-> None, last |-> None]
        /\ Goes(p, "claim")
        /\ UNCHANGED <<callVars, started, erased, hook, busVars, claimed,
                       unsure, recorded, eventVars>>

(* save_ongoing_call updates the version that was loaded, inserts a document *)
(* that is gone, and otherwise fails; the marker and the record stay.        *)
Save(p) ==
    LET w == work[p]
    IN  /\ Working(p, "save")
        /\ \/ /\ doc # None
              /\ doc.version = w.version
              /\ doc' = [doc EXCEPT !.menu = w.menu, !.keys = w.keys,
                                    !.version = w.version + 1]
              /\ Goes(p, "claim")
           \/ /\ doc = None
              /\ doc' = [menu |-> w.menu, keys |-> w.keys,
                         version |-> w.version + 1,
                         pending |-> None, last |-> None]
              /\ Goes(p, "claim")
           \/ /\ doc # None
              /\ doc.version # w.version
              /\ Goes(p, "complete")
              /\ UNCHANGED doc
        /\ UNCHANGED <<callVars, started, erased, hook, busVars, claimed,
                       unsure, recorded, eventVars>>

(* Mutant: any marker that waits is taken, whatever its message_id. *)
ClaimAnyMarker(p) ==
    /\ Working(p, "claim")
    /\ IF doc # None /\ doc.pending # None /\ doc.pending.waiting
       THEN /\ doc' = [doc EXCEPT !.pending.waiting = FALSE,
                                  !.pending.ncco = work[p].ncco]
            /\ claimed' = claimed \cup {p}
            /\ Goes(p, "record")
       ELSE /\ Goes(p, "push")
            /\ UNCHANGED <<doc, claimed>>
    /\ UNCHANGED <<callVars, started, erased, hook, busVars, unsure, recorded,
                   eventVars>>

(* try_claim_dtmf_result *)
Claim(p) ==
    /\ Working(p, "claim")
    /\ IF /\ doc # None /\ doc.pending # None
          /\ doc.pending.press = p /\ doc.pending.waiting
       THEN /\ doc' = [doc EXCEPT !.pending.waiting = FALSE,
                                  !.pending.ncco = work[p].ncco]
            /\ claimed' = claimed \cup {p}
            /\ Goes(p, "record")
       ELSE /\ Goes(p, "push")
            /\ UNCHANGED <<doc, claimed>>
    /\ UNCHANGED <<callVars, started, erased, hook, busVars, unsure, recorded,
                   eventVars>>

(* update_call_ncco *)
Push(p) ==
    /\ Working(p, "push")
    /\ leg = "up"
    /\ Give(p, work[p].ncco)
    /\ Goes(p, "record")
    /\ UNCHANGED <<docVars, hook, busVars, claimed, unsure, recorded, eventVars>>

(* ... fails: the message is complete and is not recorded *)
PushFails(p) ==
    /\ Working(p, "push")
    /\ leg = "over" \/ "push_fails" \in Faults
    /\ Goes(p, "complete")
    /\ UNCHANGED <<callVars, docVars, hook, busVars, claimed, unsure, recorded,
                   eventVars>>

(* record_dtmf_processed *)
Record(p) ==
    /\ Working(p, "record")
    /\ doc' = IF doc = None THEN doc ELSE [doc EXCEPT !.last = p]
    /\ recorded' = IF doc = None THEN recorded ELSE recorded \cup {p}
    /\ Goes(p, "complete")
    /\ UNCHANGED <<callVars, started, erased, hook, busVars, claimed, unsure,
                   eventVars>>

Complete(p) ==
    /\ Working(p, "complete")
    /\ work' = [work EXCEPT ![p] = Idle]
    /\ UNCHANGED <<callVars, docVars, hook, busVars, claimed, unsure, recorded,
                   eventVars>>

(* An error abandons the message, a crash lets its lock expire: the bus     *)
(* delivers it again, or puts it away after too many deliveries.            *)
ConsumerCut(p) ==
    /\ "consumer_cut" \in Faults
    /\ ~Working(p, "idle")
    /\ work' = [work EXCEPT ![p] = Idle]
    /\ bus' = Abandoned(p)
    /\ unsure' = IF \/ work[p].at \in {"claim", "push", "record"}
                    \/ Working(p, "complete") /\ p \notin recorded
                 THEN unsure \cup {p} ELSE unsure
    /\ UNCHANGED <<callVars, docVars, hook, sent, received, claimed, recorded,
                   eventVars>>

-----------------------------------------------------------------------------
(* call_event_consumer and process_call_event *)

EventAt(e, stage) == eventWork[e].at = stage

EventGoes(e, stage) == eventWork' = [eventWork EXCEPT ![e].at = stage]

ReceiveEvent(e) ==
    /\ e \in events
    /\ EventAt(e, "idle")
    /\ events' = events \ {e}
    /\ EventGoes(e, "find")
    /\ UNCHANGED <<callVars, docVars, hook, busVars, workVars, ended>>

(* find_one; an event without a document is dropped after five attempts *)
FindForEvent(e) ==
    /\ EventAt(e, "find")
    /\ IF doc = None
       THEN EventGoes(e, "idle")
       ELSE eventWork' = [eventWork EXCEPT ![e] =
              [at |-> IF e = "completed" THEN "archive" ELSE "write",
               menu |-> doc.menu]]
    /\ UNCHANGED <<callVars, docVars, hook, busVars, workVars, events, ended>>

(* The state that was read is written back, whatever the version. *)
WriteEvent(e) ==
    /\ EventAt(e, "write")
    /\ doc' = IF doc = None THEN doc
              ELSE [doc EXCEPT !.menu = eventWork[e].menu]
    /\ EventGoes(e, "idle")
    /\ UNCHANGED <<callVars, started, erased, hook, busVars, workVars, events,
                   ended>>

(* update_one, find_one and the copy in ivrv2logs *)
Archive(e) ==
    /\ EventAt(e, "archive")
    /\ EventGoes(e, "delete")
    /\ UNCHANGED <<callVars, docVars, hook, busVars, workVars, events, ended>>

Delete(e) ==
    /\ EventAt(e, "delete")
    /\ doc' = None
    /\ erased' = erased \cup Unclaimed
    /\ ended' = TRUE
    /\ EventGoes(e, "idle")
    /\ UNCHANGED <<callVars, started, hook, busVars, workVars, events>>

EventCut(e) ==
    /\ "consumer_cut" \in Faults
    /\ ~EventAt(e, "idle")
    /\ events' = events \cup {e}
    /\ EventGoes(e, "idle")
    /\ UNCHANGED <<callVars, docVars, hook, busVars, workVars, ended>>

-----------------------------------------------------------------------------
Webhook(p, k) == Arm(p, k) \/ ArmFails(p, k) \/ Send(p, k) \/ Pop(p, k)

Consumer(p) ==
    \/ Receive(p) \/ Check(p) \/ Load(p) \/ LoadFails(p) \/ Save(p) \/ Claim(p)
    \/ Push(p) \/ PushFails(p) \/ Record(p) \/ Complete(p)

EventConsumer(e) ==
    \/ ReceiveEvent(e) \/ FindForEvent(e) \/ WriteEvent(e) \/ Archive(e)
    \/ Delete(e)

Next ==
    \/ StartSaves
    \/ HangsUp
    \/ \E p \in Presses :
         \/ Press(p)
         \/ Consumer(p)
         \/ ConsumerCut(p)
         \/ \E k \in Tries : Webhook(p, k) \/ Retry(p, k)
    \/ \E e \in CallEvent : EventConsumer(e) \/ EventCut(e)

Spec == Init /\ [][Next]_vars

(* Webhooks and consumers run on; nobody has to press a key or hang up. *)
Fairness ==
    /\ WF_vars(StartSaves)
    /\ \A p \in Presses :
         /\ WF_vars(Consumer(p))
         /\ \A k \in Tries : WF_vars(Webhook(p, k))
    /\ \A e \in CallEvent : WF_vars(EventConsumer(e))

FairSpec == Spec /\ Fairness

-----------------------------------------------------------------------------
(* Safety. *)

Pressed(keys) == {keys[i] : i \in 1..Len(keys)}

(* The step adds p to the document's user_actions. *)
Applies(p) == doc # None /\ doc' # None /\ doc'.keys = Append(doc.keys, p)

(***************************************************************************)
(* Until the call is archived, what the caller has pressed is never taken  *)
(* back: of any number of consumers that have loaded the document, each    *)
(* save that succeeds adds its press to the latest saved list, and none    *)
(* overwrites the press of another (optimistic locking by version).        *)
(***************************************************************************)
KeepsKeys ==
    doc # None /\ ~ended =>
        /\ doc' # None \/ ended'
        /\ doc' # None => \/ doc'.keys = doc.keys
                          \/ \E p \in Presses : Applies(p)

KeysKept == [][KeepsKeys]_vars

(***************************************************************************)
(* A message that the bus delivers again does not advance the menu again,  *)
(* although the consumer was cut anywhere.  Two exceptions: it was cut     *)
(* after the save with no record made (a push that fails is never          *)
(* recorded), or another press has been recorded since.                    *)
(***************************************************************************)
AppliesOnce ==
    \A p \in Presses :
        Applies(p) /\ ~ended /\ p \in Pressed(doc.keys) =>
            \/ p \in unsure
            \/ p \in recorded /\ doc.last # p

AppliedOnce == [][AppliesOnce]_vars

(* Some request waits for the result of p that is in the marker. *)
AwaitedInMarker(p) ==
    /\ p \in Unclaimed
    /\ \E k \in Tries : hook[<<p, k>>] \in {"send", "wait"}

(***************************************************************************)
(* The consumer leaves a result in the marker only if the webhook will     *)
(* take it: it has been given to the caller, or the webhook still waits.   *)
(* Webhooks that give up at this very moment do not lose it.  The one      *)
(* exception is a marker that was armed again.                             *)
(***************************************************************************)
BridgeHandsOver ==
    \A p \in claimed \ erased :
        leg = "up" => p \in given \/ AwaitedInMarker(p)

-----------------------------------------------------------------------------
(* Liveness. *)

(***************************************************************************)
(* A press that has advanced the menu is heard: its NCCO reaches the       *)
(* caller by the webhook or by update_call, unless the caller hangs up or  *)
(* the marker is lost.                                                     *)
(***************************************************************************)
AppliedIsHeard ==
    \A p \in Presses :
        (doc # None /\ p \in Pressed(doc.keys))
            ~> (p \in given \/ leg = "over" \/ p \in erased)

=============================================================================
