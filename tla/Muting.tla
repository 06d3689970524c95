------------------------------- MODULE Muting -------------------------------
(***************************************************************************)
(* Who may be heard in a conference: the events that mute, unmute, raise a *)
(* hand, add and remove, as the event loop executes them, and the legs the *)
(* provider carries.  An event waits for the provider; the loop cuts it    *)
(* after 15 seconds, while a request in a thread goes on.                  *)
(***************************************************************************)
EXTENDS Missing, Naturals, Sequences, FiniteSets

CONSTANTS
    Teacher, Students, Leader,  \* telephone numbers; the leader is a student
    Answered,                   \* those who have answered when the model begins
    Wishes,                     \* what the teacher and the keypads may ask
    MaxAsks,                    \* bound: of these, of failures and hang-ups
    MaxInbox                    \* bound: of these, waiting at one time

Phones == {Teacher} \union Students
EventAbout(type, phone) == [type |-> type, phone |-> phone]

Participant == [muted : BOOLEAN, raised : BOOLEAN, connected : BOOLEAN]

(* What an event loop is given, and the requests it makes. *)
News        == [type : {"status"}, phone : Phones, connected : BOOLEAN]
Message     == Wishes \cup News
Request     == [mute : BOOLEAN, stage : {"asked", "applied", "noted"}]

(* A wish names a phone, but for mute_all and unmute_all; the marks are   *)
(* no phones.                                                              *)
WishesName ==
    \A e \in Wishes :
        /\ e.type # "status"
        /\ e.type \notin {"mute_all", "unmute_all"} => e.phone \in Phones
Marks ==
    /\ "screen" \notin Phones
    /\ None \notin Participant \cup Message \cup Request

ASSUME MutingAssumption == WishesName /\ Marks

VARIABLES
    people,     \* state.participants: [muted, raised, connected], or None
    leg,        \* the newest leg of a phone: "none", "ringing", "muted", "open"
    inbox,      \* event_queue
    current,    \* the event that is being executed, or None
    asking,     \* its request for a phone: [mute, stage], or None
    late,       \* requests of events that were cut, still under way
    screen,     \* the state last sent to the teacher's application
    asks, doubt

mutingVars == <<people, leg, inbox, current, asking, late, screen, asks, doubt>>

Live(p) == leg[p] \in {"muted", "open"}
Sound(mute) == IF mute THEN "muted" ELSE "open"
Muted(p) == leg[p] = "muted"

Connected(p) == IF people[p] = None THEN FALSE ELSE people[p].connected

\* How far the request for a phone has come.
Stage(p) == IF asking[p] = None THEN "none" ELSE asking[p].stage

\* update_state
Publish == screen' = people' /\ doubt' = doubt \ {"screen"}

Fault == asks < MaxAsks /\ asks' = asks + 1

----------------------------------------------------------------------------
(* The event loop                                                          *)

Ask(e) ==
    /\ Len(inbox) < MaxInbox /\ Fault
    /\ inbox' = Append(inbox, e)
    /\ UNCHANGED <<people, leg, current, asking, late, screen, doubt>>

\* The students whom "all" is about: those whose flag differs.
Differ(mute) == {p \in Students : people[p] # None /\ people[p].muted # mute}

\* What an event asks of the provider: the phones, and whether to mute them.
Mutes(e) == e.type \in {"mute", "mute_all"} \/ (e.type = "key" /\ e.key = "1")
About(e) ==
    IF e.type \in {"mute", "unmute"} THEN {e.phone} ELSE Differ(Mutes(e))

IsMuting(e) ==
    \/ /\ e.type \in {"mute", "unmute"}
       /\ people[e.phone] # None
    \/ /\ e.type \in {"mute_all", "unmute_all"}
       /\ people[Teacher] # None
    \/ /\ e.type = "key" /\ e.phone = Leader /\ people[Leader] # None
       /\ e.key \in {"1", "3"} /\ people[Teacher] # None

BeginEvent(e) ==
    /\ IsMuting(e)
    /\ current' = e
    /\ asking' = [p \in Phones |-> IF p \in About(e)
                                    THEN [mute |-> Mutes(e), stage |-> "asked"]
                                    ELSE None]
    /\ UNCHANGED <<people, leg, late, screen, doubt>>

IsHand(e) ==
    /\ e.type = "key" /\ e.key = "0" /\ e.phone \in Students
    /\ people[e.phone] # None /\ ~ people[e.phone].raised

RaiseHand(e) ==
    /\ IsHand(e)
    /\ people' = [people EXCEPT ![e.phone].raised = TRUE]
    /\ Publish
    /\ UNCHANGED <<leg, current, asking, late>>

\* add_participant dials whoever is not connected.  A new leg is born muted,
\* the teacher's excepted, whatever the flag of the participant says.
Dial(p) ==
    /\ ~ Connected(p)
    /\ people' = IF people[p] # None THEN people
                 ELSE [people EXCEPT ![p] = [muted |-> TRUE, raised |-> FALSE,
                                             connected |-> FALSE]]
    /\ leg' = [leg EXCEPT ![p] = "ringing"]
    /\ late' = {l \in late : l.phone # p}
    /\ screen' = people'
    /\ doubt' = (doubt \ {"screen", p})
                  \union {q \in {p} : people'[p].muted # (p # Teacher)}

Add(e) ==
    /\ e.type = "add"
    /\ \/ Dial(e.phone)
       \/ /\ Connected(e.phone)
          /\ UNCHANGED <<people, leg, late>> /\ Publish
    /\ UNCHANGED <<current, asking>>

\* remove_participant hangs up first, and the record goes after it.
RemoveParticipant(e) ==
    /\ e.type = "remove" /\ people[e.phone] # None
    /\ people' = [people EXCEPT ![e.phone] = None]
    /\ leg' = [leg EXCEPT ![e.phone] = "none"]
    /\ Publish
    /\ UNCHANGED <<current, asking, late>>

IsNews(e) ==
    /\ e.type = "status" /\ people[e.phone] # None
    /\ people[e.phone].connected # e.connected

CallStatus(e) ==
    /\ IsNews(e)
    /\ people' = [people EXCEPT ![e.phone].connected = e.connected]
    /\ Publish
    /\ UNCHANGED <<leg, current, asking, late>>

\* A phone, key or state the event is not for, or an error at the provider.
Ignored(e) ==
    /\ ~ (IsMuting(e) \/ IsHand(e) \/ IsNews(e))
    /\ UNCHANGED <<people, leg, current, asking, late, screen, doubt>>

Process ==
    /\ current = None /\ inbox # <<>>
    /\ inbox' = Tail(inbox)
    /\ LET e == Head(inbox)
       IN  BeginEvent(e) \/ RaiseHand(e) \/ Add(e) \/ RemoveParticipant(e) \/ CallStatus(e) \/ Ignored(e)
    /\ UNCHANGED asks

----------------------------------------------------------------------------
(* Requests to the provider, those of "all" at the same time               *)

\* The provider mutes a leg that was answered.
Apply(p) ==
    /\ Stage(p) = "asked" /\ Live(p)
    /\ leg' = [leg EXCEPT ![p] = Sound(asking[p].mute)]
    /\ asking' = [asking EXCEPT ![p].stage = "applied"]
    /\ UNCHANGED <<people, inbox, current, late, screen, asks, doubt>>

Single == current.type \in {"mute", "unmute"}

\* The answer: the flag follows, and an unmuted student's hand goes down.
Noted(p) ==
    [people EXCEPT ![p].muted = asking[p].mute,
                   ![p].raised = @ /\ asking[p].mute]

Note(p) ==
    /\ Stage(p) = "applied"
    /\ people' = Noted(p)
    /\ asking' = [asking EXCEPT ![p] = IF Single THEN [@ EXCEPT !.stage = "noted"] ELSE None]
    /\ IF Single THEN UNCHANGED <<screen, doubt>> ELSE Publish
    /\ UNCHANGED <<leg, inbox, current, late, asks>>

FailNoted(p) ==  \* mutant: the flag is set although the provider refused
    /\ Stage(p) \in {"asked", "applied"}
    /\ IF Stage(p) = "asked" /\ ~ Live(p) THEN UNCHANGED asks ELSE Fault
    /\ asking' = [asking EXCEPT ![p] = None]
    /\ people' = Noted(p)
    /\ screen' = people'
    /\ UNCHANGED <<leg, inbox, current, late, doubt>>

\* No leg to mute, or no answer.  The flag stays as it was.
Fail(p) ==
    /\ Stage(p) \in {"asked", "applied"}
    /\ IF Stage(p) = "asked" /\ ~ Live(p) THEN UNCHANGED asks ELSE Fault
    /\ asking' = [asking EXCEPT ![p] = None]
    /\ doubt' = IF Stage(p) = "applied" THEN doubt \union {p} ELSE doubt
    /\ UNCHANGED <<people, leg, inbox, current, late, screen>>

\* The end of an event: an error ends one for a single phone unpublished.
FinishEvent ==
    /\ current # None
    /\ \A p \in Phones : Stage(p) \in {"none", "noted"}
    /\ current' = None /\ asking' = [p \in Phones |-> None]
    /\ UNCHANGED people
    /\ IF Single /\ asking[current.phone] = None THEN UNCHANGED <<screen, doubt>> ELSE Publish
    /\ UNCHANGED <<leg, inbox, late, asks>>

\* wait_for cancels the event: requests that were sent may still arrive.
Cut ==
    /\ current # None /\ Fault
    /\ current' = None /\ asking' = [p \in Phones |-> None]
    /\ LET asked == {p \in Phones : Stage(p) = "asked"}
           applied == {p \in Phones : Stage(p) = "applied"}
           noted == {p \in Phones : Stage(p) = "noted"}
       IN  \E sent \in SUBSET asked :
             /\ late' = late \union {[phone |-> p, mute |-> asking[p].mute] : p \in sent}
             /\ doubt' = doubt \union sent \union applied
                               \union (IF noted = {} THEN {} ELSE {"screen"})
    /\ UNCHANGED <<people, leg, inbox, screen>>

ArriveLate(l) ==
    /\ late' = late \ {l}
    /\ leg' = IF Live(l.phone) THEN [leg EXCEPT ![l.phone] = Sound(l.mute)] ELSE leg
    /\ UNCHANGED <<people, inbox, current, asking, screen, asks, doubt>>

----------------------------------------------------------------------------
(* Telephones                                                              *)

Status(p, up) == [type |-> "status", phone |-> p, connected |-> up]

LegAnswers(p) ==
    /\ leg[p] = "ringing"
    /\ leg' = [leg EXCEPT ![p] = Sound(p # Teacher)]
    /\ inbox' = Append(inbox, Status(p, TRUE))
    /\ UNCHANGED <<people, current, asking, late, screen, asks, doubt>>

HangUp(p) ==
    /\ leg[p] # "none" /\ Fault
    /\ leg' = [leg EXCEPT ![p] = "none"]
    /\ inbox' = Append(inbox, Status(p, FALSE))
    /\ UNCHANGED <<people, current, asking, late, screen, doubt>>

----------------------------------------------------------------------------

\* set_participant_state, and the calls of the start.
MutingInit ==
    /\ people = [p \in Phones |-> [muted |-> p # Teacher, raised |-> FALSE,
                                    connected |-> p \in Answered]]
    /\ leg = [p \in Phones |-> IF p \in Answered THEN Sound(p # Teacher) ELSE "ringing"]
    /\ inbox = <<>> /\ current = None /\ asking = [p \in Phones |-> None]
    /\ late = {} /\ screen = people
    /\ asks = 0 /\ doubt = {}

MutingNext ==
    \/ (\E e \in Wishes : Ask(e))
    \/ Process
    \/ (\E p \in Phones : Apply(p) \/ Note(p) \/ Fail(p) \/ LegAnswers(p) \/ HangUp(p))
    \/ FinishEvent \/ Cut
    \/ (\E l \in late : ArriveLate(l))

MutingSpec == MutingInit /\ [][MutingNext]_mutingVars

----------------------------------------------------------------------------
(* Properties                                                              *)

MutingTypeOK ==
    /\ \A p \in Phones :
         /\ people[p] = None \/ people[p] \in Participant
         /\ leg[p] \in {"none", "ringing", "muted", "open"}
         /\ asking[p] # None => current # None /\ people[p] # None
    /\ doubt \subseteq Phones \union {"screen"}

\* Whoever is shown as muted is not heard, and whoever is not is: between two
\* events, for everyone in the conference, and unless a request was cut or
\* not answered, or the leg is newer than the flag.
MutedAsShown ==
    \A p \in Phones :
        people[p] # None /\ Live(p) /\ asking[p] = None /\ p \notin doubt
        => people[p].muted = Muted(p)

\* Nobody who was removed is left on the line.
GoneIsGone == \A p \in Phones : people[p] = None => leg[p] = "none"

\* The teacher's application shows the flags and hands as they are, unless an
\* event was cut between setting and sending them.
ScreenFresh == current = None /\ "screen" \notin doubt => screen = people

\* All of these together, between two events of a conference.
MutingConsistent == MutingTypeOK /\ MutedAsShown /\ GoneIsGone /\ ScreenFresh
=============================================================================
