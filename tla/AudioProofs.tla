----------------------------- MODULE AudioProofs -----------------------------
(***************************************************************************)
(* What is heard in a conference: proofs about Muting, Playback,           *)
(* AudioRelay and Transcriber.                                             *)
(***************************************************************************)
EXTENDS Muting, Playback, AudioRelay, Transcriber,
        FiniteSetTheorems, SequenceTheorems, TLAPS

-----------------------------------------------------------------------------
(* Muting: nobody is heard who is shown as muted, nobody stays who was     *)
(* removed and the teacher's screen is fresh.                              *)

(* The requests that outlive their events, and what a leg may be. *)
LateRequest == [phone : Phones, mute : BOOLEAN]
Legs        == {"none", "ringing", "muted", "open"}

-----------------------------------------------------------------------------
(* The inductive invariant. *)

Types ==
    /\ people \in [Phones -> Participant \cup {None}]
    /\ leg \in [Phones -> Legs]
    /\ inbox \in Seq(Message)
    /\ current \in Message \cup {None}
    /\ asking \in [Phones -> Request \cup {None}]
    /\ late \in SUBSET LateRequest
    /\ doubt \in SUBSET (Phones \cup {"screen"})

(* Requests belong to the event that is executed, and to participants. *)
Asked ==
    \A p \in Phones : asking[p] # None =>
        /\ current # None
        /\ people[p] # None
        /\ Single => p = current.phone

(* A leg is as shown, or as a request has just made it; a leg that rings *)
(* will be answered as it is shown.                                      *)
Heard(p) ==
    people[p] # None /\ p \notin doubt =>
        /\ leg[p] = "ringing" => /\ people[p].muted = (p # Teacher)
                                 /\ Stage(p) # "applied"
        /\ Live(p) => IF Stage(p) = "applied"
                      THEN leg[p] = Sound(asking[p].mute)
                      ELSE people[p].muted = Muted(p)

(* A request that outlives its event leaves its phone in doubt. *)
LateDoubted == \A l \in late : l.phone \in doubt

(* Only an event for a single phone changes a flag and sends it later. *)
Shown ==
    \/ "screen" \in doubt
    \/ screen = people
    \/ current # None /\ Single /\ Stage(current.phone) = "noted"

MutingInv ==
    /\ Types
    /\ Asked
    /\ \A p \in Phones : Heard(p)
    /\ GoneIsGone
    /\ LateDoubted
    /\ Shown

-----------------------------------------------------------------------------
(* What leaves a phone as it is heard. *)

LEMMA HeardKept ==
    ASSUME NEW p \in Phones, Heard(p), leg'[p] = leg[p], asking'[p] = asking[p],
           people'[p] # None => people[p] # None /\ people'[p].muted = people[p].muted,
           p \notin doubt' => p \notin doubt
    PROVE  Heard(p)'
  BY DEF Heard, Stage, Live, Sound, Muted

LEMMA InitMuting ==
    ASSUME Marks, MutingInit
    PROVE  MutingInv
  <1>1. people \in [Phones -> Participant]
    BY DEF MutingInit, Participant
  <1>2. leg \in [Phones -> Legs] /\ asking = [p \in Phones |-> None]
    BY DEF MutingInit, Legs, Sound
  <1>3. Types
    BY <1>1, <1>2 DEF MutingInit, Types
  <1>4. \A p \in Phones : people[p] # None /\ Stage(p) = "none"
    BY <1>1, <1>2 DEF Marks, Stage
  <1>5. ASSUME NEW p \in Phones
        PROVE  Heard(p)
    <2>1. people[p].muted = (p # Teacher)
      BY DEF MutingInit
    <2>2. leg[p] = "ringing" \/ leg[p] = Sound(p # Teacher)
      BY DEF MutingInit
    <2>3. Stage(p) # "applied"
      BY <1>4
    <2> QED  BY <2>1, <2>2, <2>3 DEF Heard, Live, Sound, Muted
  <1>6. Asked /\ GoneIsGone /\ LateDoubted /\ Shown
    BY <1>2, <1>4 DEF MutingInit, Asked, GoneIsGone, LateDoubted, Shown
  <1> QED  BY <1>3, <1>5, <1>6 DEF MutingInv

-----------------------------------------------------------------------------
(* The event loop takes an event. *)

LEMMA MessageFacts ==
    ASSUME WishesName, NEW e \in Message
    PROVE  /\ e.type \notin {"mute_all", "unmute_all"} => e.phone \in Phones
           /\ e.type = "status" => e.connected \in BOOLEAN
  BY DEF WishesName, Message, News

(* set_participant_state: one flag, and everything is sent. *)
LEMMA FlagPublished ==
    ASSUME Marks, MutingInv, Types', current = None, Publish,
           UNCHANGED <<leg, current, asking, late>>,
           NEW p \in Phones, people[p] # None, people'[p] # None,
           people'[p].muted = people[p].muted,
           \A q \in Phones \ {p} : people'[q] = people[q]
    PROVE  MutingInv'
  <1>1. doubt' = doubt \ {"screen"} /\ screen' = people'
    BY DEF Publish
  <1>2. \A q \in Phones : Heard(q)'
    <2> SUFFICES ASSUME NEW q \in Phones
                 PROVE  Heard(q)'
      OBVIOUS
    <2>1. q \notin doubt' => q \notin doubt
      BY <1>1 DEF Marks
    <2>2. people'[q] # None => people[q] # None /\ people'[q].muted = people[q].muted
      OBVIOUS
    <2> QED  BY <2>1, <2>2, HeardKept DEF MutingInv
  <1>3. Asked'
    BY DEF MutingInv, Asked
  <1>4. GoneIsGone'
    BY DEF MutingInv, GoneIsGone
  <1>5. LateDoubted'
    BY <1>1 DEF MutingInv, LateDoubted, Types, LateRequest, Marks
  <1>6. Shown'
    BY <1>1 DEF Shown
  <1> QED  BY <1>2, <1>3, <1>4, <1>5, <1>6 DEF MutingInv

LEMMA NothingChanges ==
    ASSUME Marks, MutingInv, Types',
           UNCHANGED <<people, leg, current, asking, late, screen, doubt>>
    PROVE  MutingInv'
  <1>1. \A q \in Phones : Heard(q)'
    BY HeardKept DEF MutingInv
  <1> QED
    BY <1>1 DEF MutingInv, Asked, GoneIsGone, LateDoubted, Shown, Single, Stage

LEMMA BeginsAsking ==
    ASSUME WishesName, Marks, MutingInv, current = None, NEW e \in Message, BeginEvent(e)
    PROVE  /\ asking' \in [Phones -> Request \cup {None}] /\ current' = e
           /\ \A p \in Phones : asking'[p] # None =>
                 /\ asking'[p].stage = "asked" /\ people[p] # None
                 /\ e.type \in {"mute", "unmute"} => p = e.phone
  <1>1. asking' = [p \in Phones |-> IF p \in About(e)
                                     THEN [mute |-> Mutes(e), stage |-> "asked"]
                                     ELSE None]
    BY DEF BeginEvent
  <1>2. Mutes(e) \in BOOLEAN
    BY DEF Mutes
  <1>3. [mute |-> Mutes(e), stage |-> "asked"] \in Request
    BY <1>2 DEF Request
  <1>4. \A p \in About(e) : /\ people[p] # None
                            /\ e.type \in {"mute", "unmute"} => p = e.phone
    BY DEF About, Differ, BeginEvent, IsMuting
  <1>5. current' = e
    BY DEF BeginEvent
  <1> QED  BY <1>1, <1>3, <1>4, <1>5

LEMMA BeginKeeps ==
    ASSUME WishesName, Marks, MutingInv, Types', current = None, NEW e \in Message, BeginEvent(e)
    PROVE  MutingInv'
  <1>1. /\ UNCHANGED <<people, leg, late, screen, doubt>> /\ current' = e
        /\ e # None /\ \A p \in Phones : asking[p] = None
    BY DEF BeginEvent, Marks, MutingInv, Asked
  <1>2. \A p \in Phones : Heard(p)'
    <2> SUFFICES ASSUME NEW p \in Phones
                 PROVE  Heard(p)'
      OBVIOUS
    <2>1. Stage(p) # "applied" /\ Stage(p)' # "applied"
      BY <1>1, BeginsAsking DEF Stage
    <2> QED  BY <1>1, <2>1 DEF MutingInv, Heard, Live, Muted
  <1>3. Asked'
    BY <1>1, BeginsAsking DEF Asked, Single
  <1>4. Shown'
    BY <1>1 DEF MutingInv, Shown
  <1> QED  BY <1>1, <1>2, <1>3, <1>4 DEF MutingInv, GoneIsGone, LateDoubted

LEMMA DialKeeps ==
    ASSUME WishesName, Marks, MutingInv, Types', current = None, NEW p \in Phones, Dial(p),
           UNCHANGED <<current, asking>>
    PROVE  MutingInv'
  <1>1. /\ people' = IF people[p] # None THEN people
                     ELSE [people EXCEPT ![p] = [muted |-> TRUE, raised |-> FALSE,
                                                 connected |-> FALSE]]
        /\ leg' = [leg EXCEPT ![p] = "ringing"]
        /\ late' = {l \in late : l.phone # p} /\ screen' = people'
        /\ doubt' = (doubt \ {"screen", p})
                      \union {q \in {p} : people'[p].muted # (p # Teacher)}
    BY DEF Dial
  <1>2. people'[p] # None /\ \A q \in Phones \ {p} : people'[q] = people[q]
    <2>1. [muted |-> TRUE, raised |-> FALSE, connected |-> FALSE] \in Participant
      BY DEF Participant
    <2>2. people \in [Phones -> Participant \cup {None}] /\ None \notin Participant
      BY DEF MutingInv, Types, Marks
    <2> QED  BY <1>1, <2>1, <2>2
  <1>3. \A q \in Phones : asking[q] = None
    BY DEF MutingInv, Asked
  <1>4. ASSUME NEW q \in Phones
        PROVE  Heard(q)'
    <2>1. CASE q = p
      <3>1. leg'[p] = "ringing"
        BY <1>1 DEF MutingInv, Types
      <3>2. Stage(p)' = "none"
        BY <1>3 DEF Stage
      <3>3. p \notin doubt' => people'[p].muted = (p # Teacher)
        BY <1>1
      <3> QED  BY <2>1, <3>1, <3>2, <3>3 DEF Heard, Live
    <2>2. CASE q # p
      <3>1. q \notin doubt' => q \notin doubt
        BY <1>1, <2>2 DEF Marks
      <3>2. leg'[q] = leg[q]
        BY <1>1, <2>2 DEF MutingInv, Types
      <3> QED  BY <1>2, <2>2, <3>1, <3>2, HeardKept DEF MutingInv
    <2> QED  BY <2>1, <2>2
  <1>5. Asked'
    BY <1>3 DEF Asked
  <1>6. GoneIsGone'
    BY <1>1, <1>2 DEF MutingInv, Types, GoneIsGone
  <1>7. LateDoubted'
    <2> SUFFICES ASSUME NEW l \in late'
                 PROVE  l.phone \in doubt'
      BY DEF LateDoubted
    <2>1. l \in late /\ l.phone # p
      BY <1>1
    <2>2. l.phone \in doubt /\ l.phone # "screen"
      BY <2>1 DEF MutingInv, Types, LateDoubted, LateRequest, Marks
    <2> QED  BY <1>1, <2>1, <2>2
  <1>8. Shown'
    BY <1>1 DEF Shown
  <1> QED  BY <1>4, <1>5, <1>6, <1>7, <1>8 DEF MutingInv

LEMMA RemoveKeeps ==
    ASSUME WishesName, Marks, MutingInv, Types', current = None, NEW e \in Message, RemoveParticipant(e)
    PROVE  MutingInv'
  <1>1. /\ people' = [people EXCEPT ![e.phone] = None]
        /\ leg' = [leg EXCEPT ![e.phone] = "none"]
        /\ screen' = people' /\ doubt' = doubt \ {"screen"}
        /\ UNCHANGED <<current, asking, late>>
    BY DEF RemoveParticipant, Publish
  <1>2. e.phone \in Phones
    BY MessageFacts DEF RemoveParticipant
  <1>3. \A q \in Phones : asking[q] = None
    BY DEF MutingInv, Asked
  <1>4. ASSUME NEW q \in Phones
        PROVE  Heard(q)'
    <2>1. CASE q = e.phone
      BY <1>1, <2>1 DEF Heard, MutingInv, Types
    <2>2. CASE q # e.phone
      <3>1. q \notin doubt' => q \notin doubt
        BY <1>1 DEF Marks
      <3>2. leg'[q] = leg[q] /\ people'[q] = people[q] /\ asking'[q] = asking[q]
        BY <1>1, <2>2 DEF MutingInv, Types
      <3> QED  BY <3>1, <3>2, HeardKept DEF MutingInv
    <2> QED  BY <2>1, <2>2
  <1>5. Asked'
    BY <1>1, <1>3 DEF Asked
  <1>6. GoneIsGone'
    BY <1>1, <1>2 DEF MutingInv, Types, GoneIsGone
  <1>7. LateDoubted'
    BY <1>1 DEF MutingInv, Types, LateDoubted, LateRequest, Marks
  <1>8. Shown'
    BY <1>1 DEF Shown
  <1> QED  BY <1>4, <1>5, <1>6, <1>7, <1>8 DEF MutingInv

LEMMA ProcessKeeps ==
    ASSUME WishesName, Marks, MutingInv, Types', Process
    PROVE  MutingInv'
  <1>1. current = None
    BY DEF Process
  <1>2. PICK e \in Message : BeginEvent(e) \/ RaiseHand(e) \/ Add(e) \/ RemoveParticipant(e)
                             \/ CallStatus(e) \/ Ignored(e)
    <2>1. inbox \in Seq(Message) /\ inbox # <<>>
      BY DEF Process, MutingInv, Types
    <2>2. Head(inbox) \in Message
      BY <2>1
    <2> QED  BY <2>2 DEF Process
  <1>3. CASE RaiseHand(e)
    <2>1. e.phone \in Phones /\ people[e.phone] # None
      BY <1>3 DEF RaiseHand, IsHand, Phones
    <2>2. /\ people' = [people EXCEPT ![e.phone].raised = TRUE] /\ Publish
          /\ UNCHANGED <<leg, current, asking, late>>
      BY <1>3 DEF RaiseHand
    <2>3. /\ people'[e.phone] # None /\ people'[e.phone].muted = people[e.phone].muted
          /\ \A q \in Phones \ {e.phone} : people'[q] = people[q]
      <3>1. people[e.phone] \in Participant
        BY <2>1 DEF MutingInv, Types
      <3>2. people'[e.phone] = [people[e.phone] EXCEPT !.raised = TRUE]
        BY <2>1, <2>2 DEF MutingInv, Types
      <3>3. people'[e.phone] \in Participant
        BY <3>1, <3>2 DEF Participant
      <3> QED  BY <2>1, <2>2, <3>1, <3>2, <3>3 DEF MutingInv, Types, Participant, Marks
    <2> QED  BY <1>1, <2>1, <2>2, <2>3, FlagPublished
  <1>4. CASE CallStatus(e)
    <2>1. e.phone \in Phones /\ people[e.phone] # None
      BY <1>4, MessageFacts DEF CallStatus, IsNews
    <2>2. /\ people' = [people EXCEPT ![e.phone].connected = e.connected] /\ Publish
          /\ UNCHANGED <<leg, current, asking, late>>
      BY <1>4 DEF CallStatus
    <2>3. e.connected \in BOOLEAN
      BY <1>4, MessageFacts DEF CallStatus, IsNews
    <2>4. /\ people'[e.phone] # None /\ people'[e.phone].muted = people[e.phone].muted
          /\ \A q \in Phones \ {e.phone} : people'[q] = people[q]
      <3>1. people[e.phone] \in Participant
        BY <2>1 DEF MutingInv, Types
      <3>2. people'[e.phone] = [people[e.phone] EXCEPT !.connected = e.connected]
        BY <2>1, <2>2 DEF MutingInv, Types
      <3>3. people'[e.phone] \in Participant
        <4>1. /\ people[e.phone].muted \in BOOLEAN /\ people[e.phone].raised \in BOOLEAN
              /\ people'[e.phone] = [muted |-> people[e.phone].muted,
                                     raised |-> people[e.phone].raised,
                                     connected |-> e.connected]
          BY <3>1, <3>2 DEF Participant
        <4> QED  BY <2>3, <4>1 DEF Participant
      <3> QED  BY <2>1, <2>2, <3>1, <3>2, <3>3 DEF MutingInv, Types, Participant, Marks
    <2> QED  BY <1>1, <2>1, <2>2, <2>4, FlagPublished
  <1>5. CASE Add(e)
    <2>1. e.phone \in Phones
      BY <1>5, MessageFacts DEF Add
    <2>2. CASE Dial(e.phone)
      BY <1>1, <1>5, <2>1, <2>2, DialKeeps DEF Add
    <2>3. CASE Connected(e.phone) /\ UNCHANGED <<people, leg, late>> /\ Publish
      <3>1. people[e.phone] # None
        BY <2>3 DEF Connected
      <3> QED  BY <1>1, <1>5, <2>1, <2>3, <3>1, FlagPublished DEF Add
    <2> QED  BY <1>5, <2>2, <2>3 DEF Add
  <1>6. CASE Ignored(e)
    BY <1>6, NothingChanges DEF Ignored
  <1> QED  BY <1>1, <1>2, <1>3, <1>4, <1>5, <1>6, BeginKeeps, RemoveKeeps

-----------------------------------------------------------------------------
(* Requests, and what may cut them. *)

LEMMA ApplyKeeps ==
    ASSUME Marks, MutingInv, Types', NEW p \in Phones, Apply(p)
    PROVE  MutingInv'
  <1>1. /\ leg' = [leg EXCEPT ![p] = Sound(asking[p].mute)]
        /\ asking' = [asking EXCEPT ![p].stage = "applied"]
        /\ UNCHANGED <<people, current, late, screen, doubt>>
        /\ asking[p] # None /\ Stage(p) = "asked"
    BY DEF Apply, Stage
  <1>2. /\ asking'[p].stage = "applied" /\ asking'[p].mute = asking[p].mute
        /\ leg'[p] = Sound(asking[p].mute) /\ asking'[p] # None
        /\ \A q \in Phones \ {p} : asking'[q] = asking[q] /\ leg'[q] = leg[q]
    BY <1>1 DEF MutingInv, Types, Request, Marks
  <1>3. ASSUME NEW q \in Phones
        PROVE  Heard(q)'
    <2>1. CASE q = p
      <3>1. Stage(p)' = "applied"
        BY <1>2 DEF Stage
      <3>2. leg'[p] # "ringing"
        BY <1>2 DEF Sound
      <3> QED  BY <1>2, <2>1, <3>1, <3>2 DEF Heard, Sound
    <2>2. CASE q # p
      BY <1>1, <1>2, <2>2, HeardKept DEF MutingInv
    <2> QED  BY <2>1, <2>2
  <1>4. Asked'
    BY <1>1, <1>2 DEF MutingInv, Asked, Single
  <1>5. GoneIsGone'
    BY <1>1, <1>2 DEF MutingInv, Asked, GoneIsGone
  <1>6. Shown'
    BY <1>1, <1>2 DEF MutingInv, Shown, Single, Stage, Asked
  <1> QED  BY <1>1, <1>3, <1>4, <1>5, <1>6 DEF MutingInv, LateDoubted

LEMMA NoteKeeps ==
    ASSUME Marks, MutingInv, Types', NEW p \in Phones, Note(p)
    PROVE  MutingInv'
  <1>1. /\ asking[p] # None /\ Stage(p) = "applied" /\ asking[p] \in Request
        /\ people[p] # None /\ people[p] \in Participant /\ current # None
        /\ Single => p = current.phone
    BY DEF Note, Stage, MutingInv, Types, Asked
  <1>2. /\ people'[p].muted = asking[p].mute /\ people'[p] # None
        /\ \A q \in Phones \ {p} : people'[q] = people[q]
    <2>1. people' = Noted(p)
      BY DEF Note
    <2>2. /\ \A q \in Phones \ {p} : people'[q] = people[q]
          /\ people'[p] = [people[p] EXCEPT !.muted = asking[p].mute,
                                            !.raised = @ /\ asking[p].mute]
      BY <1>1, <2>1 DEF Noted, MutingInv, Types
    <2>3. people'[p].muted = asking[p].mute
      BY <1>1, <2>2 DEF Participant
    <2>4. people'[p] \in Participant
      BY <1>1, <2>2 DEF Participant, Request
    <2> QED  BY <2>2, <2>3, <2>4 DEF Marks
  <1>3. /\ \A q \in Phones \ {p} : asking'[q] = asking[q]
        /\ Stage(p)' \in {"none", "noted"}
        /\ Single => Stage(p)' = "noted"
    <2>1. CASE Single
      <3>1. /\ asking'[p] = [asking[p] EXCEPT !.stage = "noted"]
            /\ \A q \in Phones \ {p} : asking'[q] = asking[q]
        BY <2>1 DEF Note, MutingInv, Types
      <3>2. asking'[p] \in Request /\ asking'[p].stage = "noted"
        BY <1>1, <3>1 DEF Request
      <3> QED  BY <2>1, <3>1, <3>2 DEF Stage, Marks
    <2>2. CASE ~Single
      BY <2>2 DEF Note, Stage, MutingInv, Types
    <2> QED  BY <2>1, <2>2
  <1>4. /\ UNCHANGED <<leg, current, late>>
        /\ \/ Single /\ UNCHANGED <<screen, doubt>>
           \/ ~Single /\ screen' = people' /\ doubt' = doubt \ {"screen"}
    BY DEF Note, Publish
  <1>5. \A q \in Phones : q \notin doubt' => q \notin doubt
    BY <1>4 DEF Marks
  <1>6. ASSUME NEW q \in Phones
        PROVE  Heard(q)'
    <2>1. CASE q = p
      <3>1. Heard(p)
        BY DEF MutingInv
      <3>2. asking[p].mute \in BOOLEAN
        BY <1>1 DEF Request
      <3>3. ASSUME p \notin doubt'
            PROVE  leg[p] # "ringing" /\ (Live(p) => leg[p] = Sound(asking[p].mute))
        BY <1>1, <1>5, <3>1, <3>3 DEF Heard
      <3>4. ASSUME p \notin doubt', Live(p)
            PROVE  asking[p].mute = Muted(p)
        BY <3>2, <3>3, <3>4 DEF Sound, Muted
      <3> QED  BY <1>2, <1>3, <1>4, <2>1, <3>3, <3>4 DEF Heard, Live, Muted
    <2>2. CASE q # p
      BY <1>2, <1>3, <1>4, <1>5, <2>2, HeardKept DEF MutingInv
    <2> QED  BY <2>1, <2>2
  <1>7. Asked'
    <2> SUFFICES ASSUME NEW q \in Phones, asking'[q] # None
                 PROVE  current' # None /\ people'[q] # None /\ (Single' => q = current'.phone)
      BY DEF Asked
    <2> QED  BY <1>1, <1>2, <1>3, <1>4 DEF MutingInv, Asked, Single
  <1>8. GoneIsGone'
    BY <1>2, <1>4 DEF MutingInv, GoneIsGone
  <1>9. LateDoubted'
    BY <1>4 DEF MutingInv, Types, LateDoubted, LateRequest, Marks
  <1>10. Shown'
    BY <1>1, <1>3, <1>4 DEF Shown, Single, Stage
  <1> QED  BY <1>6, <1>7, <1>8, <1>9, <1>10 DEF MutingInv

LEMMA FailKeeps ==
    ASSUME Marks, MutingInv, Types', NEW p \in Phones, Fail(p)
    PROVE  MutingInv'
  <1>1. /\ Stage(p) \in {"asked", "applied"}
        /\ asking' = [asking EXCEPT ![p] = None]
        /\ doubt' = IF Stage(p) = "applied" THEN doubt \union {p} ELSE doubt
        /\ UNCHANGED <<people, leg, current, late, screen>>
    BY DEF Fail
  <1>2. Stage(p)' = "none" /\ \A q \in Phones \ {p} : asking'[q] = asking[q]
    BY <1>1 DEF MutingInv, Types, Stage
  <1>3. ASSUME NEW q \in Phones
        PROVE  Heard(q)'
    <2>1. CASE q = p
      BY <1>1, <1>2, <2>1 DEF MutingInv, Heard, Live, Muted
    <2>2. CASE q # p
      BY <1>1, <1>2, <2>2, HeardKept DEF MutingInv
    <2> QED  BY <2>1, <2>2
  <1>4. Asked'
    BY <1>1 DEF MutingInv, Types, Asked, Single
  <1>5. GoneIsGone' /\ LateDoubted'
    BY <1>1 DEF MutingInv, GoneIsGone, LateDoubted
  <1>6. Shown'
    <2>1. CASE current # None /\ Single /\ Stage(current.phone) = "noted"
      <3>1. asking'[current.phone] = asking[current.phone]
        BY <1>1, <2>1 DEF MutingInv, Types
      <3> QED  BY <1>1, <2>1, <3>1 DEF Shown, Single, Stage
    <2>2. CASE screen = people \/ "screen" \in doubt
      BY <1>1, <2>2 DEF Shown
    <2> QED  BY <2>1, <2>2 DEF MutingInv, Shown
  <1> QED  BY <1>3, <1>4, <1>5, <1>6 DEF MutingInv

LEMMA FinishKeeps ==
    ASSUME WishesName, Marks, MutingInv, Types', FinishEvent
    PROVE  MutingInv'
  <1>1. /\ current # None /\ \A p \in Phones : Stage(p) \in {"none", "noted"}
        /\ current' = None /\ asking' = [p \in Phones |-> None]
        /\ UNCHANGED <<people, leg, late>>
        /\ \/ screen' = people' /\ doubt' = doubt \ {"screen"}
           \/ Single /\ asking[current.phone] = None /\ UNCHANGED <<screen, doubt>>
    BY DEF FinishEvent, Publish
  <1>2. \A q \in Phones : q \notin doubt' => q \notin doubt
    BY <1>1 DEF Marks
  <1>3. ASSUME NEW q \in Phones
        PROVE  Heard(q)'
    <2>1. Stage(q)' = "none" /\ Stage(q) # "applied"
      BY <1>1 DEF Stage
    <2> QED  BY <1>1, <1>2, <2>1 DEF MutingInv, Heard, Live, Muted
  <1>4. Asked' /\ GoneIsGone'
    BY <1>1 DEF MutingInv, Asked, GoneIsGone
  <1>5. LateDoubted'
    BY <1>1 DEF MutingInv, Types, LateDoubted, LateRequest, Marks
  <1>6. Shown'
    <2>1. CASE screen' = people'
      BY <2>1 DEF Shown
    <2>2. CASE Single /\ asking[current.phone] = None /\ UNCHANGED <<screen, doubt>>
      <3>1. Stage(current.phone) = "none"
        BY <2>2 DEF Stage
      <3> QED  BY <1>1, <2>2, <3>1 DEF MutingInv, Shown
    <2> QED  BY <1>1, <2>1, <2>2
  <1> QED  BY <1>3, <1>4, <1>5, <1>6 DEF MutingInv

LEMMA CutKeeps ==
    ASSUME WishesName, Marks, MutingInv, Types', Cut
    PROVE  MutingInv'
  <1>1. PICK sent \in SUBSET {p \in Phones : Stage(p) = "asked"} :
           /\ late' = late \union {[phone |-> p, mute |-> asking[p].mute] : p \in sent}
           /\ doubt' = doubt \union sent \union {p \in Phones : Stage(p) = "applied"}
                         \union (IF {p \in Phones : Stage(p) = "noted"} = {} THEN {}
                                 ELSE {"screen"})
    BY DEF Cut
  <1>2. /\ current # None /\ current' = None /\ asking' = [p \in Phones |-> None]
        /\ UNCHANGED <<people, leg, screen>>
    BY DEF Cut
  <1>3. ASSUME NEW q \in Phones
        PROVE  Heard(q)'
    <2>1. /\ q \notin doubt' => q \notin doubt /\ Stage(q) # "applied"
          /\ Stage(q)' = "none"
      BY <1>1, <1>2 DEF Stage
    <2> QED  BY <1>2, <2>1 DEF MutingInv, Heard, Live, Muted
  <1>4. Asked' /\ GoneIsGone'
    BY <1>2 DEF MutingInv, Asked, GoneIsGone
  <1>5. LateDoubted'
    BY <1>1 DEF MutingInv, LateDoubted
  <1>6. Shown'
    <2>1. CASE current # None /\ Single /\ Stage(current.phone) = "noted"
      <3>1. current.phone \in Phones
        BY <2>1, MessageFacts DEF MutingInv, Types, Single
      <3>2. "screen" \in doubt'
        BY <1>1, <2>1, <3>1
      <3> QED  BY <3>2 DEF Shown
    <2>2. CASE screen = people \/ "screen" \in doubt
      BY <1>1, <1>2, <2>2 DEF Shown
    <2> QED  BY <2>1, <2>2 DEF MutingInv, Shown
  <1> QED  BY <1>3, <1>4, <1>5, <1>6 DEF MutingInv

LEMMA ArriveKeeps ==
    ASSUME Marks, MutingInv, Types', NEW l \in late, ArriveLate(l)
    PROVE  MutingInv'
  <1>1. /\ l.phone \in doubt /\ l.phone \in Phones
        /\ UNCHANGED <<people, current, asking, screen, doubt>> /\ late' \subseteq late
        /\ leg' = IF Live(l.phone) THEN [leg EXCEPT ![l.phone] = Sound(l.mute)] ELSE leg
    BY DEF ArriveLate, MutingInv, Types, LateDoubted, LateRequest
  <1>2. \A q \in Phones \ {l.phone} : leg'[q] = leg[q]
    BY <1>1 DEF MutingInv, Types
  <1>3. ASSUME NEW q \in Phones
        PROVE  Heard(q)'
    <2>1. CASE q = l.phone
      BY <1>1, <2>1 DEF Heard
    <2>2. CASE q # l.phone
      BY <1>1, <1>2, <2>2, HeardKept DEF MutingInv
    <2> QED  BY <2>1, <2>2
  <1>4. GoneIsGone'
    BY <1>1, <1>2 DEF MutingInv, GoneIsGone, Live
  <1>5. Asked' /\ LateDoubted' /\ Shown'
    BY <1>1 DEF MutingInv, Asked, LateDoubted, Shown, Single, Stage
  <1> QED  BY <1>3, <1>4, <1>5 DEF MutingInv

-----------------------------------------------------------------------------
(* Telephones, and the types. *)

LEMMA AnswerKeeps ==
    ASSUME Marks, MutingInv, Types', NEW p \in Phones, LegAnswers(p)
    PROVE  MutingInv'
  <1>1. /\ leg[p] = "ringing" /\ leg' = [leg EXCEPT ![p] = Sound(p # Teacher)]
        /\ UNCHANGED <<people, current, asking, late, screen, doubt>>
    BY DEF LegAnswers
  <1>2. leg'[p] = Sound(p # Teacher) /\ \A q \in Phones \ {p} : leg'[q] = leg[q]
    BY <1>1 DEF MutingInv, Types
  <1>3. ASSUME NEW q \in Phones
        PROVE  Heard(q)'
    <2>1. CASE q = p
      <3>1. Heard(p)
        BY DEF MutingInv
      <3> QED  BY <1>1, <1>2, <2>1, <3>1 DEF Heard, Live, Sound, Muted, Stage
    <2>2. CASE q # p
      BY <1>1, <1>2, <2>2, HeardKept DEF MutingInv
    <2> QED  BY <2>1, <2>2
  <1>4. GoneIsGone'
    BY <1>1, <1>2 DEF MutingInv, GoneIsGone
  <1>5. Asked' /\ LateDoubted' /\ Shown'
    BY <1>1 DEF MutingInv, Asked, LateDoubted, Shown, Single, Stage
  <1> QED  BY <1>3, <1>4, <1>5 DEF MutingInv

LEMMA HangUpKeeps ==
    ASSUME Marks, MutingInv, Types', NEW p \in Phones, HangUp(p)
    PROVE  MutingInv'
  <1>1. /\ leg' = [leg EXCEPT ![p] = "none"]
        /\ UNCHANGED <<people, current, asking, late, screen, doubt>>
    BY DEF HangUp
  <1>2. leg'[p] = "none" /\ \A q \in Phones \ {p} : leg'[q] = leg[q]
    BY <1>1 DEF MutingInv, Types
  <1>3. ASSUME NEW q \in Phones
        PROVE  Heard(q)'
    <2>1. CASE q = p
      BY <1>2, <2>1 DEF Heard, Live
    <2>2. CASE q # p
      BY <1>1, <1>2, <2>2, HeardKept DEF MutingInv
    <2> QED  BY <2>1, <2>2
  <1>4. GoneIsGone'
    BY <1>1, <1>2 DEF MutingInv, GoneIsGone
  <1>5. Asked' /\ LateDoubted' /\ Shown'
    BY <1>1 DEF MutingInv, Asked, LateDoubted, Shown, Single, Stage
  <1> QED  BY <1>3, <1>4, <1>5 DEF MutingInv

LEMMA FlagsSet ==
    /\ [muted |-> TRUE, raised |-> FALSE, connected |-> FALSE] \in Participant
    /\ \A x \in Participant : \A b \in BOOLEAN :
          /\ [x EXCEPT !.raised = b] \in Participant
          /\ [x EXCEPT !.connected = b] \in Participant
  <1>1. ASSUME NEW x \in Participant, NEW b \in BOOLEAN
        PROVE  /\ [x EXCEPT !.raised = b] \in Participant
               /\ [x EXCEPT !.connected = b] \in Participant
    BY DEF Participant
  <1> QED  BY <1>1 DEF Participant

LEMMA TypesProcess ==
    ASSUME WishesName, Marks, MutingInv, Process
    PROVE  Types'
  <1>1. inbox \in Seq(Message) /\ inbox # <<>> /\ inbox' = Tail(inbox) /\ current = None
    BY DEF Process, MutingInv, Types
  <1>2. inbox' \in Seq(Message)
    BY <1>1
  <1>3. PICK e \in Message : BeginEvent(e) \/ RaiseHand(e) \/ Add(e) \/ RemoveParticipant(e)
                             \/ CallStatus(e) \/ Ignored(e)
    <2>1. Head(inbox) \in Message
      BY <1>1
    <2> QED  BY <2>1 DEF Process
  <1>4. CASE BeginEvent(e)
    <2>1. /\ asking' \in [Phones -> Request \cup {None}] /\ current' = e
          /\ UNCHANGED <<people, leg, late, doubt>>
      BY <1>1, <1>4, BeginsAsking DEF BeginEvent
    <2> QED  BY <1>2, <2>1 DEF MutingInv, Types
  <1>5. CASE RaiseHand(e)
    <2>1. e.phone \in Phones /\ people[e.phone] \in Participant
      BY <1>5 DEF RaiseHand, IsHand, Phones, MutingInv, Types
    <2>2. people' = [people EXCEPT ![e.phone] = [people[e.phone] EXCEPT !.raised = TRUE]]
      BY <1>5, <2>1 DEF RaiseHand, MutingInv, Types
    <2>3. people' \in [Phones -> Participant \cup {None}]
      BY <2>1, <2>2, FlagsSet DEF MutingInv, Types
    <2> QED  BY <1>2, <1>5, <2>3 DEF RaiseHand, Publish, MutingInv, Types
  <1>6. CASE CallStatus(e)
    <2>1. e.phone \in Phones /\ people[e.phone] \in Participant /\ e.connected \in BOOLEAN
      BY <1>6, MessageFacts DEF CallStatus, IsNews, MutingInv, Types
    <2>2. people' = [people EXCEPT ![e.phone] =
                       [people[e.phone] EXCEPT !.connected = e.connected]]
      BY <1>6, <2>1 DEF CallStatus, MutingInv, Types
    <2>3. people' \in [Phones -> Participant \cup {None}]
      BY <2>1, <2>2, FlagsSet DEF MutingInv, Types
    <2> QED  BY <1>2, <1>6, <2>3 DEF CallStatus, Publish, MutingInv, Types
  <1>7. CASE Add(e)
    <2>1. e.phone \in Phones
      BY <1>7, MessageFacts DEF Add
    <2>2. CASE Dial(e.phone)
      <3>1. people' \in [Phones -> Participant \cup {None}]
        BY <2>2, FlagsSet DEF Dial, MutingInv, Types
      <3>2. leg' \in [Phones -> Legs]
        BY <2>2 DEF Dial, MutingInv, Types, Legs
      <3>3. late' \in SUBSET LateRequest /\ doubt' \in SUBSET (Phones \cup {"screen"})
        BY <2>1, <2>2 DEF Dial, MutingInv, Types
      <3> QED  BY <1>2, <1>7, <3>1, <3>2, <3>3 DEF Add, MutingInv, Types
    <2>3. CASE UNCHANGED <<people, leg, late>> /\ Publish
      BY <1>2, <1>7, <2>3 DEF Add, Publish, MutingInv, Types
    <2> QED  BY <1>7, <2>2, <2>3 DEF Add
  <1>8. CASE RemoveParticipant(e)
    BY <1>2, <1>8 DEF RemoveParticipant, Publish, MutingInv, Types, Legs
  <1>9. CASE Ignored(e)
    BY <1>2, <1>9 DEF Ignored, MutingInv, Types
  <1> QED  BY <1>3, <1>4, <1>5, <1>6, <1>7, <1>8, <1>9

LEMMA TypesRequests ==
    ASSUME WishesName, Marks, MutingInv, NEW p \in Phones, Apply(p) \/ Note(p) \/ Fail(p)
    PROVE  Types'
  <1>1. asking[p] # None /\ asking[p] \in Request /\ people[p] # None
        /\ people[p] \in Participant
    BY DEF Apply, Note, Fail, Stage, MutingInv, Types, Asked
  <1>2. \A s \in {"applied", "noted"} : [asking[p] EXCEPT !.stage = s] \in Request
    BY <1>1 DEF Request
  <1>3. CASE Apply(p)
    <2>1. asking' = [asking EXCEPT ![p] = [asking[p] EXCEPT !.stage = "applied"]]
      BY <1>1, <1>3 DEF Apply, MutingInv, Types
    <2>2. leg' \in [Phones -> Legs]
      BY <1>3 DEF Apply, Sound, Legs, MutingInv, Types
    <2> QED  BY <1>2, <1>3, <2>1, <2>2 DEF Apply, MutingInv, Types
  <1>4. CASE Note(p)
    <2>1. people' \in [Phones -> Participant \cup {None}]
      <3>1. people' = [people EXCEPT ![p] = [people[p] EXCEPT !.muted = asking[p].mute,
                                                !.raised = @ /\ asking[p].mute]]
        BY <1>1, <1>4 DEF Note, Noted, MutingInv, Types
      <3>2. [people[p] EXCEPT !.muted = asking[p].mute, !.raised = @ /\ asking[p].mute]
              \in Participant
        BY <1>1 DEF Participant, Request
      <3> QED  BY <3>1, <3>2 DEF MutingInv, Types
    <2>2. asking' \in [Phones -> Request \cup {None}]
      BY <1>2, <1>4 DEF Note, MutingInv, Types
    <2> QED  BY <1>4, <2>1, <2>2 DEF Note, Publish, MutingInv, Types
  <1>5. CASE Fail(p)
    BY <1>5 DEF Fail, MutingInv, Types
  <1> QED  BY <1>3, <1>4, <1>5

LEMMA TypesStep ==
    ASSUME WishesName, Marks, MutingInv, MutingNext
    PROVE  Types'
  <1>1. ASSUME NEW e \in Wishes, Ask(e)
        PROVE  Types'
    <2>1. inbox \in Seq(Message) /\ e \in Message /\ inbox' = Append(inbox, e)
      BY <1>1 DEF Ask, Message, MutingInv, Types
    <2>2. inbox' \in Seq(Message)
      BY <2>1
    <2> QED  BY <1>1, <2>2 DEF Ask, MutingInv, Types
  <1>2. ASSUME NEW p \in Phones, LegAnswers(p) \/ HangUp(p)
        PROVE  Types'
    <2>1. \A b \in BOOLEAN : Status(p, b) \in Message
      BY DEF Status, Message, News
    <2>2. inbox' \in Seq(Message)
      <3>1. inbox \in Seq(Message)
        BY DEF MutingInv, Types
      <3>2. inbox' = Append(inbox, Status(p, TRUE)) \/ inbox' = Append(inbox, Status(p, FALSE))
        BY <1>2 DEF LegAnswers, HangUp
      <3>3. PICK b \in BOOLEAN : inbox' = Append(inbox, Status(p, b))
        BY <3>2
      <3>4. Status(p, b) \in Message
        BY <2>1
      <3> QED  BY <3>1, <3>3, <3>4
    <2>3. leg' \in [Phones -> Legs]
      BY <1>2 DEF LegAnswers, HangUp, Sound, Legs, MutingInv, Types
    <2> QED  BY <1>2, <2>2, <2>3 DEF LegAnswers, HangUp, MutingInv, Types
  <1>3. CASE FinishEvent
    BY <1>3 DEF FinishEvent, Publish, MutingInv, Types
  <1>4. CASE Cut
    <2>1. PICK sent \in SUBSET {p \in Phones : Stage(p) = "asked"} :
             /\ late' = late \union {[phone |-> p, mute |-> asking[p].mute] : p \in sent}
             /\ doubt' = doubt \union sent \union {p \in Phones : Stage(p) = "applied"}
                           \union (IF {p \in Phones : Stage(p) = "noted"} = {} THEN {}
                                   ELSE {"screen"})
      BY <1>4 DEF Cut
    <2>2. \A p \in sent : [phone |-> p, mute |-> asking[p].mute] \in LateRequest
      <3> SUFFICES ASSUME NEW p \in sent
                   PROVE  [phone |-> p, mute |-> asking[p].mute] \in LateRequest
        OBVIOUS
      <3>1. p \in Phones /\ asking[p] \in Request
        BY DEF Stage, MutingInv, Types
      <3>2. asking[p].mute \in BOOLEAN
        BY <3>1 DEF Request
      <3> QED  BY <3>1, <3>2 DEF LateRequest
    <2>3. late' \in SUBSET LateRequest
      BY <2>1, <2>2 DEF MutingInv, Types
    <2>4. doubt' \in SUBSET (Phones \cup {"screen"})
      BY <2>1 DEF MutingInv, Types
    <2> QED  BY <1>4, <2>3, <2>4 DEF Cut, MutingInv, Types
  <1>5. ASSUME NEW l \in late, ArriveLate(l)
        PROVE  Types'
    <2>1. leg' \in [Phones -> Legs]
      BY <1>5 DEF ArriveLate, Sound, Legs, MutingInv, Types
    <2> QED  BY <1>5, <2>1 DEF ArriveLate, MutingInv, Types
  <1> QED
    BY <1>1, <1>2, <1>3, <1>4, <1>5, TypesProcess, TypesRequests DEF MutingNext

-----------------------------------------------------------------------------

LEMMA MutingStep ==
    ASSUME WishesName, Marks, MutingInv, [MutingNext]_mutingVars
    PROVE  MutingInv'
  <1>1. CASE UNCHANGED mutingVars
    <2>1. Types'
      BY <1>1 DEF mutingVars, MutingInv, Types
    <2> QED  BY <1>1, <2>1, NothingChanges DEF mutingVars
  <1>2. CASE MutingNext
    <2>1. Types'
      BY <1>2, TypesStep
    <2>2. ASSUME NEW e \in Wishes, Ask(e)
          PROVE  MutingInv'
      BY <2>1, <2>2, NothingChanges DEF Ask
    <2> QED
      BY <1>2, <2>1, <2>2, ProcessKeeps, ApplyKeeps, NoteKeeps, FailKeeps, AnswerKeeps,
         HangUpKeeps, FinishKeeps, CutKeeps, ArriveKeeps DEF MutingNext
  <1> QED  BY <1>1, <1>2

(* The inductive invariant, for any students, asks and bounds. *)
THEOREM MutingInvariant == MutingSpec => []MutingInv
  <1>1. MutingInit => MutingInv
    BY InitMuting, MutingAssumption
  <1>2. MutingInv /\ [MutingNext]_mutingVars => MutingInv'
    BY MutingStep, MutingAssumption
  <1> QED  BY <1>1, <1>2, PTL DEF MutingSpec

(***************************************************************************)
(* Whoever is shown as muted is not heard and whoever is not is, nobody    *)
(* who was removed is left on the line, and the teacher's screen is fresh, *)
(* for any students, keypads, failures and cuts; but for the phones that   *)
(* an unanswered or cut request left in doubt.                             *)
(***************************************************************************)
THEOREM NobodyHeardAsMuted == MutingSpec => []MutingConsistent
  <1>1. MutingInv => MutingConsistent
    <2> SUFFICES ASSUME MutingInv
                 PROVE  MutingConsistent
      OBVIOUS
    <2>1. MutingTypeOK
      BY DEF MutingInv, Types, Asked, Legs, MutingTypeOK
    <2>2. MutedAsShown
      BY DEF MutingInv, Heard, MutedAsShown, Stage
    <2>3. ScreenFresh
      BY DEF MutingInv, Shown, ScreenFresh
    <2> QED  BY <2>1, <2>2, <2>3 DEF MutingInv, MutingConsistent
  <1> QED  BY <1>1, MutingInvariant, PTL

-----------------------------------------------------------------------------
(* Playback: what the teacher is shown is what the phone hears.            *)

Reports == [status : {"Playing", "Paused", "Stopped"}, speed : Slowest .. Fastest]
Orders ==
    [type : {"play"}, value : Urls]
        \cup [type : {"pause", "resume", "seek", "system", "disconnect"}, value : {None}]
        \cup [type : {"speed"}, value : Slowest .. Fastest]
Events == Happenings \cup [type : {"report"}, value : Reports]
AudioLegs ==
    [open : BOOLEAN, ours : BOOLEAN, channel : BOOLEAN, content : LegContents \cup {None},
     play : Nat]
LegStreams == [leg : Nat, url : Urls, play : Nat]

Streams == BagToSet(loops)

PlaybackTyped ==
    /\ shown \in AudioContentState
    /\ playInbox \in Seq(Events) /\ sending \in Orders \cup {None}
    /\ attached \in BOOLEAN /\ ordered \in Nat
    /\ link \in {"up", "cut", "down"} /\ control \in BOOLEAN /\ (link = "up" => control)
    /\ toService \in Seq(Orders) /\ toPlatform \in Seq(Reports)
    /\ legs \in Seq(AudioLegs) /\ here \in 0 .. Len(legs)
    /\ loads \in SUBSET LegStreams /\ Streams \in SUBSET LegStreams
    /\ loops = SetToBag(Streams)
    /\ \A l \in loads \cup Streams : l.leg \in 1 .. Len(legs)

-----------------------------------------------------------------------------
(* The inductive invariant. *)

SameKey(l, m) == l.leg = m.leg /\ l.play = m.play

(* A playbackId is used for one stream of a leg. *)
StreamsKeyed ==
    /\ \A l \in loads \cup Streams :
         l.play <= legs[l.leg].play /\ legs[l.leg].content # None
    /\ \A l, m \in loads : SameKey(l, m) => l = m
    /\ \A l, m \in Streams : SameKey(l, m) => l = m
    /\ \A l \in loads, m \in Streams : ~ SameKey(l, m)

(* What a leg plays is what was loaded last, and is being streamed. *)
LegsSound ==
    /\ \A i \in 1 .. Len(legs) :
         /\ legs[i].channel => legs[i].content # None
         /\ Loaded(legs[i]) /\ legs[i].content.playing => legs[i].channel
    /\ "two_legs" \notin playDoubt => \A i \in 1 .. Len(legs) : legs[i].open => i = here
    /\ "overlap" \notin playDoubt =>
         /\ \A l \in loads :
              /\ legs[l.leg].content # None /\ legs[l.leg].content.data = None
              /\ l.play = legs[l.leg].play
         /\ \A l \in Streams :
              l.play = legs[l.leg].play =>
                  Loaded(legs[l.leg]) /\ legs[l.leg].content.data = l.url
    /\ {"overlap", "unloaded"} \cap playDoubt = {} =>
         \A i \in 1 .. Len(legs) :
             legs[i].open /\ Loaded(legs[i]) /\ legs[i].content.playing =>
                 \E l \in Streams : l.leg = i /\ l.play = legs[i].play

(* Commands of some types are on their way to the service. *)
Ordered(types) == \E i \in 1 .. Len(toService) : toService[i].type \in types

(* What will be shown when every report that is under way has arrived. *)
LastReport(v) ==
    \/ toPlatform # <<>> /\ v = toPlatform[Len(toPlatform)]
    \/ /\ toPlatform = <<>>
       /\ \E i \in 1 .. Len(playInbox) :
            /\ playInbox[i].type = "report" /\ v = playInbox[i].value
            /\ \A j \in 1 .. Len(playInbox) : j > i => playInbox[j].type # "report"
Silent ==
    toPlatform = <<>> /\ \A i \in 1 .. Len(playInbox) : playInbox[i].type # "report"
Word(v) == LastReport(v) \/ (Silent /\ v = [status |-> shown.status, speed |-> shown.speed])

(* It is true, once the commands that change it have been obeyed. *)
StatusTrue(v) ==
    ~ Ordered({"play", "resume"}) /\ loads = {} =>
        v.status # "Starting" /\ (v.status = "Playing") = (LiveStreams # {})
SpeedTrue(v) ==
    ~ Ordered({"play", "speed"}) /\ loads = {} =>
        (here # 0 /\ Leg.content # None => Leg.content.speed = v.speed)
UrlTrue ==
    /\ \A i \in 1 .. Len(toService) :
          toService[i].type = "play"
          /\ (\A j \in 1 .. Len(toService) : j > i => toService[j].type # "play")
          => toService[i].value = shown.url
    /\ ~ Ordered({"play"}) =>
          /\ \A l \in loads : l.url = shown.url
          /\ loads = {} /\ here # 0 /\ Loaded(Leg) => Leg.content.data = shown.url

LoadsHere ==
    \A l \in loads : l.leg = here /\ legs[here].open /\ legs[here].content.playing

Truthful ==
    /\ LoadsHere /\ UrlTrue
    /\ \A v : Word(v) => StatusTrue(v) /\ SpeedTrue(v)

PlaybackInv ==
    /\ PlaybackTyped /\ StreamsKeyed /\ LegsSound
    /\ playDoubt = {} => Truthful

-----------------------------------------------------------------------------
(* Bags without copies, records in sequences. *)

LEMMA BagAdds ==
    ASSUME NEW S, NEW x, x \notin S
    PROVE  SetToBag(S) (+) SetToBag({x}) = SetToBag(S \cup {x})
  <1> DEFINE e(y) == (IF y \in S THEN 1 ELSE 0) + (IF y \in {x} THEN 1 ELSE 0)
  <1>1. SetToBag(S) (+) SetToBag({x}) =
          [y \in S \cup {x} |-> (IF y \in S THEN SetToBag(S)[y] ELSE 0)
                                + (IF y \in {x} THEN SetToBag({x})[y] ELSE 0)]
    BY DEF SetToBag, (+)
  <1>2. \A y \in S \cup {x} : (IF y \in S THEN SetToBag(S)[y] ELSE 0)
                                + (IF y \in {x} THEN SetToBag({x})[y] ELSE 0) = 1
    BY DEF SetToBag
  <1> QED  BY <1>1, <1>2 DEF SetToBag

LEMMA BagRemoves ==
    ASSUME NEW S, NEW x \in S
    PROVE  SetToBag(S) (-) SetToBag({x}) = SetToBag(S \ {x})
  <1> DEFINE B == [y \in S |-> IF y \in {x} THEN SetToBag(S)[y] - SetToBag({x})[y]
                                            ELSE SetToBag(S)[y]]
  <1>1. SetToBag(S) (-) SetToBag({x}) = [y \in {d \in DOMAIN B : B[d] > 0} |-> B[y]]
    BY DEF SetToBag, (-)
  <1>2. \A y \in S : B[y] = IF y = x THEN 0 ELSE 1
    BY DEF SetToBag
  <1>3. {d \in DOMAIN B : B[d] > 0} = S \ {x}
    BY <1>2
  <1> HIDE DEF B
  <1>4. [y \in S \ {x} |-> B[y]] = [y \in S \ {x} |-> 1]
    BY <1>2
  <1> QED  BY <1>1, <1>3, <1>4 DEF SetToBag

LEMMA BagSet ==
    ASSUME NEW S
    PROVE  BagToSet(SetToBag(S)) = S /\ \A x \in S : SetToBag(S)[x] = 1
  BY DEF BagToSet, SetToBag

LEMMA ContentEdits ==
    ASSUME NEW c \in LegContents
    PROVE  /\ \A b \in BOOLEAN :
                /\ [c EXCEPT !.playing = b] \in LegContents
                /\ [c EXCEPT !.playing = b].playing = b
                /\ [c EXCEPT !.playing = b].data = c.data
                /\ [c EXCEPT !.playing = b].speed = c.speed
           /\ \A u \in Urls :
                /\ [c EXCEPT !.data = u] \in LegContents
                /\ [c EXCEPT !.data = u].playing = c.playing
                /\ [c EXCEPT !.data = u].data = u
                /\ [c EXCEPT !.data = u].speed = c.speed
           /\ \A s \in Slowest .. Fastest :
                /\ [c EXCEPT !.speed = s] \in LegContents
                /\ [c EXCEPT !.speed = s].playing = c.playing
                /\ [c EXCEPT !.speed = s].data = c.data
                /\ [c EXCEPT !.speed = s].speed = s
           /\ c # None
  BY PlaybackAssumption DEF LegContents

LEMMA LegEdits ==
    ASSUME NEW ear \in AudioLegs
    PROVE  /\ \A b \in BOOLEAN :
                /\ [ear EXCEPT !.open = b] \in AudioLegs
                /\ [ear EXCEPT !.open = b].open = b
                /\ [ear EXCEPT !.open = b].channel = ear.channel
                /\ [ear EXCEPT !.open = b].content = ear.content
                /\ [ear EXCEPT !.open = b].play = ear.play
           /\ \A b \in BOOLEAN :
                /\ [ear EXCEPT !.ours = b] \in AudioLegs
                /\ [ear EXCEPT !.ours = b].open = ear.open
                /\ [ear EXCEPT !.ours = b].channel = ear.channel
                /\ [ear EXCEPT !.ours = b].content = ear.content
                /\ [ear EXCEPT !.ours = b].play = ear.play
           /\ \A b \in BOOLEAN :
                /\ [ear EXCEPT !.channel = b] \in AudioLegs
                /\ [ear EXCEPT !.channel = b].open = ear.open
                /\ [ear EXCEPT !.channel = b].channel = b
                /\ [ear EXCEPT !.channel = b].content = ear.content
                /\ [ear EXCEPT !.channel = b].play = ear.play
           /\ \A c \in LegContents :
                /\ [ear EXCEPT !.content = c] \in AudioLegs
                /\ [ear EXCEPT !.content = c].open = ear.open
                /\ [ear EXCEPT !.content = c].channel = ear.channel
                /\ [ear EXCEPT !.content = c].content = c
                /\ [ear EXCEPT !.content = c].play = ear.play
           /\ \A n \in Nat :
                /\ [ear EXCEPT !.play = n] \in AudioLegs
                /\ [ear EXCEPT !.play = n].open = ear.open
                /\ [ear EXCEPT !.play = n].channel = ear.channel
                /\ [ear EXCEPT !.play = n].content = ear.content
                /\ [ear EXCEPT !.play = n].play = n
  BY DEF AudioLegs

(* One leg of the sequence changes. *)
LegBecomes(i, n) ==
    /\ i \in 1 .. Len(legs) /\ n \in AudioLegs
    /\ legs' \in Seq(AudioLegs) /\ Len(legs') = Len(legs) /\ legs'[i] = n
    /\ \A j \in 1 .. Len(legs) : j # i => legs'[j] = legs[j]

LEMMA LegWrites ==
    ASSUME PlaybackTyped, NEW i \in 1 .. Len(legs), NEW n \in AudioLegs,
           legs' = [legs EXCEPT ![i] = n]
    PROVE  LegBecomes(i, n)
  BY DEF PlaybackTyped, LegBecomes

LEMMA LegType ==
    ASSUME PlaybackTyped, NEW i \in 1 .. Len(legs)
    PROVE  /\ legs[i] \in AudioLegs /\ legs[i].open \in BOOLEAN /\ legs[i].channel \in BOOLEAN
           /\ legs[i].content \in LegContents \cup {None} /\ legs[i].play \in Nat
           /\ legs[i].content # None => legs[i].content \in LegContents
  <1>1. legs[i] \in AudioLegs
    BY DEF PlaybackTyped
  <1> QED  BY <1>1 DEF AudioLegs

LEMMA ContentType ==
    ASSUME NEW c \in LegContents
    PROVE  /\ c.data \in Urls \cup {None} /\ c.playing \in BOOLEAN
           /\ c.speed \in Slowest .. Fastest /\ c # None
  BY PlaybackAssumption DEF LegContents

(* What the operations of the service do to a leg. *)
LEMMA PlayEffect ==
    ASSUME PlaybackTyped, here # 0, NEW u \in Urls,
           legs' = [legs EXCEPT ![here].play = @ + 1, ![here].content =
                      [url |-> u, data |-> None, playing |-> TRUE, speed |-> Normal]]
    PROVE  /\ LegBecomes(here, legs'[here])
           /\ legs'[here].open = Leg.open /\ legs'[here].channel = Leg.channel
           /\ legs'[here].content \in LegContents /\ legs'[here].content.data = None
           /\ legs'[here].content.playing = TRUE /\ legs'[here].play = Leg.play + 1
  <1>1. PICK c : c = [url |-> u, data |-> None, playing |-> TRUE, speed |-> Normal]
    OBVIOUS
  <1>2. c \in LegContents /\ c.data = None /\ c.playing = TRUE
    BY <1>1, PlaybackAssumption DEF LegContents
  <1>3. here \in 1 .. Len(legs) /\ Leg \in AudioLegs /\ Leg.play \in Nat
    BY LegType DEF PlaybackTyped, Leg
  <1>4. PICK m : m = [Leg EXCEPT !.play = Leg.play + 1]
    OBVIOUS
  <1>5. /\ m \in AudioLegs /\ m.open = Leg.open /\ m.channel = Leg.channel
        /\ m.play = Leg.play + 1
    <2>1. Leg.play + 1 \in Nat
      BY <1>3
    <2> QED  BY <1>3, <1>4, <2>1, LegEdits
  <1>6. PICK n : n = [m EXCEPT !.content = c]
    OBVIOUS
  <1>7. /\ n \in AudioLegs /\ n.open = Leg.open /\ n.channel = Leg.channel
        /\ n.content = c /\ n.play = Leg.play + 1
    BY <1>2, <1>5, <1>6, LegEdits
  <1>8. legs' = [legs EXCEPT ![here] = n]
    BY <1>1, <1>3, <1>4, <1>6 DEF Leg
  <1> QED  BY <1>2, <1>3, <1>7, <1>8, LegWrites DEF LegBecomes

LEMMA RestartEffect ==
    ASSUME PlaybackTyped, here # 0, NEW ear \in AudioLegs, ear.content \in LegContents,
           legs' = [legs EXCEPT ![here] =
                      [ear EXCEPT !.play = @ + 1, !.channel = TRUE, !.content.playing = TRUE]]
    PROVE  /\ LegBecomes(here, legs'[here])
           /\ legs'[here].open = ear.open /\ legs'[here].channel = TRUE
           /\ legs'[here].content \in LegContents
           /\ legs'[here].content.data = ear.content.data
           /\ legs'[here].content.playing = TRUE
           /\ legs'[here].content.speed = ear.content.speed
           /\ legs'[here].play = ear.play + 1
  <1>1. PICK c : c = [ear.content EXCEPT !.playing = TRUE]
    OBVIOUS
  <1>2. /\ c \in LegContents /\ c.data = ear.content.data /\ c.playing = TRUE
        /\ c.speed = ear.content.speed
    BY <1>1, ContentEdits
  <1>3. here \in 1 .. Len(legs) /\ ear.play \in Nat
    BY DEF PlaybackTyped, AudioLegs
  <1>4. PICK m : m = [ear EXCEPT !.play = ear.play + 1]
    OBVIOUS
  <1>5. /\ m \in AudioLegs /\ m.open = ear.open /\ m.content = ear.content
        /\ m.play = ear.play + 1
    <2>1. ear.play + 1 \in Nat
      BY <1>3
    <2> QED  BY <1>4, <2>1, LegEdits
  <1>6. PICK k : k = [m EXCEPT !.channel = TRUE]
    OBVIOUS
  <1>7. /\ k \in AudioLegs /\ k.open = ear.open /\ k.channel = TRUE
        /\ k.play = ear.play + 1 /\ k.content = ear.content
    BY <1>5, <1>6, LegEdits
  <1>8. PICK n : n = [k EXCEPT !.content = c]
    OBVIOUS
  <1>9. /\ n \in AudioLegs /\ n.open = ear.open /\ n.channel = TRUE
        /\ n.content = c /\ n.play = ear.play + 1
    BY <1>2, <1>7, <1>8, LegEdits
  <1>10. legs' = [legs EXCEPT ![here] = n]
    <2>1. n = [ear EXCEPT !.play = ear.play + 1, !.channel = TRUE,
                          !.content = [ear.content EXCEPT !.playing = TRUE]]
      BY <1>1, <1>4, <1>6, <1>8
    <2> QED  BY <2>1
  <1> QED  BY <1>2, <1>3, <1>9, <1>10, LegWrites DEF LegBecomes

LEMMA OpenEffect ==
    ASSUME PlaybackTyped, NEW i \in 1 .. Len(legs),
           legs' = [legs EXCEPT ![i].open = FALSE]
    PROVE  /\ LegBecomes(i, legs'[i]) /\ legs'[i].open = FALSE
           /\ legs'[i].channel = legs[i].channel /\ legs'[i].content = legs[i].content
           /\ legs'[i].play = legs[i].play
  <1>1. PICK n : n = [legs[i] EXCEPT !.open = FALSE]
    OBVIOUS
  <1>2. /\ n \in AudioLegs /\ n.open = FALSE /\ n.channel = legs[i].channel
        /\ n.content = legs[i].content /\ n.play = legs[i].play
    BY <1>1, LegType, LegEdits
  <1>3. legs' = [legs EXCEPT ![i] = n]
    BY <1>1
  <1> QED  BY <1>2, <1>3, LegWrites DEF LegBecomes

LEMMA DisconnectEffect ==
    ASSUME PlaybackTyped, here # 0,
           legs' = [legs EXCEPT ![here].open = FALSE, ![here].ours = TRUE]
    PROVE  /\ LegBecomes(here, legs'[here]) /\ legs'[here].open = FALSE
           /\ legs'[here].channel = Leg.channel /\ legs'[here].content = Leg.content
           /\ legs'[here].play = Leg.play
  <1>1. here \in 1 .. Len(legs) /\ Leg \in AudioLegs
    BY LegType DEF PlaybackTyped, Leg
  <1>2. PICK m : m = [Leg EXCEPT !.open = FALSE]
    OBVIOUS
  <1>3. /\ m \in AudioLegs /\ m.open = FALSE /\ m.channel = Leg.channel
        /\ m.content = Leg.content /\ m.play = Leg.play
    BY <1>1, <1>2, LegEdits
  <1>4. PICK n : n = [m EXCEPT !.ours = TRUE]
    OBVIOUS
  <1>5. /\ n \in AudioLegs /\ n.open = FALSE /\ n.channel = Leg.channel
        /\ n.content = Leg.content /\ n.play = Leg.play
    BY <1>3, <1>4, LegEdits
  <1>6. legs' = [legs EXCEPT ![here] = n]
    BY <1>1, <1>2, <1>4 DEF Leg
  <1> QED  BY <1>1, <1>5, <1>6, LegWrites DEF LegBecomes

LEMMA LoadedEffect ==
    ASSUME PlaybackTyped, NEW i \in 1 .. Len(legs), NEW u \in Urls, legs[i].content # None,
           legs' = [legs EXCEPT ![i].channel = TRUE, ![i].content.data = u]
    PROVE  /\ LegBecomes(i, legs'[i]) /\ legs'[i].open = legs[i].open
           /\ legs'[i].channel = TRUE /\ legs'[i].content \in LegContents
           /\ legs'[i].content.data = u
           /\ legs'[i].content.playing = legs[i].content.playing
           /\ legs'[i].content.speed = legs[i].content.speed
           /\ legs'[i].play = legs[i].play
  <1>1. legs[i] \in AudioLegs /\ legs[i].content \in LegContents
    BY LegType
  <1>2. PICK c : c = [legs[i].content EXCEPT !.data = u]
    OBVIOUS
  <1>3. /\ c \in LegContents /\ c.data = u /\ c.playing = legs[i].content.playing
        /\ c.speed = legs[i].content.speed
    BY <1>1, <1>2, ContentEdits
  <1>4. PICK m : m = [legs[i] EXCEPT !.channel = TRUE]
    OBVIOUS
  <1>5. /\ m \in AudioLegs /\ m.open = legs[i].open /\ m.channel = TRUE
        /\ m.content = legs[i].content /\ m.play = legs[i].play
    BY <1>1, <1>4, LegEdits
  <1>6. PICK n : n = [m EXCEPT !.content = c]
    OBVIOUS
  <1>7. /\ n \in AudioLegs /\ n.open = legs[i].open /\ n.channel = TRUE
        /\ n.content = c /\ n.play = legs[i].play
    BY <1>3, <1>5, <1>6, LegEdits
  <1>8. legs' = [legs EXCEPT ![i] = n]
    <2>1. n = [legs[i] EXCEPT !.channel = TRUE,
                              !.content = [legs[i].content EXCEPT !.data = u]]
      BY <1>2, <1>4, <1>6
    <2> QED  BY <2>1
  <1> QED  BY <1>3, <1>7, <1>8, LegWrites DEF LegBecomes

LEMMA QuietEffect ==
    ASSUME PlaybackTyped, NEW i \in 1 .. Len(legs), legs[i].content # None,
           NEW b \in BOOLEAN, NEW n, n = [legs[i] EXCEPT !.channel = b, !.content.playing = FALSE],
           legs' = [legs EXCEPT ![i] = n]
    PROVE  /\ LegBecomes(i, legs'[i]) /\ legs'[i].open = legs[i].open
           /\ legs'[i].channel = b /\ legs'[i].content \in LegContents
           /\ legs'[i].content.data = legs[i].content.data
           /\ legs'[i].content.playing = FALSE
           /\ legs'[i].content.speed = legs[i].content.speed
           /\ legs'[i].play = legs[i].play
  <1>1. legs[i] \in AudioLegs /\ legs[i].content \in LegContents
    BY LegType
  <1>2. PICK c : c = [legs[i].content EXCEPT !.playing = FALSE]
    OBVIOUS
  <1>3. /\ c \in LegContents /\ c.data = legs[i].content.data /\ c.playing = FALSE
        /\ c.speed = legs[i].content.speed
    BY <1>1, <1>2, ContentEdits
  <1>4. PICK m : m = [legs[i] EXCEPT !.channel = b]
    OBVIOUS
  <1>5. /\ m \in AudioLegs /\ m.open = legs[i].open /\ m.channel = b
        /\ m.content = legs[i].content /\ m.play = legs[i].play
    BY <1>1, <1>4, LegEdits
  <1>6. n = [m EXCEPT !.content = c]
    <2>1. [m EXCEPT !.content = c] =
             [legs[i] EXCEPT !.channel = b,
                             !.content = [legs[i].content EXCEPT !.playing = FALSE]]
      BY <1>2, <1>4
    <2> QED  BY <2>1
  <1>7. PICK k : k = [m EXCEPT !.content = c]
    OBVIOUS
  <1>8. /\ k \in AudioLegs /\ k.open = legs[i].open /\ k.channel = b
        /\ k.content = c /\ k.play = legs[i].play
    BY <1>3, <1>5, <1>7, LegEdits
  <1> QED  BY <1>3, <1>6, <1>7, <1>8, LegWrites DEF LegBecomes

-----------------------------------------------------------------------------
(* Streams of a leg. *)

StreamsTyped ==
    /\ legs \in Seq(AudioLegs) /\ here \in 0 .. Len(legs)
    /\ loads \in SUBSET LegStreams /\ Streams \in SUBSET LegStreams
    /\ loops = SetToBag(Streams)
    /\ \A l \in loads \cup Streams : l.leg \in 1 .. Len(legs)

Playing(ear) == Loaded(ear) /\ ear.content.playing

StreamsOk == StreamsTyped /\ StreamsKeyed /\ LegsSound

(* A leg stops, is closed or gets another speed. *)
Fades(m, n) ==
    /\ n.play = m.play /\ (n.open => m.open) /\ (n.channel => m.channel)
    /\ (n.content = None) = (m.content = None)
    /\ m.content # None => /\ n.content.data = m.content.data
                           /\ n.content.playing => m.content.playing
    /\ Playing(n) => n.channel

LEMMA FadeSound ==
    ASSUME PlaybackTyped, StreamsKeyed, LegsSound,
           legs' \in Seq(AudioLegs), Len(legs') = Len(legs),
           \A i \in 1 .. Len(legs) : Fades(legs[i], legs'[i]),
           here' = here \/ (here' = 0 /\ \A i \in 1 .. Len(legs) : legs'[i].open => i # here),
           loads' \subseteq loads, NEW S \in SUBSET Streams, loops' = SetToBag(S),
           \A l \in Streams \ S :
               legs'[l.leg].open /\ Playing(legs'[l.leg]) => l.play # legs'[l.leg].play,
           playDoubt \subseteq playDoubt'
    PROVE  Streams' = S /\ StreamsOk'
  <1>1. Streams' = S
    BY BagSet DEF Streams
  <1>2. StreamsTyped'
    BY <1>1 DEF StreamsTyped, PlaybackTyped
  <1>3. \A l \in loads \cup Streams : l.leg \in 1 .. Len(legs)
    BY DEF PlaybackTyped
  <1>4. StreamsKeyed'
    BY <1>1, <1>3 DEF StreamsKeyed, Fades
  <1>5. \A i \in 1 .. Len(legs) : Loaded(legs'[i]) = Loaded(legs[i])
    BY DEF Loaded, Fades
  <1>6. LegsSound'
    <2>1. \A i \in 1 .. Len(legs') :
             /\ legs'[i].channel => legs'[i].content # None
             /\ Loaded(legs'[i]) /\ legs'[i].content.playing => legs'[i].channel
      BY DEF LegsSound, Fades, Playing
    <2>2. "two_legs" \notin playDoubt' => \A i \in 1 .. Len(legs') : legs'[i].open => i = here'
      BY DEF LegsSound, Fades
    <2>3. ASSUME "overlap" \notin playDoubt'
          PROVE  /\ \A l \in loads' :
                      /\ legs'[l.leg].content # None /\ legs'[l.leg].content.data = None
                      /\ l.play = legs'[l.leg].play
                 /\ \A l \in S :
                      l.play = legs'[l.leg].play =>
                          Loaded(legs'[l.leg]) /\ legs'[l.leg].content.data = l.url
      BY <1>3, <1>5, <2>3 DEF LegsSound, Fades, Loaded
    <2>4. ASSUME {"overlap", "unloaded"} \cap playDoubt' = {},
                 NEW i \in 1 .. Len(legs'),
                 legs'[i].open, Loaded(legs'[i]), legs'[i].content.playing
          PROVE  \E l \in S : l.leg = i /\ l.play = legs'[i].play
      <3>1. /\ Fades(legs[i], legs'[i]) /\ legs[i].open /\ Loaded(legs[i])
            /\ legs[i].content.playing
        BY <1>5, <2>4 DEF Fades, Loaded
      <3>2. PICK l \in Streams : l.leg = i /\ l.play = legs[i].play
        BY <2>4, <3>1 DEF LegsSound
      <3>3. l \in S
        BY <2>4, <3>1, <3>2 DEF Fades, Playing
      <3> QED  BY <3>1, <3>2, <3>3 DEF Fades
    <2> QED  BY <1>1, <2>1, <2>2, <2>3, <2>4 DEF LegsSound
  <1> QED  BY <1>1, <1>2, <1>4, <1>6 DEF StreamsOk

LEMMA SameFades ==
    ASSUME LegsSound, NEW i \in 1 .. Len(legs)
    PROVE  Fades(legs[i], legs[i])
  BY DEF LegsSound, Fades, Playing

(* The service does nothing. *)
LEMMA ServiceIdle ==
    ASSUME PlaybackTyped, StreamsKeyed, LegsSound, UNCHANGED serviceVars,
           playDoubt \subseteq playDoubt'
    PROVE  StreamsOk' /\ Streams' = Streams
  <1>1. /\ legs' = legs /\ here' = here /\ loads' = loads /\ loops' = SetToBag(Streams)
        /\ legs \in Seq(AudioLegs)
    BY DEF serviceVars, PlaybackTyped
  <1>2. \A i \in 1 .. Len(legs) : Fades(legs[i], legs'[i])
    BY <1>1, SameFades
  <1> QED  BY <1>1, <1>2, FadeSound

(* One leg fades. *)
LEMMA LegFades ==
    ASSUME PlaybackTyped, StreamsKeyed, LegsSound, NEW i, LegBecomes(i, legs'[i]),
           Fades(legs[i], legs'[i]), UNCHANGED <<here, loads>>,
           NEW S \in SUBSET Streams, loops' = SetToBag(S),
           \A l \in Streams \ S :
               legs'[l.leg].open /\ Playing(legs'[l.leg]) => l.play # legs'[l.leg].play,
           playDoubt \subseteq playDoubt'
    PROVE  Streams' = S /\ StreamsOk'
  <1>1. /\ legs' \in Seq(AudioLegs) /\ Len(legs') = Len(legs)
        /\ \A j \in 1 .. Len(legs) : j # i => legs'[j] = legs[j]
    BY DEF LegBecomes
  <1>2. \A j \in 1 .. Len(legs) : Fades(legs[j], legs'[j])
    BY <1>1, SameFades
  <1> QED  BY <1>1, <1>2, FadeSound

(* A stream of its own starts. *)
LEMMA RestartSound ==
    ASSUME PlaybackTyped, StreamsKeyed, LegsSound, here # 0, Loaded(Leg),
           LegBecomes(here, legs'[here]),
           legs'[here].open = Leg.open, legs'[here].channel = TRUE,
           legs'[here].content \in LegContents, legs'[here].content.data = Leg.content.data,
           legs'[here].play = Leg.play + 1,
           NEW l, l = [leg |-> here, url |-> Leg.content.data, play |-> Leg.play + 1],
           loops' = loops (+) SetToBag({l}), UNCHANGED <<here, loads>>,
           playDoubt \subseteq playDoubt'
    PROVE  Streams' = Streams \cup {l} /\ StreamsOk'
  <1>1. /\ here \in 1 .. Len(legs) /\ Leg.play \in Nat /\ Leg.content.data \in Urls
        /\ Leg.content # None
    <2>1. here \in 1 .. Len(legs)
      BY DEF PlaybackTyped
    <2> QED  BY <2>1, LegType, ContentType DEF Leg, Loaded
  <1>2. /\ l.leg = here /\ l.url = Leg.content.data /\ l.play = Leg.play + 1
        /\ l \in LegStreams
    BY <1>1 DEF LegStreams
  <1>3. \A m \in loads \cup Streams : m.leg \in 1 .. Len(legs) /\ m.play \in Nat
    BY DEF PlaybackTyped, LegStreams
  <1>4. \A m \in loads \cup Streams : ~ SameKey(l, m) /\ ~ SameKey(m, l) /\ m # l
    BY <1>1, <1>2, <1>3 DEF StreamsKeyed, SameKey, Leg
  <1>5. loops' = SetToBag(Streams \cup {l}) /\ Streams' = Streams \cup {l}
    <2>1. l \notin Streams /\ loops = SetToBag(Streams)
      BY <1>4 DEF PlaybackTyped
    <2>2. loops' = SetToBag(Streams \cup {l})
      BY <2>1, BagAdds
    <2> QED  BY <2>2, BagSet DEF Streams
  <1>6. /\ legs' \in Seq(AudioLegs) /\ Len(legs') = Len(legs)
        /\ \A i \in 1 .. Len(legs) : i # here => legs'[i] = legs[i]
    BY DEF LegBecomes
  <1>7. StreamsTyped'
    BY <1>1, <1>2, <1>5, <1>6 DEF StreamsTyped, PlaybackTyped
  <1>8. StreamsKeyed'
    <2>1. \A m \in (loads \cup Streams)' :
             m.play <= legs'[m.leg].play /\ legs'[m.leg].content # None
      <3> SUFFICES ASSUME NEW m \in loads \cup Streams \cup {l}
                   PROVE  m.play <= legs'[m.leg].play /\ legs'[m.leg].content # None
        BY <1>5
      <3>1. CASE m = l
        BY <1>1, <1>2, <3>1, ContentType
      <3>2. CASE m # l /\ m.leg = here
        BY <1>1, <1>3, <3>2, ContentType DEF StreamsKeyed, Leg
      <3>3. CASE m # l /\ m.leg # here
        BY <1>3, <1>6, <3>3 DEF StreamsKeyed
      <3> QED  BY <3>1, <3>2, <3>3
    <2> QED  BY <1>4, <1>5, <2>1 DEF StreamsKeyed, SameKey
  <1>9. LegsSound'
    <2>1. \A i \in 1 .. Len(legs') :
             /\ legs'[i].channel => legs'[i].content # None
             /\ Loaded(legs'[i]) /\ legs'[i].content.playing => legs'[i].channel
      BY <1>6, ContentType DEF LegsSound
    <2>2. "two_legs" \notin playDoubt' => \A i \in 1 .. Len(legs') : legs'[i].open => i = here
      BY <1>6 DEF LegsSound
    <2>3. ASSUME "overlap" \notin playDoubt'
          PROVE  /\ \A m \in loads :
                      /\ legs'[m.leg].content # None /\ legs'[m.leg].content.data = None
                      /\ m.play = legs'[m.leg].play
                 /\ \A m \in Streams \cup {l} :
                      m.play = legs'[m.leg].play =>
                          Loaded(legs'[m.leg]) /\ legs'[m.leg].content.data = m.url
      <3>1. \A m \in loads : m.leg # here
        BY <1>3, <2>3 DEF LegsSound, Loaded, Leg
      <3>2. Loaded(legs'[here])
        BY <1>1, ContentType DEF Loaded, Leg
      <3>3. \A m \in Streams : m.leg = here => m.play # legs'[here].play
        BY <1>1, <1>3 DEF StreamsKeyed, Leg
      <3> QED  BY <1>2, <1>3, <1>6, <2>3, <3>1, <3>2, <3>3 DEF LegsSound
    <2>4. ASSUME {"overlap", "unloaded"} \cap playDoubt' = {},
                 NEW i \in 1 .. Len(legs'),
                 legs'[i].open, Loaded(legs'[i]), legs'[i].content.playing
          PROVE  \E m \in Streams \cup {l} : m.leg = i /\ m.play = legs'[i].play
      <3>1. CASE i = here
        BY <1>2, <3>1
      <3>2. CASE i # here
        BY <1>6, <2>4, <3>2 DEF LegsSound
      <3> QED  BY <3>1, <3>2
    <2> QED  BY <1>5, <2>1, <2>2, <2>3, <2>4 DEF LegsSound
  <1> QED  BY <1>5, <1>7, <1>8, <1>9 DEF StreamsOk

LEMMA PlaySound ==
    ASSUME PlaybackTyped, StreamsKeyed, LegsSound, here # 0, NEW u \in Urls,
           LegBecomes(here, legs'[here]),
           legs'[here].open = Leg.open,
           legs'[here].content \in LegContents, legs'[here].content.data = None,
           legs'[here].play = Leg.play + 1,
           NEW l, l = [leg |-> here, url |-> u, play |-> Leg.play + 1],
           loads' = loads \cup {l}, UNCHANGED <<here, loops>>,
           playDoubt \subseteq playDoubt',
           (\E m \in loads : m.leg = here) => "overlap" \in playDoubt'
    PROVE  Streams' = Streams /\ StreamsOk'
  <1>1. here \in 1 .. Len(legs) /\ Leg.play \in Nat
    <2>1. here \in 1 .. Len(legs)
      BY DEF PlaybackTyped
    <2> QED  BY <2>1, LegType DEF Leg
  <1>2. /\ l.leg = here /\ l.url = u /\ l.play = Leg.play + 1 /\ l \in LegStreams
    BY <1>1 DEF LegStreams
  <1>3. \A m \in loads \cup Streams : m.leg \in 1 .. Len(legs) /\ m.play \in Nat
    BY DEF PlaybackTyped, LegStreams
  <1>4. \A m \in loads \cup Streams : ~ SameKey(l, m) /\ ~ SameKey(m, l) /\ m # l
    BY <1>1, <1>2, <1>3 DEF StreamsKeyed, SameKey, Leg
  <1>5. Streams' = Streams
    BY DEF Streams
  <1>6. /\ legs' \in Seq(AudioLegs) /\ Len(legs') = Len(legs)
        /\ \A i \in 1 .. Len(legs) : i # here => legs'[i] = legs[i]
    BY DEF LegBecomes
  <1>7. StreamsTyped'
    BY <1>1, <1>2, <1>5, <1>6 DEF StreamsTyped, PlaybackTyped
  <1>8. StreamsKeyed'
    <2>1. \A m \in (loads \cup Streams)' :
             m.play <= legs'[m.leg].play /\ legs'[m.leg].content # None
      <3> SUFFICES ASSUME NEW m \in loads \cup Streams \cup {l}
                   PROVE  m.play <= legs'[m.leg].play /\ legs'[m.leg].content # None
        BY <1>5
      <3>1. CASE m = l
        BY <1>1, <1>2, <3>1, ContentType
      <3>2. CASE m # l /\ m.leg = here
        BY <1>1, <1>3, <3>2, ContentType DEF StreamsKeyed, Leg
      <3>3. CASE m # l /\ m.leg # here
        BY <1>3, <1>6, <3>3 DEF StreamsKeyed
      <3> QED  BY <3>1, <3>2, <3>3
    <2> QED  BY <1>4, <1>5, <2>1 DEF StreamsKeyed, SameKey
  <1>9. LegsSound'
    <2>1. \A i \in 1 .. Len(legs') :
             /\ legs'[i].channel => legs'[i].content # None
             /\ Loaded(legs'[i]) /\ legs'[i].content.playing => legs'[i].channel
      BY <1>6, ContentType DEF LegsSound, Loaded
    <2>2. "two_legs" \notin playDoubt' => \A i \in 1 .. Len(legs') : legs'[i].open => i = here
      BY <1>6 DEF LegsSound
    <2>3. ASSUME "overlap" \notin playDoubt'
          PROVE  /\ \A m \in loads \cup {l} :
                      /\ legs'[m.leg].content # None /\ legs'[m.leg].content.data = None
                      /\ m.play = legs'[m.leg].play
                 /\ \A m \in Streams :
                      m.play = legs'[m.leg].play =>
                          Loaded(legs'[m.leg]) /\ legs'[m.leg].content.data = m.url
      <3>1. \A m \in loads : m.leg # here
        BY <2>3
      <3>2. legs'[here].content # None
        BY ContentType
      <3>3. \A m \in Streams : m.leg = here => m.play # legs'[here].play
        BY <1>1, <1>3 DEF StreamsKeyed, Leg
      <3> QED  BY <1>2, <1>3, <1>6, <2>3, <3>1, <3>2, <3>3 DEF LegsSound
    <2>4. ASSUME {"overlap", "unloaded"} \cap playDoubt' = {},
                 NEW i \in 1 .. Len(legs'),
                 legs'[i].open, Loaded(legs'[i]), legs'[i].content.playing
          PROVE  \E m \in Streams : m.leg = i /\ m.play = legs'[i].play
      <3>1. i # here
        BY <2>4 DEF Loaded
      <3> QED  BY <1>6, <2>4, <3>1 DEF LegsSound
    <2> QED  BY <1>5, <2>1, <2>2, <2>3, <2>4 DEF LegsSound
  <1> QED  BY <1>5, <1>7, <1>8, <1>9 DEF StreamsOk

LEMMA DownloadSound ==
    ASSUME PlaybackTyped, StreamsKeyed, LegsSound, NEW l \in loads,
           LegBecomes(l.leg, legs'[l.leg]), legs'[l.leg].open = legs[l.leg].open,
           legs'[l.leg].channel = TRUE, legs'[l.leg].content \in LegContents,
           legs'[l.leg].content.data = l.url, legs'[l.leg].play = legs[l.leg].play,
           loads' = loads \ {l}, loops' = loops (+) SetToBag({l}), here' = here,
           playDoubt \subseteq playDoubt'
    PROVE  Streams' = Streams \cup {l} /\ StreamsOk'
  <1>1. l.leg \in 1 .. Len(legs) /\ l \in LegStreams /\ l.url \in Urls
    BY DEF PlaybackTyped, LegStreams
  <1>2. l \notin Streams
    BY DEF StreamsKeyed, SameKey
  <1>3. loops' = SetToBag(Streams \cup {l}) /\ Streams' = Streams \cup {l}
    BY <1>2, BagAdds, BagSet DEF PlaybackTyped, Streams
  <1>4. /\ legs' \in Seq(AudioLegs) /\ Len(legs') = Len(legs)
        /\ \A i \in 1 .. Len(legs) : i # l.leg => legs'[i] = legs[i]
    BY DEF LegBecomes
  <1>5. \A m \in loads \cup Streams : m.leg \in 1 .. Len(legs) /\ m.play \in Nat
    BY DEF PlaybackTyped, LegStreams
  <1>6. StreamsTyped'
    BY <1>1, <1>3, <1>4 DEF StreamsTyped, PlaybackTyped
  <1>7. StreamsKeyed'
    <2>1. \A m \in (loads \cup Streams)' :
             m.play <= legs'[m.leg].play /\ legs'[m.leg].content # None
      <3> SUFFICES ASSUME NEW m \in loads \cup Streams
                   PROVE  m.play <= legs'[m.leg].play /\ legs'[m.leg].content # None
        BY <1>3
      <3>1. CASE m.leg = l.leg
        BY <1>1, <1>5, <3>1, ContentType DEF StreamsKeyed
      <3>2. CASE m.leg # l.leg
        BY <1>4, <1>5, <3>2 DEF StreamsKeyed
      <3> QED  BY <3>1, <3>2
    <2>2. \A m \in Streams : ~ SameKey(l, m) /\ ~ SameKey(m, l)
      BY DEF StreamsKeyed, SameKey
    <2>3. \A m \in loads \ {l} : ~ SameKey(l, m) /\ ~ SameKey(m, l)
      BY DEF StreamsKeyed, SameKey
    <2> QED  BY <1>3, <2>1, <2>2, <2>3 DEF StreamsKeyed, SameKey
  <1>8. Loaded(legs'[l.leg])
    BY <1>1, ContentType, PlaybackAssumption DEF Loaded
  <1>9. LegsSound'
    <2>1. \A i \in 1 .. Len(legs') :
             /\ legs'[i].channel => legs'[i].content # None
             /\ Loaded(legs'[i]) /\ legs'[i].content.playing => legs'[i].channel
      BY <1>4, ContentType DEF LegsSound
    <2>2. "two_legs" \notin playDoubt' => \A i \in 1 .. Len(legs') : legs'[i].open => i = here
      BY <1>4 DEF LegsSound
    <2>3. "overlap" \notin playDoubt' => l.play = legs[l.leg].play
      BY DEF LegsSound
    <2>4. ASSUME "overlap" \notin playDoubt'
          PROVE  /\ \A m \in loads \ {l} :
                      /\ legs'[m.leg].content # None /\ legs'[m.leg].content.data = None
                      /\ m.play = legs'[m.leg].play
                 /\ \A m \in Streams \cup {l} :
                      m.play = legs'[m.leg].play =>
                          Loaded(legs'[m.leg]) /\ legs'[m.leg].content.data = m.url
      <3>1. \A m \in loads \ {l} : m.leg # l.leg
        BY <2>4 DEF LegsSound, StreamsKeyed, SameKey
      <3>2. \A m \in Streams : m.leg = l.leg => m.play # legs'[l.leg].play
        BY <2>3, <2>4 DEF StreamsKeyed, SameKey
      <3> QED  BY <1>4, <1>5, <1>8, <2>4, <3>1, <3>2 DEF LegsSound
    <2>5. ASSUME {"overlap", "unloaded"} \cap playDoubt' = {},
                 NEW i \in 1 .. Len(legs'),
                 legs'[i].open, Loaded(legs'[i]), legs'[i].content.playing
          PROVE  \E m \in Streams \cup {l} : m.leg = i /\ m.play = legs'[i].play
      <3>1. CASE i = l.leg
        BY <2>3, <2>5, <3>1
      <3>2. CASE i # l.leg
        BY <1>4, <2>5, <3>2 DEF LegsSound
      <3> QED  BY <3>1, <3>2
    <2> QED  BY <1>3, <2>1, <2>2, <2>4, <2>5 DEF LegsSound
  <1> QED  BY <1>3, <1>6, <1>7, <1>9 DEF StreamsOk

-----------------------------------------------------------------------------
(* Queues. *)

PlatformTyped ==
    /\ shown \in AudioContentState
    /\ playInbox \in Seq(Events) /\ sending \in Orders \cup {None}
    /\ attached \in BOOLEAN /\ ordered \in Nat
    /\ link \in {"up", "cut", "down"} /\ control \in BOOLEAN /\ (link = "up" => control)
    /\ toService \in Seq(Orders) /\ toPlatform \in Seq(Reports)

LEMMA TypesJoin ==
    /\ PlaybackTyped => PlatformTyped /\ StreamsTyped
    /\ PlatformTyped' /\ StreamsTyped' => PlaybackTyped'
  BY DEF PlaybackTyped, PlatformTyped, StreamsTyped

LEMMA HeadOrder ==
    ASSUME PlaybackTyped, toService # <<>>, toService' = Tail(toService)
    PROVE  /\ Head(toService) \in Orders /\ toService' \in Seq(Orders)
           /\ \A T : Ordered(T) = (Head(toService).type \in T \/ Ordered(T)')
           /\ UrlTrue /\ shown' = shown /\ Head(toService).type = "play"
              /\ ~ Ordered({"play"})' => Head(toService).value = shown.url
  <1>1. /\ Len(toService) \in Nat /\ Len(toService) > 0 /\ Len(toService') = Len(toService) - 1
        /\ \A i \in 1 .. Len(toService') : toService'[i] = toService[i + 1]
        /\ Head(toService) = toService[1] /\ toService' \in Seq(Orders)
        /\ Head(toService) \in Orders
    BY DEF PlaybackTyped
  <1>2. ASSUME NEW T
        PROVE  Ordered(T) = (Head(toService).type \in T \/ Ordered(T)')
    <2>1. ASSUME NEW i \in 1 .. Len(toService), toService[i].type \in T
          PROVE  Head(toService).type \in T \/ Ordered(T)'
      <3>1. CASE i = 1
        BY <1>1, <2>1, <3>1
      <3>2. CASE i # 1
        <4>1. i - 1 \in 1 .. Len(toService') /\ toService'[i - 1] = toService[i]
          BY <1>1, <3>2
        <4> QED  BY <2>1, <4>1 DEF Ordered
      <3> QED  BY <3>1, <3>2
    <2>2. ASSUME NEW i \in 1 .. Len(toService'), toService'[i].type \in T
          PROVE  Ordered(T)
      <3>1. i + 1 \in 1 .. Len(toService) /\ toService'[i] = toService[i + 1]
        BY <1>1
      <3> QED  BY <2>2, <3>1 DEF Ordered
    <2>3. Head(toService).type \in T => Ordered(T)
      BY <1>1 DEF Ordered
    <2> QED  BY <2>1, <2>2, <2>3 DEF Ordered
  <1>3. ASSUME UrlTrue, shown' = shown, Head(toService).type = "play", ~ Ordered({"play"})'
        PROVE  Head(toService).value = shown.url
    <2>1. \A j \in 1 .. Len(toService) : j > 1 => toService[j].type # "play"
      <3> SUFFICES ASSUME NEW j \in 1 .. Len(toService), j > 1, toService[j].type = "play"
                   PROVE  FALSE
        OBVIOUS
      <3>1. j - 1 \in 1 .. Len(toService') /\ toService'[j - 1] = toService[j]
        BY <1>1
      <3> QED  BY <1>3, <3>1 DEF Ordered
    <2> QED  BY <1>1, <1>3, <2>1 DEF UrlTrue
  <1> QED  BY <1>1, <1>2, <1>3

(* The urls that are on their way, when the first order is off. *)
LastPlay ==
    \A i \in 1 .. Len(toService) :
          toService[i].type = "play"
          /\ (\A j \in 1 .. Len(toService) : j > i => toService[j].type # "play")
          => toService[i].value = shown.url

LEMMA LastPlayTail ==
    ASSUME PlaybackTyped, toService # <<>>, toService' = Tail(toService), LastPlay,
           shown' = shown
    PROVE  LastPlay'
  <1>1. /\ Len(toService) \in Nat /\ Len(toService) > 0 /\ Len(toService') = Len(toService) - 1
        /\ \A i \in 1 .. Len(toService') : toService'[i] = toService[i + 1]
    BY DEF PlaybackTyped
  <1> SUFFICES ASSUME NEW i \in 1 .. Len(toService'), toService'[i].type = "play",
                      \A j \in 1 .. Len(toService') : j > i => toService'[j].type # "play"
               PROVE  toService'[i].value = shown.url
    BY DEF LastPlay
  <1>2. i + 1 \in 1 .. Len(toService) /\ toService'[i] = toService[i + 1]
    BY <1>1
  <1>3. ASSUME NEW j \in 1 .. Len(toService), j > i + 1
        PROVE  toService[j].type # "play"
    <2>1. j - 1 \in 1 .. Len(toService') /\ j - 1 > i /\ toService'[j - 1] = toService[j]
      BY <1>1, <1>3
    <2> QED  BY <2>1
  <1> QED  BY <1>2, <1>3 DEF LastPlay

LEMMA LastPlayAppend ==
    ASSUME PlaybackTyped, NEW e \in Orders, toService' = Append(toService, e),
           \/ e.type = "play" /\ shown'.url = e.value
           \/ e.type # "play" /\ shown'.url = shown.url /\ LastPlay
    PROVE  LastPlay'
  <1>1. /\ Len(toService) \in Nat /\ Len(toService') = Len(toService) + 1
        /\ \A i \in 1 .. Len(toService) : toService'[i] = toService[i]
        /\ toService'[Len(toService')] = e
    BY DEF PlaybackTyped
  <1> SUFFICES ASSUME NEW i \in 1 .. Len(toService'), toService'[i].type = "play",
                      \A j \in 1 .. Len(toService') : j > i => toService'[j].type # "play"
               PROVE  toService'[i].value = shown'.url
    BY DEF LastPlay
  <1>2. CASE i = Len(toService')
    BY <1>1, <1>2
  <1>3. CASE i # Len(toService')
    <2>1. i \in 1 .. Len(toService) /\ e.type # "play" /\ toService'[i] = toService[i]
      BY <1>1, <1>3
    <2>2. \A j \in 1 .. Len(toService) : j > i => toService[j].type # "play"
      BY <1>1
    <2> QED  BY <2>1, <2>2 DEF LastPlay
  <1> QED  BY <1>2, <1>3

LEMMA OrderedAppend ==
    ASSUME PlaybackTyped, NEW e \in Orders, toService' = Append(toService, e)
    PROVE  \A T : Ordered(T)' = (Ordered(T) \/ e.type \in T)
  <1> SUFFICES ASSUME NEW T
               PROVE  Ordered(T)' = (Ordered(T) \/ e.type \in T)
    OBVIOUS
  <1>1. /\ Len(toService) \in Nat /\ Len(toService') = Len(toService) + 1
        /\ \A i \in 1 .. Len(toService) : toService'[i] = toService[i]
        /\ toService'[Len(toService')] = e
    BY DEF PlaybackTyped
  <1>2. Ordered(T) => Ordered(T)'
    BY <1>1 DEF Ordered
  <1>3. e.type \in T => Ordered(T)'
    BY <1>1 DEF Ordered
  <1>4. Ordered(T)' => Ordered(T) \/ e.type \in T
    BY <1>1 DEF Ordered
  <1> QED  BY <1>2, <1>3, <1>4 DEF Ordered

(* The last report. *)
LEMMA WordsReported ==
    ASSUME PlaybackTyped, NEW rep \in Reports, toPlatform' = Append(toPlatform, rep)
    PROVE  \A v : Word(v)' => v = rep
  <1>1. Len(toPlatform') = Len(toPlatform) + 1 /\ toPlatform'[Len(toPlatform')] = rep
        /\ toPlatform' # <<>>
    BY DEF PlaybackTyped
  <1> QED  BY <1>1 DEF Word, LastReport, Silent

LEMMA WordsKept ==
    ASSUME UNCHANGED <<shown, playInbox, toPlatform>>
    PROVE  \A v : Word(v)' => Word(v)
  BY DEF Word, LastReport, Silent

LEMMA WordsAsked ==
    ASSUME PlaybackTyped, NEW e \in Events, e.type # "report",
           playInbox' = Append(playInbox, e), UNCHANGED <<shown, toPlatform>>
    PROVE  \A v : Word(v)' => Word(v)
  <1>1. /\ Len(playInbox) \in Nat /\ Len(playInbox') = Len(playInbox) + 1
        /\ \A i \in 1 .. Len(playInbox) : playInbox'[i] = playInbox[i]
        /\ playInbox'[Len(playInbox')] = e
    BY DEF PlaybackTyped
  <1> SUFFICES ASSUME NEW v, Word(v)'
               PROVE  Word(v)
    OBVIOUS
  <1>2. CASE toPlatform # <<>>
    BY <1>2 DEF Word, LastReport, Silent
  <1>3. CASE toPlatform = <<>> /\ Silent'
    <2>1. Silent
      BY <1>1, <1>3 DEF Silent
    <2>2. v = [status |-> shown.status, speed |-> shown.speed]
      BY <1>3 DEF Word, LastReport, Silent
    <2> QED  BY <2>1, <2>2 DEF Word
  <1>4. CASE toPlatform = <<>> /\ ~ Silent'
    <2>1. PICK i \in 1 .. Len(playInbox') :
            /\ playInbox'[i].type = "report" /\ v = playInbox'[i].value
            /\ \A j \in 1 .. Len(playInbox') : j > i => playInbox'[j].type # "report"
      BY <1>4 DEF Word, LastReport
    <2>2. i \in 1 .. Len(playInbox)
      BY <1>1, <2>1
    <2> QED  BY <1>1, <1>4, <2>1, <2>2 DEF Word, LastReport
  <1> QED  BY <1>2, <1>3, <1>4

LEMMA WordsReceived ==
    ASSUME PlaybackTyped, toPlatform # <<>>, toPlatform' = Tail(toPlatform),
           playInbox' = Append(playInbox, AudioEvent("report", Head(toPlatform))),
           shown' = shown
    PROVE  /\ \A v : Word(v)' => Word(v)
           /\ playInbox' \in Seq(Events) /\ toPlatform' \in Seq(Reports)
  <1>1. PICK e : e = AudioEvent("report", Head(toPlatform))
    OBVIOUS
  <1>2. Head(toPlatform) \in Reports
    BY DEF PlaybackTyped
  <1>3. e \in Events /\ e.type = "report" /\ e.value = Head(toPlatform)
    BY <1>1, <1>2 DEF AudioEvent, Events
  <1>4. /\ Len(playInbox) \in Nat /\ Len(playInbox') = Len(playInbox) + 1
        /\ playInbox'[Len(playInbox')] = e /\ playInbox' \in Seq(Events)
    BY <1>1, <1>3 DEF PlaybackTyped
  <1>5. /\ Len(toPlatform) \in Nat /\ Len(toPlatform) > 0
        /\ Len(toPlatform') = Len(toPlatform) - 1 /\ toPlatform' \in Seq(Reports)
        /\ \A i \in 1 .. Len(toPlatform') : toPlatform'[i] = toPlatform[i + 1]
        /\ Head(toPlatform) = toPlatform[1]
    BY DEF PlaybackTyped
  <1>6. ASSUME NEW v, Word(v)'
        PROVE  v = toPlatform[Len(toPlatform)]
    <2>1. CASE Len(toPlatform) = 1
      <3>1. toPlatform' = <<>>
        BY <1>5, <2>1
      <3>2. ~ Silent'
        BY <1>3, <1>4 DEF Silent
      <3>3. PICK i \in 1 .. Len(playInbox') :
              /\ playInbox'[i].type = "report" /\ v = playInbox'[i].value
              /\ \A j \in 1 .. Len(playInbox') : j > i => playInbox'[j].type # "report"
        BY <1>6, <3>1, <3>2 DEF Word, LastReport
      <3>4. i = Len(playInbox')
        BY <1>3, <1>4, <3>3
      <3> QED  BY <1>3, <1>4, <1>5, <2>1, <3>3, <3>4
    <2>2. CASE Len(toPlatform) # 1
      <3>1. toPlatform' # <<>> /\ toPlatform'[Len(toPlatform')] = toPlatform[Len(toPlatform)]
        BY <1>5, <2>2
      <3> QED  BY <1>6, <3>1 DEF Word, LastReport, Silent
    <2> QED  BY <2>1, <2>2
  <1> QED  BY <1>4, <1>5, <1>6 DEF Word, LastReport

(* The first event of the queue is off. *)
LEMMA WordsTaken ==
    ASSUME PlaybackTyped, playInbox # <<>>, playInbox' = Tail(playInbox),
           toPlatform' = toPlatform
    PROVE  /\ Head(playInbox) \in Events /\ playInbox' \in Seq(Events)
           /\ \A v : LastReport(v)' => LastReport(v)
           /\ Head(playInbox).type # "report" /\ Silent' => Silent
           /\ Head(playInbox).type = "report" /\ Silent' => LastReport(Head(playInbox).value)
  <1>1. /\ Len(playInbox) \in Nat /\ Len(playInbox) > 0
        /\ Len(playInbox') = Len(playInbox) - 1 /\ playInbox' \in Seq(Events)
        /\ \A i \in 1 .. Len(playInbox') : playInbox'[i] = playInbox[i + 1]
        /\ Head(playInbox) = playInbox[1] /\ Head(playInbox) \in Events
    BY DEF PlaybackTyped
  <1>2. \A j \in 1 .. Len(playInbox) :
          j > 1 => j - 1 \in 1 .. Len(playInbox') /\ playInbox[j] = playInbox'[j - 1]
    BY <1>1
  <1>3. ASSUME NEW v, LastReport(v)'
        PROVE  LastReport(v)
    <2>1. CASE toPlatform # <<>>
      BY <1>3, <2>1 DEF LastReport
    <2>2. CASE toPlatform = <<>>
      <3>1. PICK i \in 1 .. Len(playInbox') :
              /\ playInbox'[i].type = "report" /\ v = playInbox'[i].value
              /\ \A j \in 1 .. Len(playInbox') : j > i => playInbox'[j].type # "report"
        BY <1>3, <2>2 DEF LastReport
      <3>2. i + 1 \in 1 .. Len(playInbox) /\ playInbox'[i] = playInbox[i + 1]
        BY <1>1
      <3>3. \A j \in 1 .. Len(playInbox) : j > i + 1 => playInbox[j].type # "report"
        <4> SUFFICES ASSUME NEW j \in 1 .. Len(playInbox), j > i + 1
                     PROVE  playInbox[j].type # "report"
          OBVIOUS
        <4>1. j - 1 \in 1 .. Len(playInbox') /\ playInbox[j] = playInbox'[j - 1] /\ j - 1 > i
          BY <1>1, <1>2
        <4> QED  BY <3>1, <4>1
      <3> QED  BY <2>2, <3>1, <3>2, <3>3 DEF LastReport
    <2> QED  BY <2>1, <2>2
  <1>4. Silent' => \A j \in 1 .. Len(playInbox) : j > 1 => playInbox[j].type # "report"
    BY <1>2 DEF Silent
  <1>5. Head(playInbox).type # "report" /\ Silent' => Silent
    BY <1>1, <1>4 DEF Silent
  <1>6. Head(playInbox).type = "report" /\ Silent' => LastReport(Head(playInbox).value)
    BY <1>1, <1>4 DEF Silent, LastReport
  <1> QED  BY <1>1, <1>3, <1>5, <1>6

-----------------------------------------------------------------------------
(* What is heard, when nothing is in doubt. *)

Sounding == here # 0 /\ Leg.open /\ Loaded(Leg) /\ Leg.content.playing

LEMMA LiveIs ==
    StreamsOk /\ playDoubt = {} => (LiveStreams # {}) = Sounding
  <1> SUFFICES ASSUME StreamsOk, playDoubt = {}
               PROVE  (LiveStreams # {}) = Sounding
    OBVIOUS
  <1> USE DEF StreamsOk
  <1>1. ASSUME NEW l \in LiveStreams
        PROVE  Sounding
    <2>1. l \in Streams /\ Alive(l) /\ l.leg \in 1 .. Len(legs)
      BY DEF LiveStreams, Streams, StreamsTyped
    <2>2. l.leg = here
      BY <2>1 DEF LegsSound, Alive
    <2> QED  BY <2>1, <2>2 DEF LegsSound, Alive, Sounding, Leg
  <1>2. ASSUME Sounding
        PROVE  LiveStreams # {}
    <2>1. here \in 1 .. Len(legs)
      BY <1>2 DEF Sounding, StreamsTyped
    <2>2. PICK l \in Streams : l.leg = here /\ l.play = Leg.play
      BY <1>2, <2>1 DEF Sounding, LegsSound, Leg
    <2>3. Alive(l)
      BY <1>2, <2>1, <2>2 DEF Sounding, LegsSound, Leg, Alive
    <2> QED  BY <2>2, <2>3 DEF LiveStreams, Streams
  <1>3. (LiveStreams # {}) \in BOOLEAN /\ Sounding \in BOOLEAN
    <2>1. CASE here = 0
      BY <2>1 DEF Sounding
    <2>2. CASE here # 0
      <3>1. here \in 1 .. Len(legs) /\ legs[here] \in AudioLegs
        BY <2>2 DEF StreamsTyped
      <3>2. CASE ~ Loaded(Leg)
        BY <3>2 DEF Sounding
      <3>3. CASE Loaded(Leg)
        <4>1. Leg.content \in LegContents
          BY <3>1, <3>3 DEF Loaded, Leg, AudioLegs
        <4> QED  BY <3>1, <4>1, ContentType DEF Sounding, Leg, AudioLegs
      <3> QED  BY <3>2, <3>3
    <2> QED  BY <2>1, <2>2
  <1> QED  BY <1>1, <1>2, <1>3

LEMMA LiveWillBe ==
    StreamsOk' /\ playDoubt' = {} => (LiveStreams' # {}) = Sounding'
  <1> DEFINE Loud == StreamsOk /\ playDoubt = {} => (LiveStreams # {}) = Sounding
  <1>1. Loud
    BY LiveIs
  <1> HIDE DEF Loud
  <1>2. Loud'
    BY <1>1, PTL
  <1> QED  BY <1>2 DEF Loud

LEMMA InvJoins ==
    /\ PlaybackInv => PlatformTyped /\ StreamsOk /\ PlaybackTyped /\ StreamsKeyed /\ LegsSound
    /\ PlatformTyped' /\ StreamsOk' /\ (playDoubt' = {} => Truthful') => PlaybackInv'
  BY TypesJoin DEF PlaybackInv, StreamsOk

(* While a recording is being loaded, nothing is. *)
LEMMA LoadedAlone ==
    ASSUME PlaybackInv, playDoubt = {}, here # 0, Loaded(Leg)
    PROVE  loads = {}
  BY DEF PlaybackInv, LegsSound, Truthful, LoadsHere, Loaded, Leg

LEMMA Reported ==
    ASSUME PlaybackTyped, here' = here, legs' \in Seq(AudioLegs), Len(legs') = Len(legs),
           NEW status \in {"Playing", "Paused", "Stopped"}, NEW why, Report(status, why),
           toService' \in Seq(Orders)
    PROVE  /\ PlatformTyped' /\ UNCHANGED <<platformVars, link, control>>
           /\ playDoubt \subseteq playDoubt' /\ why \subseteq playDoubt'
           /\ playDoubt' = {} =>
                \A v : Word(v)' =>
                    /\ v.status = status
                    /\ here # 0 /\ legs'[here].content # None =>
                          v.speed = legs'[here].content.speed
  <1>1. PICK s : s = IF here = 0 \/ legs'[here].content = None THEN Normal
                     ELSE legs'[here].content.speed
    OBVIOUS
  <1>2. s \in Slowest .. Fastest
    <2>1. CASE here = 0 \/ legs'[here].content = None
      BY <1>1, <2>1, PlaybackAssumption
    <2>2. CASE here # 0 /\ legs'[here].content # None
      <3>1. here \in 1 .. Len(legs')
        BY <2>2 DEF PlaybackTyped
      <3>2. legs'[here] \in AudioLegs
        BY <3>1
      <3>3. legs'[here].content \in LegContents
        BY <2>2, <3>2 DEF AudioLegs
      <3> QED  BY <1>1, <2>2, <3>3, ContentType
    <2> QED  BY <2>1, <2>2
  <1>3. PICK rep : rep = [status |-> status, speed |-> s]
    OBVIOUS
  <1>4. rep \in Reports /\ rep.status = status /\ rep.speed = s
    BY <1>2, <1>3 DEF Reports
  <1>5. /\ toPlatform' = IF link # "up" THEN toPlatform ELSE Append(toPlatform, rep)
        /\ playDoubt' = playDoubt \cup (why \cup When(link # "up", "unheard"))
        /\ UNCHANGED <<platformVars, link, control>>
    BY <1>1, <1>3 DEF Report, PlayDoubt
  <1>6. toPlatform' \in Seq(Reports)
    BY <1>4, <1>5 DEF PlaybackTyped
  <1>7. PlatformTyped'
    BY <1>5, <1>6 DEF PlatformTyped, PlaybackTyped, platformVars
  <1>8. playDoubt' = {} => toPlatform' = Append(toPlatform, rep)
    BY <1>5 DEF When
  <1> QED  BY <1>1, <1>4, <1>5, <1>7, <1>8, WordsReported

(* The urls, when the service has obeyed something else than a play. *)
LEMMA UrlsKept ==
    ASSUME PlaybackTyped, shown' = shown,
           \/ toService' = toService
           \/ /\ toService # <<>> /\ toService' = Tail(toService)
              /\ Head(toService).type # "play"
    PROVE  /\ toService' \in Seq(Orders)
           /\ Ordered({"play"})' = Ordered({"play"})
           /\ UrlTrue => LastPlay'
  <1>1. CASE toService' = toService
    BY <1>1 DEF Ordered, UrlTrue, LastPlay, PlaybackTyped
  <1>2. CASE /\ toService # <<>> /\ toService' = Tail(toService)
             /\ Head(toService).type # "play"
    <2>1. Ordered({"play"}) = (Head(toService).type \in {"play"} \/ Ordered({"play"})')
          /\ toService' \in Seq(Orders)
      BY <1>2, HeadOrder
    <2>2. UrlTrue => LastPlay
      BY DEF UrlTrue, LastPlay
    <2>3. Ordered({"play"})' \in BOOLEAN
      BY DEF Ordered
    <2> QED  BY <1>2, <2>1, <2>2, <2>3, LastPlayTail
  <1> QED  BY <1>1, <1>2

(* The service has done something and reports. *)
LEMMA ServiceReports ==
    ASSUME PlaybackInv, StreamsOk', here' = here, legs' \in Seq(AudioLegs),
           Len(legs') = Len(legs),
           NEW status \in {"Playing", "Paused", "Stopped"}, NEW why, Report(status, why),
           \/ toService' = toService
           \/ /\ toService # <<>> /\ toService' = Tail(toService)
              /\ Head(toService).type # "play",
           playDoubt' = {} /\ Truthful =>
             /\ LoadsHere'
             /\ loads' = {} => (status = "Playing") = Sounding'
             /\ ~ Ordered({"play"}) =>
                  /\ \A l \in loads' : l.url = shown.url
                  /\ loads' = {} /\ here # 0 /\ Loaded(legs'[here]) =>
                        legs'[here].content.data = shown.url
    PROVE  PlaybackInv'
  <1>1. PlaybackTyped /\ shown' = shown
    BY InvJoins DEF Report, platformVars
  <1>2. toService' \in Seq(Orders) /\ Ordered({"play"})' = Ordered({"play"})
        /\ (UrlTrue => LastPlay')
    BY <1>1, UrlsKept
  <1>3. PlatformTyped' /\ playDoubt \subseteq playDoubt'
    BY <1>1, <1>2, Reported
  <1>4. ASSUME playDoubt' = {}
        PROVE  Truthful'
    <2>1. Truthful /\ UrlTrue
      BY <1>3, <1>4 DEF PlaybackInv, Truthful
    <2>2. UrlTrue'
      BY <1>1, <1>2, <1>4, <2>1 DEF UrlTrue, LastPlay, Leg
    <2>3. ASSUME NEW v, Word(v)'
          PROVE  StatusTrue(v)' /\ SpeedTrue(v)'
      <3>1. /\ v.status = status
            /\ here # 0 /\ legs'[here].content # None => v.speed = legs'[here].content.speed
        BY <1>1, <1>2, <1>4, <2>3, Reported
      <3>2. loads' = {} => (status = "Playing") = (LiveStreams' # {})
        BY <1>4, <2>1, LiveWillBe
      <3> QED  BY <3>1, <3>2 DEF StatusTrue, SpeedTrue, Leg
    <2> QED  BY <1>4, <2>1, <2>2, <2>3 DEF Truthful
  <1> QED  BY <1>3, <1>4, InvJoins

-----------------------------------------------------------------------------
(* The service obeys a command. *)

(* Nothing that it plays, loads or reports changes. *)
LEMMA ServiceRests ==
    ASSUME PlaybackInv, UNCHANGED <<platformVars, link, control, toPlatform>>,
           StreamsOk', here' = here, loads' = loads,
           playDoubt \subseteq playDoubt', toService' \in Seq(Orders),
           playDoubt' = {} /\ Truthful =>
             /\ LoadsHere' /\ UrlTrue'
             /\ Sounding' = Sounding
             /\ here # 0 => /\ (legs'[here].content = None) = (Leg.content = None)
                            /\ Leg.content # None =>
                                  legs'[here].content.speed = Leg.content.speed
             /\ \A T : T \in {{"play", "resume"}, {"play", "speed"}} =>
                    Ordered(T)' = Ordered(T)
    PROVE  PlaybackInv'
  <1>1. PlatformTyped /\ StreamsOk
    BY InvJoins
  <1>2. PlatformTyped'
    BY <1>1 DEF PlatformTyped, platformVars
  <1>3. ASSUME playDoubt' = {}
        PROVE  Truthful'
    <2>1. Truthful /\ playDoubt = {}
      BY <1>3 DEF PlaybackInv
    <2>2. (LiveStreams # {}) = Sounding /\ (LiveStreams' # {}) = Sounding'
      BY <1>1, <1>3, <2>1, LiveIs, LiveWillBe
    <2>3. ASSUME NEW v, Word(v)'
          PROVE  StatusTrue(v)' /\ SpeedTrue(v)'
      <3>1. Word(v)
        BY <2>3, WordsKept DEF platformVars
      <3>2. StatusTrue(v) /\ SpeedTrue(v)
        BY <2>1, <3>1 DEF Truthful
      <3>3. StatusTrue(v)'
        BY <1>3, <2>1, <2>2, <3>2 DEF StatusTrue
      <3>4. SpeedTrue(v)'
        BY <1>3, <2>1, <3>2 DEF SpeedTrue, Leg
      <3> QED  BY <3>3, <3>4
    <2> QED  BY <1>3, <2>1, <2>3 DEF Truthful
  <1> QED  BY <1>2, <1>3, InvJoins

(* The order that is off is of none of these types. *)
LEMMA OrderOff ==
    ASSUME PlaybackTyped, toService # <<>>, toService' = Tail(toService)
    PROVE  /\ Head(toService) \in Orders /\ toService' \in Seq(Orders)
           /\ \A T : Head(toService).type \notin T => Ordered(T)' = Ordered(T)
  <1>1. \A T : Ordered(T) = (Head(toService).type \in T \/ Ordered(T)')
    BY HeadOrder
  <1>2. \A T : Ordered(T)' \in BOOLEAN
    BY DEF Ordered
  <1> QED  BY <1>1, <1>2, HeadOrder

LEMMA RefuseStep ==
    ASSUME PlaybackInv, toService # <<>>, toService' = Tail(toService), Refuse(Head(toService))
    PROVE  PlaybackInv'
  <1>1. PlaybackTyped /\ StreamsKeyed /\ LegsSound
    BY InvJoins
  <1>2. /\ UNCHANGED <<platformVars, link, control, toPlatform, serviceVars>>
        /\ playDoubt \subseteq playDoubt'
        /\ playDoubt' = {} =>
             ~ Promises(Head(toService)) /\ Head(toService).type # "speed"
    BY DEF Refuse, PlayDoubt, When
  <1>3. StreamsOk' /\ here' = here /\ loads' = loads /\ legs' = legs
    BY <1>1, <1>2, ServiceIdle DEF serviceVars
  <1>4. toService' \in Seq(Orders)
        /\ \A T : Head(toService).type \notin T => Ordered(T)' = Ordered(T)
    BY <1>1, OrderOff
  <1>5. ASSUME playDoubt' = {}, Truthful
        PROVE  /\ LoadsHere' /\ UrlTrue' /\ Sounding' = Sounding
               /\ \A T : T \in {{"play", "resume"}, {"play", "speed"}} =>
                      Ordered(T)' = Ordered(T)
    <2>1. Head(toService).type \notin {"play", "resume", "speed"}
      BY <1>2, <1>5 DEF Promises
    <2>2. shown' = shown
      BY <1>2 DEF platformVars
    <2>3. Ordered({"play"})' = Ordered({"play"}) /\ (UrlTrue => LastPlay')
      BY <1>1, <2>1, <2>2, UrlsKept
    <2>4. UrlTrue'
      BY <1>3, <1>5, <2>2, <2>3 DEF Truthful, UrlTrue, LastPlay, Leg
    <2>5. LoadsHere' /\ Sounding' = Sounding
      BY <1>3, <1>5 DEF Truthful, LoadsHere, Sounding, Leg
    <2>6. \A T : T \in {{"play", "resume"}, {"play", "speed"}} => Ordered(T)' = Ordered(T)
      BY <1>4, <2>1
    <2> QED  BY <2>4, <2>5, <2>6
  <1> QED  BY <1>2, <1>3, <1>4, <1>5, ServiceRests DEF Leg

(* A play is loaded before it is heard. *)
LEMMA PlayStep ==
    ASSUME PlaybackInv, toService # <<>>, toService' = Tail(toService),
           Head(toService).type = "play", here # 0, Leg.open, Play(Head(toService))
    PROVE  PlaybackInv'
  <1>1. PlaybackTyped /\ StreamsKeyed /\ LegsSound
    BY InvJoins
  <1>2. PICK c : c = Head(toService)
    OBVIOUS
  <1>3. c \in Orders /\ c.type = "play" /\ c.value \in Urls
    BY <1>1, <1>2, HeadOrder DEF Orders
  <1>4. PICK l : l = [leg |-> here, url |-> c.value, play |-> Leg.play + 1]
    OBVIOUS
  <1>5. /\ legs' = [legs EXCEPT ![here].play = @ + 1, ![here].content =
                      [url |-> c.value, data |-> None, playing |-> TRUE, speed |-> Normal]]
        /\ loads' = loads \cup {l}
        /\ PlayDoubt(When(\E m \in loads : m.leg = here, "overlap"))
        /\ UNCHANGED <<platformVars, link, control, toPlatform, here, loops>>
    BY <1>2, <1>4 DEF Play
  <1>6. /\ LegBecomes(here, legs'[here])
        /\ legs'[here].open = Leg.open
        /\ legs'[here].content \in LegContents /\ legs'[here].content.data = None
        /\ legs'[here].content.playing = TRUE /\ legs'[here].play = Leg.play + 1
    BY <1>1, <1>3, <1>5, PlayEffect
  <1>7. playDoubt \subseteq playDoubt'
        /\ ((\E m \in loads : m.leg = here) => "overlap" \in playDoubt')
    BY <1>5 DEF PlayDoubt, When
  <1>8. StreamsOk'
    BY <1>1, <1>3, <1>4, <1>5, <1>6, <1>7, PlaySound
  <1>9. PlatformTyped'
    BY <1>1, <1>5, HeadOrder DEF PlatformTyped, PlaybackTyped, platformVars
  <1>10. ASSUME playDoubt' = {}
         PROVE  Truthful'
    <2>1. Truthful /\ playDoubt = {} /\ loads = {}
      BY <1>7, <1>10 DEF PlaybackInv, Truthful, LoadsHere
    <2>2. l.leg = here /\ l.url = c.value /\ loads' = {l}
      BY <1>4, <1>5, <2>1
    <2>3. LoadsHere'
      BY <1>5, <1>6, <2>2 DEF LoadsHere
    <2>4. UrlTrue'
      <3>1. shown' = shown /\ UrlTrue
        BY <1>5, <2>1 DEF platformVars, Truthful
      <3>2. LastPlay'
        BY <1>1, <3>1, LastPlayTail DEF UrlTrue, LastPlay
      <3>3. ~ Ordered({"play"})' => c.value = shown.url
        BY <1>1, <1>2, <1>3, <3>1, HeadOrder
      <3> QED  BY <2>2, <3>1, <3>2, <3>3 DEF UrlTrue, LastPlay
    <2> QED  BY <2>2, <2>3, <2>4 DEF Truthful, StatusTrue, SpeedTrue
  <1> QED  BY <1>8, <1>9, <1>10, InvJoins

(* Resume, seek, and another speed while a recording is heard. *)
LEMMA RestartStep ==
    ASSUME PlaybackInv, toService # <<>>, toService' = Tail(toService),
           Head(toService).type \in {"resume", "seek", "speed"}, here # 0, Loaded(Leg),
           NEW ear \in AudioLegs, ear.content \in LegContents,
           ear.open = Leg.open, ear.play = Leg.play, ear.content.data = Leg.content.data,
           RestartStream(ear), UNCHANGED <<here, loads>>
    PROVE  PlaybackInv'
  <1>1. PlaybackTyped /\ StreamsKeyed /\ LegsSound
    BY InvJoins
  <1>2. /\ LegBecomes(here, legs'[here])
        /\ legs'[here].open = Leg.open /\ legs'[here].channel = TRUE
        /\ legs'[here].content \in LegContents
        /\ legs'[here].content.data = Leg.content.data
        /\ legs'[here].content.playing = TRUE
        /\ legs'[here].play = Leg.play + 1
    BY <1>1, RestartEffect DEF RestartStream
  <1>3. PICK why : why = When(~ ear.open, "leg_gone")
    OBVIOUS
  <1>4. Report("Playing", why)
    BY <1>3 DEF RestartStream
  <1>5. toService' \in Seq(Orders)
    BY <1>1, HeadOrder
  <1>6. legs' \in Seq(AudioLegs) /\ Len(legs') = Len(legs)
    BY <1>2 DEF LegBecomes
  <1>7. playDoubt \subseteq playDoubt' /\ why \subseteq playDoubt' /\ shown' = shown
    BY <1>1, <1>4, <1>5, <1>6, Reported DEF platformVars
  <1>8. PICK l : l = [leg |-> here, url |-> Leg.content.data, play |-> Leg.play + 1]
    OBVIOUS
  <1>9. loops' = loops (+) SetToBag({l})
    BY <1>8 DEF RestartStream
  <1>10. StreamsOk'
    BY <1>1, <1>2, <1>7, <1>8, <1>9, RestartSound
  <1>11. ASSUME playDoubt' = {}, Truthful
         PROVE  /\ LoadsHere'
                /\ loads' = {} => ("Playing" = "Playing") = Sounding'
                /\ ~ Ordered({"play"}) =>
                     /\ \A m \in loads' : m.url = shown.url
                     /\ loads' = {} /\ here # 0 /\ Loaded(legs'[here]) =>
                           legs'[here].content.data = shown.url
    <2>1. loads = {} /\ Leg.open = TRUE
      BY <1>1, <1>3, <1>7, <1>11, LoadedAlone, LegType DEF When, Leg, PlaybackTyped
    <2>2. Loaded(legs'[here])
      BY <1>2, ContentType DEF Loaded
    <2>3. Sounding' = TRUE
      BY <1>2, <2>1, <2>2 DEF Sounding, Leg
    <2> QED  BY <1>2, <1>11, <2>1, <2>3 DEF LoadsHere, Truthful, UrlTrue
  <1>12. Head(toService).type # "play"
    OBVIOUS
  <1> QED  BY <1>4, <1>6, <1>10, <1>11, <1>12, ServiceReports

(* A pause, or a system message, of a leg that is heard. *)
LEMMA QuietStep ==
    ASSUME PlaybackInv, toService # <<>>, toService' = Tail(toService),
           NEW c, c = Head(toService), c.type \in {"pause", "system"}, here # 0,
           StopStream(c), Leg.channel, Leg.content.playing
    PROVE  PlaybackInv'
  <1>1. PlaybackTyped /\ StreamsKeyed /\ LegsSound
    BY InvJoins
  <1>2. here \in 1 .. Len(legs) /\ Leg \in AudioLegs /\ Leg.channel \in BOOLEAN
        /\ Leg.content \in LegContents
    BY <1>1, LegType DEF PlaybackTyped, Leg, LegsSound
  <1>3. PICK b : b = IF c.type = "system" THEN FALSE ELSE Leg.channel
    OBVIOUS
  <1>4. PICK n : n = [legs[here] EXCEPT !.channel = b, !.content.playing = FALSE]
    OBVIOUS
  <1>5. /\ UNCHANGED <<here, loads, loops>>
        /\ legs' = [[legs EXCEPT ![here].channel = IF c.type = "system" THEN FALSE ELSE @]
                      EXCEPT ![here].content.playing = FALSE]
        /\ Report("Paused", When(loads # {}, "paused"))
    BY DEF StopStream
  <1>6. legs' = [legs EXCEPT ![here] = n]
    <2>1. PICK q : q = [legs[here] EXCEPT !.channel = b]
      OBVIOUS
    <2>2. PICK k : k = [legs EXCEPT ![here].channel = IF c.type = "system" THEN FALSE ELSE @]
      OBVIOUS
    <2>3. k = [legs EXCEPT ![here] = q] /\ k[here] = q /\ DOMAIN k = DOMAIN legs
          /\ \A i \in DOMAIN legs \ {here} : k[i] = legs[i]
      <3>1. k = [legs EXCEPT ![here] = q]
        <4>1. k = [legs EXCEPT ![here] =
                     [legs[here] EXCEPT !.channel = IF c.type = "system" THEN FALSE
                                                    ELSE legs[here].channel]]
          BY <1>2, <2>2
        <4> QED  BY <1>3, <2>1, <4>1 DEF Leg
      <3>2. here \in DOMAIN legs /\ legs = [i \in DOMAIN legs |-> legs[i]]
        BY <1>1, <1>2 DEF PlaybackTyped
      <3> QED  BY <3>1, <3>2
    <2>4. legs' = [k EXCEPT ![here].content.playing = FALSE]
      BY <1>5, <2>2
    <2>5. PICK d : d = [q EXCEPT !.content.playing = FALSE]
      OBVIOUS
    <2>6. legs' = [k EXCEPT ![here] = d]
      BY <2>3, <2>4, <2>5
    <2>7. d = n
      <3>1. q.content = legs[here].content
        BY <1>2, <2>1 DEF Leg, AudioLegs
      <3> QED  BY <1>4, <2>1, <2>5, <3>1
    <2> QED  BY <2>3, <2>6, <2>7
  <1>7. /\ LegBecomes(here, legs'[here]) /\ legs'[here].open = Leg.open
        /\ legs'[here].channel = b /\ legs'[here].content \in LegContents
        /\ legs'[here].content.data = Leg.content.data
        /\ legs'[here].content.playing = FALSE
        /\ legs'[here].content.speed = Leg.content.speed
        /\ legs'[here].play = Leg.play
    <2>1. b \in BOOLEAN /\ legs[here].content # None
      BY <1>2, <1>3, ContentType DEF Leg
    <2> QED  BY <1>1, <1>2, <1>4, <1>6, <2>1, QuietEffect DEF Leg
  <1>8. toService' \in Seq(Orders) /\ legs' \in Seq(AudioLegs) /\ Len(legs') = Len(legs)
    BY <1>1, <1>7, HeadOrder DEF LegBecomes
  <1>9. PICK why : why = When(loads # {}, "paused")
    OBVIOUS
  <1>10. Report("Paused", why) /\ playDoubt \subseteq playDoubt' /\ why \subseteq playDoubt'
    BY <1>1, <1>5, <1>8, <1>9, Reported
  <1>11. Fades(legs[here], legs'[here])
    <2>1. legs'[here].channel => Leg.channel
      BY <1>3, <1>7
    <2>2. Leg.content # None /\ legs'[here].content # None
      BY <1>2, <1>7, ContentType
    <2> QED  BY <1>7, <2>1, <2>2 DEF Fades, Playing, Leg
  <1>12. StreamsOk'
    <2>1. loops' = SetToBag(Streams)
      BY <1>1, <1>5 DEF PlaybackTyped
    <2> QED  BY <1>1, <1>5, <1>7, <1>10, <1>11, <2>1, LegFades
  <1>13. ASSUME playDoubt' = {}, Truthful
         PROVE  /\ LoadsHere'
                /\ loads' = {} => ("Paused" = "Playing") = Sounding'
                /\ ~ Ordered({"play"}) =>
                     /\ \A m \in loads' : m.url = shown.url
                     /\ loads' = {} /\ here # 0 /\ Loaded(legs'[here]) =>
                           legs'[here].content.data = shown.url
    <2>1. loads = {}
      BY <1>9, <1>10, <1>13 DEF When
    <2>2. Sounding' = FALSE
      BY <1>5, <1>7 DEF Sounding, Leg
    <2>3. Loaded(legs'[here]) => Loaded(Leg)
      BY <1>2, <1>7, ContentType DEF Loaded
    <2> QED  BY <1>5, <1>7, <1>13, <2>1, <2>2, <2>3 DEF LoadsHere, Truthful, UrlTrue
  <1>14. Head(toService).type # "play"
    OBVIOUS
  <1> QED  BY <1>5, <1>8, <1>10, <1>12, <1>13, <1>14, ServiceReports

(* ... and of one that is not. *)
LEMMA AlreadyQuietStep ==
    ASSUME PlaybackInv, toService # <<>>, toService' = Tail(toService),
           NEW c, c = Head(toService), c.type \in {"pause", "system"}, here # 0,
           StopStream(c), ~ (Leg.channel /\ Leg.content.playing)
    PROVE  PlaybackInv'
  <1>1. PlaybackTyped /\ StreamsKeyed /\ LegsSound
    BY InvJoins
  <1>2. here \in 1 .. Len(legs) /\ Leg \in AudioLegs /\ Leg.channel \in BOOLEAN
    BY <1>1, LegType DEF PlaybackTyped, Leg
  <1>3. PICK b : b = IF c.type = "system" THEN FALSE ELSE Leg.channel
    OBVIOUS
  <1>4. PICK n : n = [Leg EXCEPT !.channel = b]
    OBVIOUS
  <1>5. /\ UNCHANGED <<here, loads, loops>>
        /\ legs' = [legs EXCEPT ![here].channel = IF c.type = "system" THEN FALSE ELSE @]
        /\ UNCHANGED <<platformVars, link, control, toPlatform, playDoubt>>
    BY DEF StopStream
  <1>6. legs' = [legs EXCEPT ![here] = n]
    BY <1>2, <1>3, <1>4, <1>5 DEF Leg
  <1>7. /\ n \in AudioLegs /\ n.open = Leg.open /\ n.channel = b
        /\ n.content = Leg.content /\ n.play = Leg.play
    <2>1. b \in BOOLEAN
      BY <1>2, <1>3
    <2> QED  BY <1>2, <1>4, <2>1, LegEdits
  <1>8. LegBecomes(here, legs'[here]) /\ legs'[here] = n
    BY <1>1, <1>2, <1>6, <1>7, LegWrites DEF LegBecomes
  <1>9. ~ (Loaded(Leg) /\ Leg.content.playing)
    BY <1>1, <1>2 DEF LegsSound, Leg
  <1>10. Fades(legs[here], legs'[here])
    <2>1. n.channel => Leg.channel
      BY <1>3, <1>7
    <2>2. ~ Playing(n)
      BY <1>7, <1>9 DEF Playing, Loaded
    <2> QED  BY <1>7, <1>8, <2>1, <2>2 DEF Fades, Leg
  <1>11. StreamsOk'
    <2>1. loops' = SetToBag(Streams)
      BY <1>1, <1>5 DEF PlaybackTyped
    <2> QED  BY <1>1, <1>5, <1>8, <1>10, <2>1, LegFades
  <1>12. toService' \in Seq(Orders)
         /\ \A T : Head(toService).type \notin T => Ordered(T)' = Ordered(T)
    BY <1>1, OrderOff
  <1>13. ASSUME playDoubt' = {}, Truthful
         PROVE  /\ LoadsHere' /\ UrlTrue' /\ Sounding' = Sounding
                /\ \A T : T \in {{"play", "resume"}, {"play", "speed"}} =>
                       Ordered(T)' = Ordered(T)
    <2>1. Head(toService).type \notin {"play", "resume", "speed"}
      OBVIOUS
    <2>2. shown' = shown
      BY <1>5 DEF platformVars
    <2>3. Ordered({"play"})' = Ordered({"play"}) /\ (UrlTrue => LastPlay')
      BY <1>1, <2>1, <2>2, UrlsKept
    <2>4. Loaded(Leg') = Loaded(Leg) /\ Leg'.content = Leg.content /\ Leg'.open = Leg.open
      BY <1>5, <1>7, <1>8 DEF Leg, Loaded
    <2>5. UrlTrue'
      BY <1>5, <1>13, <2>2, <2>3, <2>4 DEF Truthful, UrlTrue, LastPlay
    <2>6. LoadsHere' /\ Sounding' = Sounding
      BY <1>5, <1>13, <2>4 DEF Truthful, LoadsHere, Sounding, Leg
    <2>7. \A T : T \in {{"play", "resume"}, {"play", "speed"}} => Ordered(T)' = Ordered(T)
      BY <1>12, <2>1
    <2> QED  BY <2>5, <2>6, <2>7
  <1> QED  BY <1>5, <1>7, <1>8, <1>11, <1>12, <1>13, ServiceRests DEF Leg

(* Another speed of a leg that is not heard. *)
LEMMA SpeedStep ==
    ASSUME PlaybackInv, toService # <<>>, toService' = Tail(toService),
           Head(toService).type = "speed", here # 0, Loaded(Leg),
           NEW ear \in AudioLegs, ear.content \in LegContents,
           ear.open = Leg.open, ear.channel = Leg.channel, ear.play = Leg.play,
           ear.content.data = Leg.content.data, ear.content.playing = Leg.content.playing,
           ~ (ear.channel /\ ear.content.playing),
           UNCHANGED <<here, loads, loops>>, legs' = [legs EXCEPT ![here] = ear],
           Report(IF ear.content.playing THEN "Playing" ELSE "Paused", {})
    PROVE  PlaybackInv'
  <1>1. PlaybackTyped /\ StreamsKeyed /\ LegsSound
    BY InvJoins
  <1>2. here \in 1 .. Len(legs) /\ Leg.content \in LegContents
    <2>1. here \in 1 .. Len(legs)
      BY <1>1 DEF PlaybackTyped
    <2> QED  BY <1>1, <2>1, LegType DEF Leg, Loaded
  <1>3. ear.content.playing = FALSE
    BY <1>1, <1>2, ContentType DEF LegsSound, Leg
  <1>4. Report("Paused", {})
    BY <1>3
  <1>5. LegBecomes(here, legs'[here]) /\ legs'[here] = ear
    BY <1>1, <1>2, LegWrites DEF LegBecomes
  <1>6. toService' \in Seq(Orders) /\ legs' \in Seq(AudioLegs) /\ Len(legs') = Len(legs)
    BY <1>1, <1>5, HeadOrder DEF LegBecomes
  <1>7. playDoubt \subseteq playDoubt'
    BY <1>1, <1>4, <1>6, Reported
  <1>8. Fades(legs[here], legs'[here])
    BY <1>2, <1>3, <1>5, ContentType DEF Fades, Playing, Leg
  <1>9. StreamsOk'
    <2>1. loops' = SetToBag(Streams)
      BY <1>1 DEF PlaybackTyped
    <2> QED  BY <1>1, <1>5, <1>7, <1>8, <2>1, LegFades
  <1>10. ASSUME playDoubt' = {}, Truthful
         PROVE  /\ LoadsHere'
                /\ loads' = {} => ("Paused" = "Playing") = Sounding'
                /\ ~ Ordered({"play"}) =>
                     /\ \A m \in loads' : m.url = shown.url
                     /\ loads' = {} /\ here # 0 /\ Loaded(legs'[here]) =>
                           legs'[here].content.data = shown.url
    <2>1. loads = {}
      BY <1>7, <1>10, LoadedAlone
    <2>2. Sounding' = FALSE
      BY <1>3, <1>5 DEF Sounding, Leg
    <2> QED  BY <1>5, <1>10, <2>1, <2>2 DEF LoadsHere, Truthful, UrlTrue
  <1>11. Head(toService).type # "play"
    OBVIOUS
  <1> QED  BY <1>4, <1>6, <1>9, <1>10, <1>11, ServiceReports

LEMMA DisconnectStep ==
    ASSUME PlaybackInv, toService # <<>>, toService' = Tail(toService),
           Head(toService).type = "disconnect", here # 0, Disconnect
    PROVE  PlaybackInv'
  <1>1. PlaybackTyped /\ StreamsKeyed /\ LegsSound
    BY InvJoins
  <1>2. /\ LegBecomes(here, legs'[here]) /\ legs'[here].open = FALSE
        /\ legs'[here].channel = Leg.channel /\ legs'[here].content = Leg.content
        /\ legs'[here].play = Leg.play
    BY <1>1, DisconnectEffect DEF Disconnect
  <1>3. here \in 1 .. Len(legs)
    BY <1>1 DEF PlaybackTyped
  <1>4. PICK why : why = When(loads # {}, "leg_gone")
    OBVIOUS
  <1>5. toService' \in Seq(Orders) /\ legs' \in Seq(AudioLegs) /\ Len(legs') = Len(legs)
    BY <1>1, <1>2, HeadOrder DEF LegBecomes
  <1>6. Report("Stopped", why) /\ playDoubt \subseteq playDoubt' /\ why \subseteq playDoubt'
        /\ UNCHANGED <<here, loads, loops>>
    BY <1>1, <1>4, <1>5, Reported DEF Disconnect
  <1>7. Fades(legs[here], legs'[here])
    BY <1>1, <1>2, <1>3 DEF Fades, Playing, Leg, LegsSound, Loaded
  <1>8. StreamsOk'
    <2>1. loops' = SetToBag(Streams)
      BY <1>1, <1>6 DEF PlaybackTyped
    <2> QED  BY <1>1, <1>2, <1>6, <1>7, <2>1, LegFades
  <1>9. ASSUME playDoubt' = {}, Truthful
        PROVE  /\ LoadsHere'
               /\ loads' = {} => ("Stopped" = "Playing") = Sounding'
               /\ ~ Ordered({"play"}) =>
                    /\ \A m \in loads' : m.url = shown.url
                    /\ loads' = {} /\ here # 0 /\ Loaded(legs'[here]) =>
                          legs'[here].content.data = shown.url
    <2>1. loads = {}
      BY <1>4, <1>6, <1>9 DEF When
    <2>2. Sounding' = FALSE
      BY <1>2, <1>6 DEF Sounding, Leg
    <2> QED  BY <1>2, <1>6, <1>9, <2>1, <2>2 DEF LoadsHere, Truthful, UrlTrue, Loaded
  <1>10. Head(toService).type # "play"
    OBVIOUS
  <1> QED  BY <1>5, <1>6, <1>8, <1>9, <1>10, ServiceReports

LEMMA HandleStep ==
    ASSUME PlaybackInv, Handle
    PROVE  PlaybackInv'
  <1>1. PlaybackTyped /\ toService # <<>> /\ toService' = Tail(toService)
    BY InvJoins DEF Handle
  <1>2. PICK c : c = Head(toService)
    OBVIOUS
  <1>3. c \in Orders
    BY <1>1, <1>2, HeadOrder
  <1>4. /\ \/ c.type = "play" /\ c.value \in Urls
           \/ c.type = "speed" /\ c.value \in Slowest .. Fastest
           \/ c.type \in {"pause", "resume", "seek", "system", "disconnect"}
    BY <1>3 DEF Orders
  <1>5. ASSUME here # 0, Loaded(Leg)
        PROVE  Leg \in AudioLegs /\ Leg.content \in LegContents
    BY <1>1, <1>5, LegType DEF PlaybackTyped, Leg, Loaded
  <1>6. CASE Refuse(c)
    BY <1>1, <1>2, <1>6, RefuseStep
  <1>7. CASE c.type = "play" /\ ~ Refuse(c)
    <2>1. here # 0 /\ Leg.open /\ Play(c)
      BY <1>2, <1>7 DEF Handle
    <2> QED  BY <1>1, <1>2, <1>7, <2>1, PlayStep
  <1>8. CASE c.type \in {"pause", "system"} /\ ~ Refuse(c)
    <2>1. here # 0 /\ StopStream(c)
      BY <1>2, <1>8 DEF Handle
    <2>2. CASE Leg.channel /\ Leg.content.playing
      BY <1>1, <1>2, <1>8, <2>1, <2>2, QuietStep
    <2>3. CASE ~ (Leg.channel /\ Leg.content.playing)
      BY <1>1, <1>2, <1>8, <2>1, <2>3, AlreadyQuietStep
    <2> QED  BY <2>2, <2>3
  <1>9. CASE c.type \in {"resume", "seek"} /\ ~ Refuse(c)
    <2>1. here # 0 /\ Loaded(Leg) /\ RestartStream(Leg) /\ UNCHANGED <<here, loads>>
      BY <1>2, <1>9 DEF Handle
    <2> QED  BY <1>1, <1>2, <1>5, <1>9, <2>1, RestartStep
  <1>10. CASE c.type = "speed" /\ ~ Refuse(c)
    <2>1. here # 0 /\ Loaded(Leg) /\ SetSpeed(c)
      BY <1>2, <1>10 DEF Handle
    <2>2. PICK ear : ear = [Leg EXCEPT !.content.speed = c.value]
      OBVIOUS
    <2>3. /\ ear \in AudioLegs /\ ear.content \in LegContents
          /\ ear.open = Leg.open /\ ear.channel = Leg.channel /\ ear.play = Leg.play
          /\ ear.content.data = Leg.content.data
          /\ ear.content.playing = Leg.content.playing
      <3>1. Leg.content \in LegContents /\ c.value \in Slowest .. Fastest
        BY <1>4, <1>5, <1>10, <2>1
      <3>2. Leg \in AudioLegs
        BY <1>1, <2>1, LegType DEF PlaybackTyped, Leg
      <3>3. PICK d : d = [Leg.content EXCEPT !.speed = c.value]
        OBVIOUS
      <3>4. d \in LegContents /\ d.data = Leg.content.data /\ d.playing = Leg.content.playing
        BY <3>1, <3>3, ContentEdits
      <3>5. PICK m : m = [Leg EXCEPT !.content = d]
        OBVIOUS
      <3>6. /\ m \in AudioLegs /\ m.open = Leg.open /\ m.channel = Leg.channel
            /\ m.content = d /\ m.play = Leg.play
        BY <3>2, <3>4, <3>5, LegEdits
      <3>7. ear = m
        BY <2>2, <3>3, <3>5
      <3> QED  BY <3>4, <3>6, <3>7
    <2>4. CASE ear.channel /\ ear.content.playing
      <3>1. RestartStream(ear) /\ UNCHANGED <<here, loads>>
        BY <2>1, <2>2, <2>4 DEF SetSpeed
      <3> QED  BY <1>1, <1>2, <1>10, <2>1, <2>3, <3>1, RestartStep
    <2>5. CASE ~ (ear.channel /\ ear.content.playing)
      <3>1. /\ UNCHANGED <<here, loads, loops>> /\ legs' = [legs EXCEPT ![here] = ear]
            /\ Report(IF ear.content.playing THEN "Playing" ELSE "Paused", {})
        BY <2>1, <2>2, <2>5 DEF SetSpeed
      <3> QED  BY <1>1, <1>2, <1>10, <2>1, <2>3, <2>5, <3>1, SpeedStep
    <2> QED  BY <2>4, <2>5
  <1>11. CASE c.type = "disconnect" /\ ~ Refuse(c)
    <2>1. here # 0 /\ Disconnect
      BY <1>2, <1>11 DEF Handle
    <2> QED  BY <1>1, <1>2, <1>11, <2>1, DisconnectStep
  <1> QED  BY <1>4, <1>6, <1>7, <1>8, <1>9, <1>10, <1>11

-----------------------------------------------------------------------------
(* Downloads and streams. *)

(* Nothing changes that is heard, shown or on its way. *)
LEMMA NothingHeard ==
    ASSUME PlaybackInv, PlatformTyped', StreamsOk',
           playDoubt \subseteq playDoubt',
           playDoubt' = {} =>
             UNCHANGED <<shown, playInbox, toPlatform, toService, loads>>,
           playDoubt' = {} /\ Truthful =>
             /\ LoadsHere' /\ Sounding' = Sounding
             /\ here' # 0 /\ Loaded(Leg') =>
                  here # 0 /\ Loaded(Leg) /\ Leg'.content.data = Leg.content.data
             /\ here' # 0 /\ Leg'.content # None =>
                  /\ here # 0 /\ Leg.content # None
                  /\ Leg'.content.speed = Leg.content.speed
    PROVE  PlaybackInv'
  <1>1. PlatformTyped /\ StreamsOk
    BY InvJoins
  <1>2. ASSUME playDoubt' = {}
        PROVE  Truthful'
    <2>1. /\ Truthful /\ playDoubt = {}
          /\ UNCHANGED <<shown, playInbox, toPlatform, toService, loads>>
      BY <1>2 DEF PlaybackInv
    <2>2. (LiveStreams # {}) = Sounding /\ (LiveStreams' # {}) = Sounding'
      BY <1>1, <1>2, <2>1, LiveIs, LiveWillBe
    <2>3. \A T : Ordered(T)' = Ordered(T)
      BY <2>1 DEF Ordered
    <2>4. ASSUME NEW v, Word(v)'
          PROVE  StatusTrue(v)' /\ SpeedTrue(v)'
      <3>1. Word(v)
        BY <2>1, <2>4, WordsKept
      <3>2. StatusTrue(v) /\ SpeedTrue(v)
        BY <2>1, <3>1 DEF Truthful
      <3>3. StatusTrue(v)'
        BY <1>2, <2>1, <2>2, <2>3, <3>2 DEF StatusTrue
      <3>4. SpeedTrue(v)'
        BY <1>2, <2>1, <2>3, <3>2 DEF SpeedTrue
      <3> QED  BY <3>3, <3>4
    <2>5. UrlTrue'
      BY <1>2, <2>1, <2>3 DEF Truthful, UrlTrue
    <2> QED  BY <1>2, <2>1, <2>4, <2>5 DEF Truthful
  <1> QED  BY <1>2, InvJoins

LEMMA DownloadedStep ==
    ASSUME PlaybackInv, NEW l \in loads, Downloaded(l)
    PROVE  PlaybackInv'
  <1>1. PlaybackTyped /\ StreamsKeyed /\ LegsSound
    BY InvJoins
  <1>2. l.leg \in 1 .. Len(legs) /\ l.url \in Urls /\ legs[l.leg].content # None
    BY <1>1 DEF PlaybackTyped, LegStreams, StreamsKeyed
  <1>3. /\ loads' = loads \ {l}
        /\ legs' = [legs EXCEPT ![l.leg].channel = TRUE, ![l.leg].content.data = l.url]
        /\ loops' = loops (+) SetToBag({l})
        /\ Report("Playing", When(l.leg # here \/ ~ legs[l.leg].open, "leg_gone"))
        /\ UNCHANGED <<here, toService>>
    BY DEF Downloaded
  <1>4. PICK why : why = When(l.leg # here \/ ~ legs[l.leg].open, "leg_gone")
    OBVIOUS
  <1>5. /\ LegBecomes(l.leg, legs'[l.leg]) /\ legs'[l.leg].open = legs[l.leg].open
        /\ legs'[l.leg].channel = TRUE /\ legs'[l.leg].content \in LegContents
        /\ legs'[l.leg].content.data = l.url
        /\ legs'[l.leg].content.playing = legs[l.leg].content.playing
        /\ legs'[l.leg].play = legs[l.leg].play
    BY <1>1, <1>2, <1>3, LoadedEffect
  <1>6. toService' \in Seq(Orders) /\ legs' \in Seq(AudioLegs) /\ Len(legs') = Len(legs)
    BY <1>1, <1>3, <1>5 DEF LegBecomes, PlaybackTyped
  <1>7. Report("Playing", why) /\ playDoubt \subseteq playDoubt' /\ why \subseteq playDoubt'
    BY <1>1, <1>3, <1>4, <1>6, Reported
  <1>8. StreamsOk'
    BY <1>1, <1>3, <1>5, <1>7, DownloadSound
  <1>9. ASSUME playDoubt' = {}, Truthful
        PROVE  /\ LoadsHere'
               /\ loads' = {} => ("Playing" = "Playing") = Sounding'
               /\ ~ Ordered({"play"}) =>
                    /\ \A m \in loads' : m.url = shown.url
                    /\ loads' = {} /\ here # 0 /\ Loaded(legs'[here]) =>
                          legs'[here].content.data = shown.url
    <2>1. l.leg = here /\ Leg.open = TRUE
      BY <1>1, <1>2, <1>4, <1>7, <1>9, LegType DEF When, Leg
    <2>2. \A m \in loads : SameKey(m, l)
      BY <1>1, <1>7, <1>9 DEF Truthful, LoadsHere, LegsSound, SameKey
    <2>3. loads' = {}
      BY <1>1, <1>3, <2>2 DEF StreamsKeyed
    <2>4. Leg.content.playing = TRUE
      <3>1. Leg.content.playing \in BOOLEAN
        BY <1>1, <1>2, <2>1, LegType, ContentType DEF Leg
      <3> QED  BY <1>9, <3>1 DEF Truthful, LoadsHere, Leg
    <2>5. Loaded(legs'[here])
      BY <1>2, <1>5, <2>1, ContentType, PlaybackAssumption DEF Loaded
    <2>6. Sounding' = TRUE
      <3>1. here # 0
        BY <1>2, <2>1
      <3> QED  BY <1>3, <1>5, <2>1, <2>4, <2>5, <3>1 DEF Sounding, Leg
    <2>7. ~ Ordered({"play"}) => l.url = shown.url
      BY <1>9 DEF Truthful, UrlTrue
    <2> QED  BY <1>5, <2>1, <2>3, <2>6, <2>7 DEF LoadsHere
  <1> QED  BY <1>3, <1>6, <1>7, <1>8, <1>9, ServiceReports

LEMMA DownloadFailsStep ==
    ASSUME PlaybackInv, NEW l \in loads, DownloadFails(l)
    PROVE  PlaybackInv'
  <1>1. PlaybackTyped /\ StreamsKeyed /\ LegsSound
    BY InvJoins
  <1>2. /\ loads' = loads \ {l} /\ playDoubt' = playDoubt \cup {"unloaded"}
        /\ UNCHANGED <<platformVars, lineVars, legs, here, loops>>
    BY DEF DownloadFails, PlayDoubt
  <1>3. PlatformTyped'
    BY <1>1, <1>2 DEF PlatformTyped, PlaybackTyped, platformVars, lineVars
  <1>4. \A i \in 1 .. Len(legs) : Fades(legs[i], legs'[i])
    BY <1>1, <1>2, SameFades
  <1>5. StreamsOk'
    <2>1. legs \in Seq(AudioLegs) /\ loops' = SetToBag(Streams)
      BY <1>1, <1>2 DEF PlaybackTyped
    <2> QED  BY <1>1, <1>2, <1>4, <2>1, FadeSound
  <1> QED  BY <1>2, <1>3, <1>5, InvJoins

LEMMA StreamReportsStep ==
    ASSUME PlaybackInv, NEW l \in Streams, StreamReports(l)
    PROVE  PlaybackInv'
  <1>1. PlaybackTyped /\ StreamsKeyed /\ LegsSound /\ StreamsOk
    BY InvJoins
  <1>2. Report("Playing", {}) /\ UNCHANGED <<toService, serviceVars>> /\ Alive(l)
    BY DEF StreamReports
  <1>3. /\ toService' \in Seq(Orders) /\ legs' \in Seq(AudioLegs) /\ Len(legs') = Len(legs)
        /\ here' = here /\ legs' = legs /\ loads' = loads
    BY <1>1, <1>2 DEF serviceVars, PlaybackTyped
  <1>4. playDoubt \subseteq playDoubt'
    BY <1>1, <1>2, <1>3, Reported
  <1>5. StreamsOk'
    BY <1>1, <1>2, <1>4, ServiceIdle
  <1>6. ASSUME playDoubt' = {}, Truthful
        PROVE  /\ LoadsHere'
               /\ loads' = {} => ("Playing" = "Playing") = Sounding'
               /\ ~ Ordered({"play"}) =>
                    /\ \A m \in loads' : m.url = shown.url
                    /\ loads' = {} /\ here # 0 /\ Loaded(legs'[here]) =>
                          legs'[here].content.data = shown.url
    <2>1. l \in LiveStreams
      BY <1>2 DEF LiveStreams, Streams
    <2>2. (LiveStreams # {}) = Sounding
      BY <1>1, <1>4, <1>6, LiveIs
    <2>3. Sounding' = Sounding
      BY <1>3 DEF Sounding, Leg
    <2> QED  BY <1>3, <1>6, <2>1, <2>2, <2>3 DEF LoadsHere, Truthful, UrlTrue, Leg
  <1> QED  BY <1>2, <1>3, <1>5, <1>6, ServiceReports

(* The stream that is heard is the one of the registered leg. *)
LEMMA AliveHere ==
    ASSUME PlaybackInv, NEW l \in Streams, Alive(l)
    PROVE  /\ l.leg \in 1 .. Len(legs) /\ legs[l.leg].content \in LegContents
           /\ playDoubt = {} => l.leg = here /\ here # 0 /\ Loaded(Leg) /\ loads = {}
  <1>1. PlaybackTyped /\ StreamsKeyed /\ LegsSound
    BY InvJoins
  <1>2. l.leg \in 1 .. Len(legs) /\ legs[l.leg].content # None
    BY <1>1 DEF PlaybackTyped, StreamsKeyed
  <1>3. legs[l.leg].content \in LegContents
    BY <1>1, <1>2, LegType
  <1>4. ASSUME playDoubt = {}
        PROVE  l.leg = here /\ here # 0 /\ Loaded(Leg)
    BY <1>1, <1>2, <1>4 DEF LegsSound, Alive, Leg
  <1> QED  BY <1>2, <1>3, <1>4, LoadedAlone

LEMMA StreamEndsStep ==
    ASSUME PlaybackInv, NEW l \in Streams, StreamEnds(l), Alive(l)
    PROVE  PlaybackInv'
  <1>1. PlaybackTyped /\ StreamsKeyed /\ LegsSound
    BY InvJoins
  <1>2. /\ l.leg \in 1 .. Len(legs) /\ legs[l.leg].content \in LegContents
        /\ playDoubt = {} => l.leg = here /\ here # 0 /\ Loaded(Leg) /\ loads = {}
    BY AliveHere
  <1>3. /\ loops' = loops (-) SetToBag({l})
        /\ legs' = [legs EXCEPT ![l.leg].channel = FALSE, ![l.leg].content.playing = FALSE]
        /\ Report("Stopped", {})
        /\ UNCHANGED <<here, loads, toService>>
    BY DEF StreamEnds
  <1>4. PICK n : n = [legs[l.leg] EXCEPT !.channel = FALSE, !.content.playing = FALSE]
    OBVIOUS
  <1>5. legs' = [legs EXCEPT ![l.leg] = n]
    BY <1>2, <1>3, <1>4
  <1>6. /\ LegBecomes(l.leg, legs'[l.leg]) /\ legs'[l.leg].open = legs[l.leg].open
        /\ legs'[l.leg].channel = FALSE /\ legs'[l.leg].content \in LegContents
        /\ legs'[l.leg].content.data = legs[l.leg].content.data
        /\ legs'[l.leg].content.playing = FALSE
        /\ legs'[l.leg].content.speed = legs[l.leg].content.speed
        /\ legs'[l.leg].play = legs[l.leg].play
    <2>1. legs[l.leg].content # None
      BY <1>2, ContentType
    <2> QED  BY <1>1, <1>2, <1>4, <1>5, <2>1, QuietEffect
  <1>7. toService' \in Seq(Orders) /\ legs' \in Seq(AudioLegs) /\ Len(legs') = Len(legs)
    BY <1>1, <1>3, <1>6 DEF LegBecomes, PlaybackTyped
  <1>8. playDoubt \subseteq playDoubt'
    BY <1>1, <1>3, <1>7, Reported
  <1>9. StreamsOk'
    <2>1. loops' = SetToBag(Streams \ {l})
      BY <1>1, <1>3, BagRemoves DEF PlaybackTyped
    <2>2. Fades(legs[l.leg], legs'[l.leg])
      BY <1>2, <1>6, ContentType DEF Fades, Playing
    <2>3. \A m \in Streams \ (Streams \ {l}) :
             legs'[m.leg].open /\ Playing(legs'[m.leg]) => m.play # legs'[m.leg].play
      BY <1>6 DEF Playing
    <2> QED  BY <1>1, <1>3, <1>6, <1>8, <2>1, <2>2, <2>3, LegFades
  <1>10. ASSUME playDoubt' = {}, Truthful
         PROVE  /\ LoadsHere'
                /\ loads' = {} => ("Stopped" = "Playing") = Sounding'
                /\ ~ Ordered({"play"}) =>
                     /\ \A m \in loads' : m.url = shown.url
                     /\ loads' = {} /\ here # 0 /\ Loaded(legs'[here]) =>
                           legs'[here].content.data = shown.url
    <2>1. l.leg = here /\ here # 0 /\ Loaded(Leg) /\ loads = {}
      BY <1>2, <1>8, <1>10
    <2>2. Sounding' = FALSE
      BY <1>3, <1>6, <2>1 DEF Sounding, Leg
    <2> QED  BY <1>3, <1>6, <1>10, <2>1, <2>2 DEF LoadsHere, Truthful, UrlTrue, Leg
  <1> QED  BY <1>3, <1>7, <1>9, <1>10, ServiceReports

LEMMA DeadStreamEndsStep ==
    ASSUME PlaybackInv, NEW l \in Streams, StreamEnds(l), ~ Alive(l)
    PROVE  PlaybackInv'
  <1>1. PlaybackTyped /\ StreamsKeyed /\ LegsSound
    BY InvJoins
  <1>2. /\ loops' = loops (-) SetToBag({l})
        /\ UNCHANGED <<platformVars, link, control, toPlatform, legs, playDoubt>>
        /\ UNCHANGED <<here, loads, toService>>
    BY DEF StreamEnds
  <1>3. PlatformTyped'
    BY <1>1, <1>2 DEF PlatformTyped, PlaybackTyped, platformVars
  <1>4. StreamsOk'
    <2>1. loops' = SetToBag(Streams \ {l}) /\ legs \in Seq(AudioLegs)
      BY <1>1, <1>2, BagRemoves DEF PlaybackTyped
    <2>2. \A i \in 1 .. Len(legs) : Fades(legs[i], legs'[i])
      BY <1>1, <1>2, SameFades
    <2>3. l.leg \in 1 .. Len(legs)
      BY <1>1 DEF PlaybackTyped
    <2>4. \A m \in Streams \ (Streams \ {l}) :
             legs'[m.leg].open /\ Playing(legs'[m.leg]) => m.play # legs'[m.leg].play
      BY <1>1, <1>2, <2>3 DEF Playing, Alive, LegsSound
    <2> QED  BY <1>1, <1>2, <2>1, <2>2, <2>4, FadeSound
  <1> QED  BY <1>2, <1>3, <1>4, NothingHeard
           DEF Truthful, LoadsHere, Sounding, Leg, platformVars

LEMMA StreamBreaksStep ==
    ASSUME PlaybackInv, NEW l \in Streams, StreamBreaks(l)
    PROVE  PlaybackInv'
  <1>1. PlaybackTyped /\ StreamsKeyed /\ LegsSound
    BY InvJoins
  <1>2. /\ Alive(l)
        /\ loops' = loops (-) SetToBag({l})
        /\ legs' = [legs EXCEPT ![l.leg].open = FALSE]
        /\ Report("Stopped", When(loads # {}, "leg_gone"))
        /\ UNCHANGED <<here, loads, toService>>
    BY DEF StreamBreaks
  <1>3. /\ l.leg \in 1 .. Len(legs) /\ legs[l.leg].content \in LegContents
        /\ playDoubt = {} => l.leg = here /\ here # 0 /\ Loaded(Leg) /\ loads = {}
    BY <1>2, AliveHere
  <1>4. /\ LegBecomes(l.leg, legs'[l.leg]) /\ legs'[l.leg].open = FALSE
        /\ legs'[l.leg].channel = legs[l.leg].channel
        /\ legs'[l.leg].content = legs[l.leg].content
        /\ legs'[l.leg].play = legs[l.leg].play
    BY <1>1, <1>2, <1>3, OpenEffect
  <1>5. toService' \in Seq(Orders) /\ legs' \in Seq(AudioLegs) /\ Len(legs') = Len(legs)
    BY <1>1, <1>2, <1>4 DEF LegBecomes, PlaybackTyped
  <1>6. PICK why : why = When(loads # {}, "leg_gone")
    OBVIOUS
  <1>7. Report("Stopped", why) /\ playDoubt \subseteq playDoubt'
    BY <1>1, <1>2, <1>5, <1>6, Reported
  <1>8. StreamsOk'
    <2>1. loops' = SetToBag(Streams \ {l})
      BY <1>1, <1>2, BagRemoves DEF PlaybackTyped
    <2>2. Fades(legs[l.leg], legs'[l.leg])
      BY <1>1, <1>3, <1>4 DEF Fades, Playing, LegsSound, Loaded
    <2>3. \A m \in Streams \ (Streams \ {l}) :
             legs'[m.leg].open /\ Playing(legs'[m.leg]) => m.play # legs'[m.leg].play
      BY <1>4
    <2> QED  BY <1>1, <1>2, <1>4, <1>7, <2>1, <2>2, <2>3, LegFades
  <1>9. ASSUME playDoubt' = {}, Truthful
        PROVE  /\ LoadsHere'
               /\ loads' = {} => ("Stopped" = "Playing") = Sounding'
               /\ ~ Ordered({"play"}) =>
                    /\ \A m \in loads' : m.url = shown.url
                    /\ loads' = {} /\ here # 0 /\ Loaded(legs'[here]) =>
                          legs'[here].content.data = shown.url
    <2>1. l.leg = here /\ here # 0 /\ Loaded(Leg) /\ loads = {}
      BY <1>3, <1>7, <1>9
    <2>2. Sounding' = FALSE
      BY <1>2, <1>4, <2>1 DEF Sounding, Leg
    <2> QED  BY <1>2, <1>4, <1>9, <2>1, <2>2 DEF LoadsHere, Truthful, UrlTrue, Leg, Loaded
  <1> QED  BY <1>2, <1>5, <1>7, <1>8, <1>9, ServiceReports

-----------------------------------------------------------------------------
(* Audio legs. *)

LEMMA OpenLegStep ==
    ASSUME PlaybackInv, OpenLeg
    PROVE  PlaybackInv'
  <1>1. PlaybackTyped /\ StreamsKeyed /\ LegsSound
    BY InvJoins
  <1>2. /\ ordered > 0 /\ ordered' = ordered - 1
        /\ legs' = Append(legs, NewLeg) /\ here' = Len(legs')
        /\ playDoubt' = playDoubt \cup When(here # 0, "two_legs")
        /\ UNCHANGED <<shown, playInbox, sending, attached, lineVars, loads, loops>>
    BY DEF OpenLeg, RegisterLeg, PlayDoubt
  <1>3. PlatformTyped'
    BY <1>1, <1>2 DEF PlatformTyped, PlaybackTyped, lineVars
  <1>4. NewLeg \in AudioLegs /\ NewLeg.channel = FALSE /\ NewLeg.content = None
    BY DEF NewLeg, AudioLegs
  <1>5. /\ legs' \in Seq(AudioLegs) /\ Len(legs') = Len(legs) + 1 /\ Len(legs) \in Nat
        /\ \A i \in 1 .. Len(legs) : legs'[i] = legs[i]
        /\ legs'[Len(legs')] = NewLeg /\ here' = Len(legs) + 1
    <2>1. legs \in Seq(AudioLegs)
      BY <1>1 DEF PlaybackTyped
    <2> QED  BY <1>2, <1>4, <2>1
  <1>6. \A l \in loads \cup Streams : l.leg \in 1 .. Len(legs)
    BY <1>1 DEF PlaybackTyped
  <1>7. Streams' = Streams /\ loads' = loads
    BY <1>2 DEF Streams
  <1>8. here # 0 => "two_legs" \in playDoubt'
    BY <1>2 DEF When
  <1>9. StreamsTyped'
    <2>1. \A l \in loads' \cup Streams' : l.leg \in 1 .. Len(legs')
      BY <1>5, <1>6, <1>7
    <2> QED  BY <1>1, <1>2, <1>5, <1>7, <2>1 DEF StreamsTyped, PlaybackTyped
  <1>10. StreamsKeyed'
    BY <1>1, <1>5, <1>6, <1>7 DEF StreamsKeyed
  <1>11. LegsSound'
    <2>1. \A i \in 1 .. Len(legs') :
             /\ legs'[i].channel => legs'[i].content # None
             /\ Loaded(legs'[i]) /\ legs'[i].content.playing => legs'[i].channel
      BY <1>1, <1>4, <1>5 DEF LegsSound, Loaded
    <2>2. ASSUME "two_legs" \notin playDoubt', NEW i \in 1 .. Len(legs'), legs'[i].open
          PROVE  i = here'
      <3>1. here = 0 /\ "two_legs" \notin playDoubt
        BY <1>2, <1>8, <2>2
      <3>2. i \in 1 .. Len(legs) => FALSE
        BY <1>1, <1>5, <2>2, <3>1 DEF LegsSound
      <3> QED  BY <1>5, <3>2
    <2>3. ASSUME "overlap" \notin playDoubt'
          PROVE  /\ \A l \in loads :
                      /\ legs'[l.leg].content # None /\ legs'[l.leg].content.data = None
                      /\ l.play = legs'[l.leg].play
                 /\ \A l \in Streams :
                      l.play = legs'[l.leg].play =>
                          Loaded(legs'[l.leg]) /\ legs'[l.leg].content.data = l.url
      BY <1>1, <1>2, <1>5, <1>6, <2>3 DEF LegsSound
    <2>4. ASSUME {"overlap", "unloaded"} \cap playDoubt' = {},
                 NEW i \in 1 .. Len(legs'),
                 legs'[i].open, Loaded(legs'[i]), legs'[i].content.playing
          PROVE  \E l \in Streams : l.leg = i /\ l.play = legs'[i].play
      <3>1. {"overlap", "unloaded"} \cap playDoubt = {}
        BY <1>2, <2>4
      <3>2. i \in 1 .. Len(legs)
        BY <1>4, <1>5, <2>4 DEF Loaded
      <3> QED  BY <1>1, <1>5, <2>4, <3>1, <3>2 DEF LegsSound
    <2> QED  BY <1>7, <2>1, <2>2, <2>3, <2>4 DEF LegsSound
  <1>12. ASSUME playDoubt' = {}, Truthful
         PROVE  /\ LoadsHere' /\ Sounding' = Sounding
                /\ ~ Loaded(Leg') /\ Leg'.content = None
    <2>1. here = 0
      BY <1>8, <1>12
    <2>2. loads = {}
      BY <1>6, <1>12, <2>1 DEF Truthful, LoadsHere
    <2>3. Leg'.content = None
      BY <1>2, <1>4, <1>5 DEF Leg
    <2>4. Sounding' = FALSE /\ Sounding = FALSE
      BY <2>1, <2>3 DEF Sounding, Loaded
    <2> QED  BY <1>7, <2>2, <2>3, <2>4 DEF LoadsHere, Loaded
  <1> QED  BY <1>2, <1>3, <1>9, <1>10, <1>11, <1>12, NothingHeard DEF StreamsOk, lineVars

LEMMA DropStep ==
    ASSUME PlaybackInv, NEW i \in DOMAIN legs, Drop(i)
    PROVE  PlaybackInv'
  <1>1. PlaybackTyped /\ StreamsKeyed /\ LegsSound
    BY InvJoins
  <1>2. i \in 1 .. Len(legs)
    BY <1>1 DEF PlaybackTyped
  <1>3. /\ legs' = [legs EXCEPT ![i].open = FALSE]
        /\ playDoubt' = playDoubt \cup When(legs[i].content # None, "leg_gone")
        /\ UNCHANGED <<platformVars, lineVars, here, loads, loops>>
    BY DEF Drop, PlayDoubt
  <1>4. /\ LegBecomes(i, legs'[i]) /\ legs'[i].open = FALSE
        /\ legs'[i].channel = legs[i].channel /\ legs'[i].content = legs[i].content
        /\ legs'[i].play = legs[i].play
    BY <1>1, <1>2, <1>3, OpenEffect
  <1>5. PlatformTyped'
    BY <1>1, <1>3 DEF PlatformTyped, PlaybackTyped, platformVars, lineVars
  <1>6. Fades(legs[i], legs'[i])
    BY <1>1, <1>2, <1>4 DEF Fades, Playing, Loaded, LegsSound
  <1>7. StreamsOk'
    <2>1. loops' = SetToBag(Streams)
      BY <1>1, <1>3 DEF PlaybackTyped
    <2> QED  BY <1>1, <1>3, <1>4, <1>6, <2>1, LegFades
  <1>8. ASSUME playDoubt' = {}, Truthful
        PROVE  /\ LoadsHere' /\ Sounding' = Sounding
               /\ here' # 0 /\ Loaded(Leg') =>
                    here # 0 /\ Loaded(Leg) /\ Leg'.content.data = Leg.content.data
               /\ here' # 0 /\ Leg'.content # None =>
                    /\ here # 0 /\ Leg.content # None
                    /\ Leg'.content.speed = Leg.content.speed
    <2>1. legs[i].content = None
      BY <1>3, <1>8 DEF When
    <2>2. CASE i = here
      <3>1. loads = {}
        BY <1>1, <1>3, <1>8, <2>1, <2>2 DEF Truthful, LoadsHere, StreamsKeyed
      <3>2. ~ Loaded(Leg) /\ ~ Loaded(Leg') /\ Leg'.content = None
        BY <1>3, <1>4, <2>1, <2>2 DEF Loaded, Leg
      <3> QED  BY <1>3, <3>1, <3>2 DEF LoadsHere, Sounding
    <2>3. CASE i # here
      <3>1. here # 0 => Leg' = Leg
        BY <1>1, <1>3, <1>4, <2>3 DEF Leg, LegBecomes, PlaybackTyped
      <3>2. LoadsHere'
        <4>1. ASSUME NEW l \in loads
              PROVE  here # 0 /\ l.leg = here
          BY <1>1, <1>8 DEF Truthful, LoadsHere, PlaybackTyped
        <4> QED  BY <1>3, <1>8, <3>1, <4>1 DEF Truthful, LoadsHere, Leg
      <3>3. Sounding' = Sounding
        BY <1>3, <3>1 DEF Sounding
      <3> QED  BY <1>3, <3>1, <3>2, <3>3
    <2> QED  BY <2>2, <2>3
  <1> QED  BY <1>3, <1>5, <1>7, <1>8, NothingHeard DEF platformVars, lineVars

LEMMA FunctionSequence ==
    ASSUME NEW S, NEW n \in Nat, NEW f \in [1 .. n -> S]
    PROVE  f \in Seq(S) /\ Len(f) = n
  OBVIOUS

LEMMA LegClosesStep ==
    ASSUME PlaybackInv, LegCloses
    PROVE  PlaybackInv'
  <1>1. PlaybackTyped /\ StreamsKeyed /\ LegsSound
    BY InvJoins
  <1>2. here # 0 /\ ~ Leg.open /\ here' = 0 /\ UNCHANGED <<platformVars, lineVars>>
    BY DEF LegCloses
  <1>3. PlatformTyped'
    BY <1>1, <1>2 DEF PlatformTyped, PlaybackTyped, platformVars, lineVars
  <1>4. CASE UNCHANGED <<legs, loads, loops, playDoubt>>
    <2>1. StreamsOk'
      <3>1. \A i \in 1 .. Len(legs) : Fades(legs[i], legs'[i])
        BY <1>1, <1>4, SameFades
      <3>2. \A i \in 1 .. Len(legs) : legs'[i].open => i # here
        BY <1>2, <1>4 DEF Leg
      <3>3. loops' = SetToBag(Streams) /\ legs \in Seq(AudioLegs)
        BY <1>1, <1>4 DEF PlaybackTyped
      <3> QED  BY <1>1, <1>2, <1>4, <3>1, <3>2, <3>3, FadeSound
    <2>2. ASSUME Truthful
          PROVE  LoadsHere' /\ Sounding' = Sounding
      <3>1. loads = {}
        BY <1>2, <2>2 DEF Truthful, LoadsHere, Leg
      <3>2. Sounding' = FALSE /\ Sounding = FALSE
        BY <1>2 DEF Sounding
      <3> QED  BY <1>4, <3>1, <3>2 DEF LoadsHere
    <2> QED  BY <1>2, <1>3, <1>4, <2>1, <2>2, NothingHeard DEF platformVars, lineVars
  <1>5. CASE ~ (UNCHANGED <<legs, loads, loops, playDoubt>>)
    <2>1. /\ legs' = [i \in DOMAIN legs |-> [legs[i] EXCEPT !.open = FALSE]]
          /\ loads' = {} /\ loops' = EmptyBag
          /\ playDoubt' = playDoubt \cup {"leg_gone"}
      BY <1>5 DEF LegCloses, PlayDoubt
    <2>2. \A i \in 1 .. Len(legs) :
            /\ [legs[i] EXCEPT !.open = FALSE] \in AudioLegs
            /\ [legs[i] EXCEPT !.open = FALSE].open = FALSE
            /\ [legs[i] EXCEPT !.open = FALSE].channel = legs[i].channel
            /\ [legs[i] EXCEPT !.open = FALSE].content = legs[i].content
            /\ [legs[i] EXCEPT !.open = FALSE].play = legs[i].play
      BY <1>1, LegType, LegEdits
    <2>3. /\ legs' \in Seq(AudioLegs) /\ Len(legs') = Len(legs)
          /\ \A i \in 1 .. Len(legs) :
               legs'[i].open = FALSE /\ Fades(legs[i], legs'[i])
      <3>1. legs \in Seq(AudioLegs)
        BY <1>1 DEF PlaybackTyped
      <3>0. DOMAIN legs = 1 .. Len(legs) /\ Len(legs) \in Nat
        BY <3>1
      <3>2. \A i \in 1 .. Len(legs) : legs'[i] = [legs[i] EXCEPT !.open = FALSE]
        BY <2>1, <3>0
      <3>3. legs' \in Seq(AudioLegs) /\ Len(legs') = Len(legs)
        <4>1. legs' = [i \in 1 .. Len(legs) |-> legs'[i]]
              /\ \A i \in 1 .. Len(legs) : legs'[i] \in AudioLegs
          BY <2>1, <2>2, <3>0, <3>2
        <4>2. legs' \in [1 .. Len(legs) -> AudioLegs]
          BY <4>1
        <4> QED  BY <3>0, <4>2, FunctionSequence
      <3>4. ASSUME NEW i \in 1 .. Len(legs)
            PROVE  legs'[i].open = FALSE /\ Fades(legs[i], legs'[i])
        <4>1. /\ legs'[i].open = FALSE /\ legs'[i].channel = legs[i].channel
              /\ legs'[i].content = legs[i].content /\ legs'[i].play = legs[i].play
          BY <2>2, <3>2
        <4> QED  BY <1>1, <4>1 DEF Fades, Playing, Loaded, LegsSound
      <3> QED  BY <3>3, <3>4
    <2>4. StreamsOk'
      <3>1. loops' = SetToBag({})
        BY <2>1 DEF EmptyBag
      <3>2. \A l \in Streams \ {} :
              legs'[l.leg].open /\ Playing(legs'[l.leg]) => l.play # legs'[l.leg].play
        BY <1>1, <2>3 DEF PlaybackTyped
      <3> QED  BY <1>1, <1>2, <2>1, <2>3, <3>1, <3>2, FadeSound
    <2> QED  BY <1>3, <2>1, <2>4, InvJoins
  <1> QED  BY <1>4, <1>5

-----------------------------------------------------------------------------
(* The line. *)

LEMMA LineSteps ==
    ASSUME PlaybackInv, Break \/ Forget \/ Notice \/ Connect \/ GiveUp
    PROVE  PlaybackInv'
  <1>1. PlaybackTyped /\ StreamsKeyed /\ LegsSound
    BY InvJoins
  <1>2. /\ UNCHANGED <<shown, playInbox, attached, ordered, serviceVars>>
        /\ sending' \in {sending, None}
        /\ playDoubt \subseteq playDoubt'
        /\ \/ UNCHANGED <<toService, toPlatform>>
           \/ toService' = <<>> /\ toPlatform' = <<>>
              /\ (toService # <<>> \/ toPlatform # <<>> => playDoubt' # {})
    BY DEF Break, Forget, Notice, Connect, GiveUp, platformVars, lineVars, PlayDoubt, When
  <1>3. link' \in {"up", "cut", "down"} /\ control' \in BOOLEAN /\ (link' = "up" => control')
    BY <1>1 DEF Break, Forget, Notice, Connect, GiveUp, HandleControlConnection,
                PlaybackTyped, lineVars
  <1>4. PlatformTyped'
    <2>1. toService' \in Seq(Orders) /\ toPlatform' \in Seq(Reports)
      <3>1. toService \in Seq(Orders) /\ toPlatform \in Seq(Reports)
        BY <1>1 DEF PlaybackTyped
      <3>2. <<>> \in Seq(Orders) /\ <<>> \in Seq(Reports)
        OBVIOUS
      <3> QED  BY <1>2, <3>1, <3>2
    <2>2. sending' \in Orders \cup {None}
      BY <1>1, <1>2 DEF PlaybackTyped
    <2> QED  BY <1>1, <1>2, <1>3, <2>1, <2>2 DEF PlatformTyped, PlaybackTyped
  <1>5. StreamsOk' /\ here' = here /\ loads' = loads /\ legs' = legs
    BY <1>1, <1>2, ServiceIdle DEF serviceVars
  <1>6. playDoubt' = {} => UNCHANGED <<shown, playInbox, toPlatform, toService, loads>>
    BY <1>2, <1>5
  <1> QED  BY <1>2, <1>4, <1>5, <1>6, NothingHeard DEF Truthful, LoadsHere, Sounding, Leg

-----------------------------------------------------------------------------
(* The event loop of the conference. *)

(* The queue changes; the service and what is on its way to it do not. *)
LEMMA QueueChanges ==
    ASSUME PlaybackInv, PlatformTyped', playDoubt \subseteq playDoubt', UNCHANGED serviceVars,
           playDoubt' = {} =>
             /\ shown'.url = shown.url /\ toService' = toService
             /\ \A v : Word(v)' => Word(v)
    PROVE  PlaybackInv'
  <1>1. PlaybackTyped /\ StreamsKeyed /\ LegsSound
    BY InvJoins
  <1>2. StreamsOk' /\ here' = here /\ loads' = loads /\ legs' = legs /\ loops' = loops
    BY <1>1, ServiceIdle DEF serviceVars
  <1>3. LiveStreams' = LiveStreams
    BY <1>2 DEF LiveStreams, Alive
  <1>4. ASSUME playDoubt' = {}
        PROVE  Truthful'
    <2>1. /\ Truthful /\ shown'.url = shown.url /\ toService' = toService
          /\ \A v : Word(v)' => Word(v)
      BY <1>4 DEF PlaybackInv
    <2>2. \A T : Ordered(T)' = Ordered(T)
      BY <2>1 DEF Ordered
    <2>3. ASSUME NEW v, Word(v)'
          PROVE  StatusTrue(v)' /\ SpeedTrue(v)'
      <3>1. StatusTrue(v) /\ SpeedTrue(v)
        BY <2>1, <2>3 DEF Truthful
      <3> QED  BY <1>2, <1>3, <2>2, <3>1 DEF StatusTrue, SpeedTrue, Leg
    <2>4. LoadsHere' /\ UrlTrue'
      BY <1>2, <2>1, <2>2 DEF Truthful, LoadsHere, UrlTrue, Leg
    <2> QED  BY <2>3, <2>4 DEF Truthful
  <1> QED  BY <1>2, <1>4, InvJoins

LEMMA AskStep ==
    ASSUME PlaybackInv, NEW e \in PlayAsks, AskPlayback(e)
    PROVE  PlaybackInv'
  <1>1. PlaybackTyped
    BY InvJoins
  <1>2. /\ playInbox' = Append(playInbox, e)
        /\ UNCHANGED <<shown, sending, attached, ordered, lineVars, serviceVars, playDoubt>>
    BY DEF AskPlayback
  <1>3. e \in Happenings /\ e \in Events /\ e.type # "report"
    BY PlaybackAssumption DEF Happenings, Events
  <1>4. PlatformTyped'
    BY <1>1, <1>2, <1>3 DEF PlatformTyped, PlaybackTyped, lineVars
  <1>5. \A v : Word(v)' => Word(v)
    BY <1>1, <1>2, <1>3, WordsAsked DEF lineVars
  <1> QED  BY <1>2, <1>4, <1>5, QueueChanges DEF lineVars

LEMMA ReceiveStep ==
    ASSUME PlaybackInv, Receive
    PROVE  PlaybackInv'
  <1>1. PlaybackTyped
    BY InvJoins
  <1>2. /\ toPlatform # <<>> /\ toPlatform' = Tail(toPlatform)
        /\ playInbox' = Append(playInbox, AudioEvent("report", Head(toPlatform)))
        /\ UNCHANGED <<shown, sending, attached, ordered, link, control, toService,
                       serviceVars, playDoubt>>
    BY DEF Receive
  <1>3. /\ \A v : Word(v)' => Word(v)
        /\ playInbox' \in Seq(Events) /\ toPlatform' \in Seq(Reports)
    BY <1>1, <1>2, WordsReceived
  <1>4. PlatformTyped'
    BY <1>1, <1>2, <1>3 DEF PlatformTyped, PlaybackTyped
  <1> QED  BY <1>2, <1>3, <1>4, QueueChanges

(* A command of the teacher, the leader or a key is one that the service knows. *)
Meant(first) == IF first.type = "key" THEN Meaning(first.value) ELSE first

LEMMA MeantType ==
    ASSUME PlaybackTyped, NEW first \in Events, NEW e, e = Meant(first)
    PROVE  /\ e.type \in Commands => e \in Orders /\ first.type # "report"
           /\ e.type = "report" => e = first /\ e.value \in Reports
           /\ e.type \in {"nothing", "system", "transfer"} => first.type # "report"
  <1>1. CASE first.type = "key"
    <2>1. first.value \in {"6", "7", "9", "*", "#"}
      BY <1>1 DEF Events, Happenings
    <2>2. shown.speed \in Slowest .. Fastest
      BY DEF PlaybackTyped, AudioContentState
    <2>3. \E t, w : e = AudioEvent(t, w)
                    /\ \/ t \in {"nothing", "resume", "pause", "seek"} /\ w = None
                       \/ t = "speed" /\ w \in Slowest .. Fastest
      <3>1. e = Meaning(first.value)
        BY <1>1 DEF Meant
      <3>2. CASE shown.status \notin Active
        BY <3>1, <3>2 DEF Meaning
      <3>3. CASE shown.status \in Active
        <4>1. CASE first.value = "6"
          BY <3>1, <3>3, <4>1 DEF Meaning
        <4>2. CASE first.value \in {"7", "9"}
          BY <3>1, <3>3, <4>2 DEF Meaning
        <4>3. CASE first.value = "*"
          <5>1. e = AudioEvent("speed",
                      IF shown.speed = Slowest THEN Slowest ELSE shown.speed - 1)
            BY <3>1, <3>3, <4>3 DEF Meaning
          <5>2. (IF shown.speed = Slowest THEN Slowest ELSE shown.speed - 1)
                   \in Slowest .. Fastest
            BY <2>2, PlaybackAssumption
          <5> QED  BY <5>1, <5>2
        <4>4. CASE first.value = "#"
          <5>1. e = AudioEvent("speed",
                      IF shown.speed = Fastest THEN Fastest ELSE shown.speed + 1)
            BY <3>1, <3>3, <4>4 DEF Meaning
          <5>2. (IF shown.speed = Fastest THEN Fastest ELSE shown.speed + 1)
                   \in Slowest .. Fastest
            BY <2>2, PlaybackAssumption
          <5> QED  BY <5>1, <5>2
        <4> QED  BY <2>1, <4>1, <4>2, <4>3, <4>4
      <3> QED  BY <3>2, <3>3
    <2>4. PICK t, w : e = AudioEvent(t, w)
                    /\ \/ t \in {"nothing", "resume", "pause", "seek"} /\ w = None
                       \/ t = "speed" /\ w \in Slowest .. Fastest
      BY <2>3
    <2>5. e.type = t /\ t # "report" /\ (t # "nothing" => e \in Orders)
      BY <2>4 DEF AudioEvent, Orders
    <2> QED  BY <1>1, <2>5 DEF Commands
  <1>2. CASE first.type # "key"
    <2>1. e = first
      BY <1>2 DEF Meant
    <2>2. CASE first \in Happenings
      BY <1>2, <2>1, <2>2 DEF Happenings, Orders, Commands
    <2>3. CASE first \notin Happenings
      BY <2>1, <2>3 DEF Events, Commands
    <2> QED  BY <2>2, <2>3
  <1> QED  BY <1>1, <1>2

Statuses == {"Starting", "Playing", "Paused", "Stopped"}

LEMMA ShownType ==
    ASSUME NEW s \in AudioContentState
    PROVE  /\ s.status \in Statuses /\ s.url \in Urls \cup {None}
           /\ s.speed \in Slowest .. Fastest
  BY DEF AudioContentState, Statuses

LEMMA StatusEdit ==
    ASSUME NEW s \in AudioContentState, NEW t \in Statuses, NEW r,
           r = [s EXCEPT !.status = t]
    PROVE  r \in AudioContentState /\ r.status = t /\ r.url = s.url /\ r.speed = s.speed
  BY DEF AudioContentState, Statuses

LEMMA UrlEdit ==
    ASSUME NEW s \in AudioContentState, NEW u \in Urls, NEW r, r = [s EXCEPT !.url = u]
    PROVE  r \in AudioContentState /\ r.status = s.status /\ r.url = u /\ r.speed = s.speed
  BY DEF AudioContentState

LEMMA SpeedEdit ==
    ASSUME NEW s \in AudioContentState, NEW v \in Slowest .. Fastest, NEW r,
           r = [s EXCEPT !.speed = v]
    PROVE  r \in AudioContentState /\ r.status = s.status /\ r.url = s.url /\ r.speed = v
  BY DEF AudioContentState

(* What a command shows, before and after it is sent. *)
LEMMA ShownByOrder ==
    ASSUME PlaybackTyped, NEW e \in Orders
    PROVE  /\ Begun(e) \in AudioContentState /\ Done(e) \in AudioContentState
           /\ ~ Promises(e) => Begun(e) = shown /\ Done(e).status = shown.status
           /\ e.type = "play" => Done(e).url = e.value
           /\ e.type # "play" => Done(e).url = shown.url
           /\ e.type # "speed" => Done(e).speed = shown.speed
  <1>1. shown \in AudioContentState
    BY DEF PlaybackTyped
  <1>2. CASE e.type = "play"
    <2>1. e.value \in Urls
      BY <1>2 DEF Orders
    <2>2. PICK m : m = [shown EXCEPT !.status = "Starting"]
      OBVIOUS
    <2>3. PICK s : s = [m EXCEPT !.url = e.value]
      OBVIOUS
    <2>4. s \in AudioContentState /\ s.url = e.value /\ s.speed = shown.speed
      <3>1. m \in AudioContentState /\ m.speed = shown.speed
        BY <1>1, <2>2, StatusEdit DEF Statuses
      <3> QED  BY <2>1, <2>3, <3>1, UrlEdit
    <2>5. Begun(e) = s /\ Done(e) = s /\ Promises(e)
      BY <1>2, <2>2, <2>3 DEF Begun, Done, Promises
    <2> QED  BY <1>2, <2>4, <2>5
  <1>3. CASE e.type = "resume"
    <2>1. PICK s : s = [shown EXCEPT !.status = "Starting"]
      OBVIOUS
    <2>2. s \in AudioContentState /\ s.url = shown.url /\ s.speed = shown.speed
      BY <1>1, <2>1, StatusEdit DEF Statuses
    <2>3. Begun(e) = s /\ Done(e) = s /\ Promises(e)
      BY <1>3, <2>1 DEF Begun, Done, Promises
    <2> QED  BY <1>3, <2>2, <2>3
  <1>4. CASE e.type = "speed"
    <2>1. e.value \in Slowest .. Fastest
      BY <1>4 DEF Orders
    <2>2. PICK s : s = [shown EXCEPT !.speed = e.value]
      OBVIOUS
    <2>3. s \in AudioContentState /\ s.url = shown.url /\ s.status = shown.status
      BY <1>1, <2>1, <2>2, SpeedEdit
    <2>4. Begun(e) = shown /\ Done(e) = s
      BY <1>4, <2>2 DEF Begun, Done
    <2> QED  BY <1>1, <1>4, <2>3, <2>4
  <1>5. CASE e.type \notin {"play", "resume", "speed"}
    BY <1>1, <1>5 DEF Begun, Done, Promises
  <1> QED  BY <1>2, <1>3, <1>4, <1>5

(* An event of the queue that is no report leaves what is known as it is. *)
LEMMA WordsAfter ==
    ASSUME PlaybackTyped, playInbox # <<>>, playInbox' = Tail(playInbox),
           toPlatform' = toPlatform, Head(playInbox).type # "report", shown' = shown
    PROVE  \A v : Word(v)' => Word(v)
  BY WordsTaken DEF Word

LEMMA SendStep ==
    ASSUME PlaybackInv, sending = None, playInbox # <<>>, playInbox' = Tail(playInbox),
           Head(playInbox).type # "report", NEW e \in Orders, Send(e),
           attached' \in BOOLEAN, ordered' = ordered,
           UNCHANGED <<control, toPlatform, serviceVars>>
    PROVE  PlaybackInv'
  <1>1. PlaybackTyped
    BY InvJoins
  <1>2. /\ Begun(e) \in AudioContentState /\ Done(e) \in AudioContentState
        /\ ~ Promises(e) => Begun(e) = shown /\ Done(e).status = shown.status
        /\ e.type = "play" => Done(e).url = e.value
        /\ e.type # "play" => Done(e).url = shown.url
        /\ e.type # "speed" => Done(e).speed = shown.speed
    BY <1>1, ShownByOrder
  <1>3. Append(toService, e) \in Seq(Orders) /\ toService \in Seq(Orders)
    BY <1>1 DEF PlaybackTyped
  <1>4. PlatformTyped'
    <2>1. shown' \in AudioContentState /\ toService' \in Seq(Orders)
      BY <1>2, <1>3 DEF Send
    <2>2. sending' \in Orders \cup {None}
      BY <1>1 DEF Send, PlaybackTyped
    <2>3. link' \in {"up", "cut", "down"} /\ (link' = "up" => link = "up")
      BY <1>1 DEF Send, PlaybackTyped
    <2>4. playInbox' \in Seq(Events)
      BY <1>1, WordsTaken
    <2> QED  BY <1>1, <2>1, <2>2, <2>3, <2>4 DEF PlatformTyped, PlaybackTyped
  <1>5. CASE /\ link = "up" /\ shown' = Done(e)
             /\ toService' = Append(toService, e)
             /\ UNCHANGED <<sending, link, playDoubt>>
    <2>1. StreamsOk' /\ here' = here /\ loads' = loads /\ legs' = legs /\ loops' = loops
      BY <1>5, InvJoins, ServiceIdle DEF serviceVars
    <2>2. LiveStreams' = LiveStreams
      BY <2>1 DEF LiveStreams, Alive
    <2>3. \A T : Ordered(T)' = (Ordered(T) \/ e.type \in T)
      BY <1>1, <1>5, OrderedAppend
    <2>4. ASSUME Truthful
          PROVE  Truthful'
      <3>1. UrlTrue'
        <4>1. LastPlay => LastPlay'
          BY <1>1, <1>2, <1>5, LastPlayAppend
        <4>2. ~ Ordered({"play"})' => shown'.url = shown.url /\ ~ Ordered({"play"})
          BY <1>2, <1>5, <2>3
        <4> QED  BY <2>1, <2>4, <4>1, <4>2 DEF Truthful, UrlTrue, LastPlay, Leg
      <3>2. LoadsHere'
        BY <2>1, <2>4 DEF Truthful, LoadsHere
      <3>3. ASSUME NEW v, Word(v)
            PROVE  StatusTrue(v)' /\ SpeedTrue(v)'
        <4>1. StatusTrue(v) /\ SpeedTrue(v)
          BY <2>4, <3>3 DEF Truthful
        <4> QED  BY <2>1, <2>2, <2>3, <4>1 DEF StatusTrue, SpeedTrue, Leg
      <3>4. ASSUME NEW v, Silent, v = [status |-> shown'.status, speed |-> shown'.speed]
            PROVE  StatusTrue(v)' /\ SpeedTrue(v)'
        <4>1. PICK w : w = [status |-> shown.status, speed |-> shown.speed]
          OBVIOUS
        <4>2. StatusTrue(w)' /\ SpeedTrue(w)'
          BY <3>3, <3>4, <4>1 DEF Word
        <4>3. StatusTrue(v)'
          <5>1. CASE Promises(e)
            BY <2>3, <5>1 DEF Promises, StatusTrue
          <5>2. CASE ~ Promises(e)
            <6>1. v.status = w.status
              BY <1>2, <1>5, <3>4, <4>1, <5>2
            <6> QED  BY <4>2, <6>1 DEF StatusTrue
          <5> QED  BY <5>1, <5>2
        <4>4. SpeedTrue(v)'
          <5>1. CASE e.type = "speed"
            BY <2>3, <5>1 DEF SpeedTrue
          <5>2. CASE e.type # "speed"
            <6>1. v.speed = w.speed
              BY <1>2, <1>5, <3>4, <4>1, <5>2
            <6> QED  BY <4>2, <6>1 DEF SpeedTrue
          <5> QED  BY <5>1, <5>2
        <4> QED  BY <4>3, <4>4
      <3>5. ASSUME NEW v, Word(v)'
            PROVE  StatusTrue(v)' /\ SpeedTrue(v)'
        <4>1. \A w : LastReport(w)' => LastReport(w)
          BY <1>1, WordsTaken
        <4>2. Silent' => Silent
          BY <1>1, WordsTaken
        <4>3. CASE LastReport(v)'
          BY <3>3, <4>1, <4>3 DEF Word
        <4>4. CASE ~ LastReport(v)'
          <5>1. Silent' /\ v = [status |-> shown'.status, speed |-> shown'.speed]
            BY <3>5, <4>4 DEF Word
          <5> QED  BY <3>4, <4>2, <5>1
        <4> QED  BY <4>3, <4>4
      <3> QED  BY <3>1, <3>2, <3>5 DEF Truthful
    <2> QED  BY <1>4, <1>5, <2>1, <2>4, InvJoins DEF PlaybackInv
  <1>6. CASE ~ (/\ link = "up" /\ shown' = Done(e)
                /\ toService' = Append(toService, e)
                /\ UNCHANGED <<sending, link, playDoubt>>)
    <2>1. /\ toService' = toService /\ playDoubt \subseteq playDoubt'
          /\ playDoubt' = {} => shown' = shown
      BY <1>2, <1>6 DEF Send, PlayDoubt, When
    <2>2. playDoubt' = {} => \A v : Word(v)' => Word(v)
      BY <1>1, <2>1, WordsAfter
    <2> QED  BY <1>4, <2>1, <2>2, QueueChanges
  <1> QED  BY <1>5, <1>6

LEMMA ProcessStep ==
    ASSUME PlaybackInv, ProcessAudio
    PROVE  PlaybackInv'
  <1>1. PlaybackTyped
    BY InvJoins
  <1>2. PICK first : first = Head(playInbox)
    OBVIOUS
  <1>3. PICK e : e = Meant(first)
    OBVIOUS
  <1>4. /\ sending = None /\ playInbox # <<>> /\ playInbox' = Tail(playInbox)
        /\ \/ ContentCommand(e) \/ StreamSystemMessage(e) \/ EndConference(e)
           \/ PlaybackStateUpdate(e) \/ Attach(e) \/ Disregard(e)
        /\ UNCHANGED <<control, toPlatform, serviceVars>>
    BY <1>2, <1>3 DEF ProcessAudio, Meant
  <1>5. first \in Events /\ playInbox' \in Seq(Events)
    BY <1>1, <1>2, <1>4, WordsTaken
  <1>6. /\ e.type \in Commands => e \in Orders /\ first.type # "report"
        /\ e.type = "report" => e = first /\ e.value \in Reports
        /\ e.type \in {"nothing", "system", "transfer"} => first.type # "report"
    BY <1>1, <1>3, <1>5, MeantType
  <1>7. CASE e.type \in Commands /\ Send(e)
    <2>1. attached' \in BOOLEAN /\ ordered' = ordered
      BY <1>1, <1>4, <1>7 DEF ContentCommand, StreamSystemMessage, EndConference,
           PlaybackStateUpdate, Attach, Disregard, PlaybackTyped, Commands
    <2> QED  BY <1>2, <1>4, <1>6, <1>7, <2>1, SendStep
  <1>8. CASE PlaybackStateUpdate(e)
    <2>1. /\ e = first /\ first.type = "report" /\ e.value \in Reports
          /\ shown' = [shown EXCEPT !.status = e.value.status, !.speed = e.value.speed]
          /\ UNCHANGED <<sending, attached, ordered, link, toService, playDoubt>>
      BY <1>6, <1>8 DEF PlaybackStateUpdate
    <2>2. PICK m : m = [shown EXCEPT !.status = e.value.status]
      OBVIOUS
    <2>3. m \in AudioContentState /\ m.status = e.value.status /\ m.url = shown.url
      <3>1. e.value.status \in {"Starting", "Playing", "Paused", "Stopped"}
        BY <2>1 DEF Reports
      <3> QED  BY <1>1, <2>2, <3>1, StatusEdit DEF PlaybackTyped, Statuses
    <2>4. shown' = [m EXCEPT !.speed = e.value.speed]
      BY <2>1, <2>2
    <2>5. /\ shown' \in AudioContentState /\ shown'.url = shown.url
          /\ shown'.status = e.value.status /\ shown'.speed = e.value.speed
      <3>1. e.value.speed \in Slowest .. Fastest
        BY <2>1 DEF Reports
      <3> QED  BY <2>3, <2>4, <3>1, SpeedEdit
    <2>6. PlatformTyped'
      BY <1>1, <1>4, <1>5, <2>1, <2>5 DEF PlatformTyped, PlaybackTyped
    <2>7. ASSUME NEW v, Word(v)'
          PROVE  Word(v)
      <3>1. \A w : LastReport(w)' => LastReport(w)
        BY <1>1, <1>4, WordsTaken
      <3>2. Silent' => LastReport(e.value)
        BY <1>1, <1>2, <1>4, <2>1, WordsTaken
      <3>3. e.value = [status |-> e.value.status, speed |-> e.value.speed]
        BY <2>1 DEF Reports
      <3> QED  BY <2>5, <2>7, <3>1, <3>2, <3>3 DEF Word
    <2> QED  BY <1>4, <2>1, <2>5, <2>6, <2>7, QueueChanges
  <1>9. CASE Attach(e) \/ Disregard(e)
    <2>1. /\ UNCHANGED <<shown, sending, link, toService, playDoubt>>
          /\ attached' \in BOOLEAN /\ first.type # "report"
      BY <1>1, <1>6, <1>9 DEF Attach, Disregard, PlaybackTyped
    <2>2. ordered' \in Nat
      BY <1>1, <1>9 DEF Attach, Disregard, OrderLeg, PlaybackTyped
    <2>3. PlatformTyped'
      BY <1>1, <1>4, <1>5, <2>1, <2>2 DEF PlatformTyped, PlaybackTyped
    <2>4. \A v : Word(v)' => Word(v)
      BY <1>1, <1>2, <1>4, <2>1, WordsAfter
    <2> QED  BY <1>4, <2>1, <2>3, <2>4, QueueChanges
  <1>10. (e.type \in Commands /\ Send(e)) \/ PlaybackStateUpdate(e) \/ Attach(e) \/ Disregard(e)
    BY <1>4 DEF ContentCommand, StreamSystemMessage, EndConference, Commands
  <1> QED  BY <1>7, <1>8, <1>9, <1>10

-----------------------------------------------------------------------------
(* The invariant. *)

LEMMA PlaybackStarts ==
    ASSUME PlaybackInit
    PROVE  PlaybackInv
  <1>1. Streams = {} /\ loops = SetToBag(Streams)
    BY BagSet DEF PlaybackInit, Streams, EmptyBag
  <1>2. playInbox \in Seq(Events) /\ \A i \in 1 .. Len(playInbox) : playInbox[i].type # "report"
    <2>1. playInbox \in Seq(Happenings)
      BY PlaybackAssumption DEF PlaybackInit
    <2>2. Happenings \subseteq Events /\ \A e \in Happenings : e.type # "report"
      BY DEF Happenings, Events
    <2>3. \A i \in 1 .. Len(playInbox) : playInbox[i] \in Happenings
      BY <2>1
    <2>4. playInbox \in Seq(Events)
      BY <2>1, <2>2
    <2> QED  BY <2>2, <2>3, <2>4
  <1>3. PlaybackTyped
    <2>1. shown \in AudioContentState
      BY PlaybackAssumption DEF PlaybackInit, AudioContentState
    <2>2. /\ <<>> \in Seq(Orders) /\ <<>> \in Seq(Reports) /\ <<>> \in Seq(AudioLegs)
          /\ Len(<<>>) = 0
      OBVIOUS
    <2>3. /\ attached = FALSE /\ ordered = 0 /\ sending = None
          /\ link = "up" /\ control = TRUE /\ toService = <<>> /\ toPlatform = <<>>
          /\ legs = <<>> /\ here = 0 /\ loads = {}
      BY DEF PlaybackInit, Initialized
    <2>4. /\ legs \in Seq(AudioLegs) /\ here \in 0 .. Len(legs)
          /\ toService \in Seq(Orders) /\ toPlatform \in Seq(Reports)
      BY <2>2, <2>3
    <2>5. /\ loads \in SUBSET LegStreams /\ Streams \in SUBSET LegStreams
          /\ \A l \in loads \cup Streams : l.leg \in 1 .. Len(legs)
      BY <1>1, <2>3
    <2> QED  BY <1>1, <1>2, <2>1, <2>3, <2>4, <2>5 DEF PlaybackTyped
  <1>4. StreamsKeyed /\ LegsSound
    BY <1>1 DEF PlaybackInit, StreamsKeyed, LegsSound
  <1>5. Truthful
    <2>1. LiveStreams = {}
      BY <1>1 DEF LiveStreams, Streams
    <2>2. LoadsHere /\ UrlTrue
      BY DEF PlaybackInit, Initialized, LoadsHere, UrlTrue
    <2>3. ASSUME NEW v, Word(v)
          PROVE  v = [status |-> "Stopped", url |-> None, speed |-> Normal]
                 \/ v = [status |-> "Stopped", speed |-> Normal]
      BY <1>2, <2>3 DEF Word, LastReport, PlaybackInit, Initialized
    <2> QED  BY <2>1, <2>2, <2>3 DEF Truthful, StatusTrue, SpeedTrue, PlaybackInit
  <1> QED  BY <1>3, <1>4, <1>5 DEF PlaybackInv

LEMMA PlaybackStutters ==
    ASSUME PlaybackInv, UNCHANGED playbackVars
    PROVE  PlaybackInv'
  <1>1. PlatformTyped'
    BY InvJoins DEF PlatformTyped, playbackVars, platformVars, lineVars
  <1>2. \A v : Word(v)' => Word(v)
    BY WordsKept DEF playbackVars, platformVars, lineVars
  <1> QED  BY <1>1, <1>2, QueueChanges DEF playbackVars, platformVars, lineVars

\* The inductive invariant holds in every state: the playbackId of a leg is used
\* for one stream of it, what a leg plays is what was loaded last and is being
\* streamed, and the last report under way, or what is shown when there is none,
\* is true of the streams as soon as the commands on their way are obeyed.
THEOREM PlaybackInvariant == PlaybackSpec => []PlaybackInv
  <1>1. PlaybackInit => PlaybackInv
    BY PlaybackStarts
  <1>2. PlaybackInv /\ [PlaybackNext]_playbackVars => PlaybackInv'
    <2> SUFFICES ASSUME PlaybackInv, [PlaybackNext]_playbackVars
                 PROVE  PlaybackInv'
      OBVIOUS
    <2>1. CASE Break \/ Forget \/ Notice \/ Connect \/ GiveUp
      BY <2>1, LineSteps
    <2>2. ASSUME NEW e \in PlayAsks, AskPlayback(e)
          PROVE  PlaybackInv'
      BY <2>2, AskStep
    <2>3. CASE ProcessAudio
      BY <2>3, ProcessStep
    <2>4. CASE Receive
      BY <2>4, ReceiveStep
    <2>5. CASE Handle
      BY <2>5, HandleStep
    <2>6. ASSUME NEW l \in loads, Downloaded(l) \/ DownloadFails(l)
          PROVE  PlaybackInv'
      BY <2>6, DownloadedStep, DownloadFailsStep
    <2>7. ASSUME Stream
          PROVE  PlaybackInv'
      <3>1. PICK l \in Streams : StreamReports(l) \/ StreamEnds(l) \/ StreamBreaks(l)
        BY <2>7 DEF Stream, Streams
      <3> QED  BY <3>1, StreamReportsStep, StreamEndsStep, DeadStreamEndsStep,
                  StreamBreaksStep
    <2>8. CASE OpenLeg
      BY <2>8, OpenLegStep
    <2>9. CASE LegCloses
      BY <2>9, LegClosesStep
    <2>10. ASSUME NEW i \in DOMAIN legs, Drop(i)
           PROVE  PlaybackInv'
      BY <2>10, DropStep
    <2>11. CASE UNCHANGED playbackVars
      BY <2>11, PlaybackStutters
    <2> QED  BY <2>1, <2>2, <2>3, <2>4, <2>5, <2>6, <2>7, <2>8, <2>9, <2>10, <2>11
             DEF PlaybackNext
  <1> QED  BY <1>1, <1>2, PTL DEF PlaybackSpec

LEMMA OneStreamHeard ==
    ASSUME PlaybackInv
    PROVE  OneStream
  <1>1. PlaybackTyped /\ StreamsKeyed /\ LegsSound
    BY InvJoins
  <1>2. \A l \in LiveStreams : l \in Streams /\ Alive(l) /\ l.leg \in 1 .. Len(legs)
    BY <1>1 DEF LiveStreams, Streams, PlaybackTyped
  <1>3. \A l \in LiveStreams : loops[l] = 1
    BY <1>1, <1>2, BagSet DEF PlaybackTyped
  <1>4. \A l, m \in LiveStreams : l = m \/ l.leg # m.leg
    BY <1>1, <1>2 DEF StreamsKeyed, SameKey, Alive
  <1>5. ASSUME "two_legs" \notin playDoubt
        PROVE  Cardinality(LiveStreams) <= 1
    <2>1. \A l, m \in LiveStreams : l = m
      BY <1>1, <1>2, <1>4, <1>5 DEF LegsSound, Alive
    <2>2. CASE LiveStreams = {}
      BY <2>2, FS_EmptySet
    <2>3. CASE LiveStreams # {}
      <3>1. PICK l : LiveStreams = {l}
        BY <2>1, <2>3
      <3> QED  BY <3>1, FS_Singleton
    <2> QED  BY <2>2, <2>3
  <1> QED  BY <1>3, <1>4, <1>5 DEF OneStream

LEMMA HeardIsShown ==
    ASSUME PlaybackInv
    PROVE  NoDeadAir /\ ShownIsHeard
  <1>1. PlaybackTyped /\ StreamsKeyed /\ LegsSound /\ StreamsOk
    BY InvJoins
  <1>2. NoDeadAir
    <2> SUFFICES ASSUME NEW i \in DOMAIN legs,
                        legs[i].open, legs[i].channel, Loaded(legs[i]),
                        legs[i].content.playing,
                        playDoubt \cap {"overlap", "unloaded"} = {}
                 PROVE  \E l \in LiveStreams : l.leg = i
      BY DEF NoDeadAir
    <2>1. i \in 1 .. Len(legs) /\ {"overlap", "unloaded"} \cap playDoubt = {}
      BY <1>1 DEF PlaybackTyped
    <2>2. PICK l \in Streams : l.leg = i /\ l.play = legs[i].play
      BY <1>1, <2>1 DEF LegsSound
    <2>3. Alive(l)
      BY <2>2 DEF Alive
    <2> QED  BY <2>2, <2>3 DEF LiveStreams, Streams
  <1>3. ShownIsHeard
    <2> SUFFICES ASSUME Settled, playDoubt = {}
                 PROVE  /\ shown.status # "Starting"
                        /\ (shown.status = "Playing") = (LiveStreams # {})
                        /\ \A l \in LiveStreams : l.url = shown.url
                        /\ here # 0 /\ Leg.content # None => Leg.content.speed = shown.speed
      BY DEF ShownIsHeard
    <2>1. PICK v : v = [status |-> shown.status, speed |-> shown.speed]
      OBVIOUS
    <2>2. v.status = shown.status /\ v.speed = shown.speed
      BY <2>1
    <2>3. /\ loads = {} /\ \A T : ~ Ordered(T)
          /\ Word(v)
      BY <2>1 DEF Settled, Ordered, Word, Silent
    <2>4. StatusTrue(v) /\ SpeedTrue(v) /\ UrlTrue
      BY <2>3 DEF PlaybackInv, Truthful
    <2>5. \A l \in LiveStreams : l.url = shown.url
      <3> SUFFICES ASSUME NEW l \in LiveStreams
                   PROVE  l.url = shown.url
        OBVIOUS
      <3>1. l \in Streams /\ Alive(l) /\ l.leg \in 1 .. Len(legs)
        BY <1>1 DEF LiveStreams, Streams, PlaybackTyped
      <3>2. l.leg = here /\ here # 0 /\ Loaded(Leg)
        BY <3>1, AliveHere
      <3>3. Leg.content.data = l.url
        BY <1>1, <3>1, <3>2 DEF LegsSound, Alive, Leg
      <3> QED  BY <2>3, <2>4, <3>2, <3>3 DEF UrlTrue
    <2> QED  BY <2>2, <2>3, <2>4, <2>5 DEF StatusTrue, SpeedTrue
  <1> QED  BY <1>2, <1>3

LEMMA PlaybackTypes ==
    ASSUME PlaybackInv
    PROVE  PlaybackTypeOK
  <1>1. PlaybackTyped
    BY InvJoins
  <1>2. sending = None \/ sending.type \in Commands
    BY <1>1 DEF PlaybackTyped, Orders, Commands
  <1> QED  BY <1>1, <1>2 DEF PlaybackTyped, PlaybackTypeOK, Streams

\* In every state of every run, a leg carries at most one stream, and a conference
\* at most one unless two legs were opened; what should be playing is being sent;
\* and once everything is handled the teacher is shown what is heard, unless a
\* command or a report was lost, a download failed or overlapped, or a leg went.
THEOREM ShownIsWhatIsHeard == PlaybackSpec => []PlaybackConsistent
  <1>1. PlaybackInv => PlaybackConsistent
    BY OneStreamHeard, HeardIsShown, PlaybackTypes DEF PlaybackConsistent
  <1> QED  BY <1>1, PlaybackInvariant, PTL

-----------------------------------------------------------------------------
(* AudioRelay: recordings are closed, and what is heard of a hold is known. *)

Tasks == {"none", "new", "loading", "waiting", "transcribing", "detecting"}
Recordings == [chunks : Nat, file : {"open", "closed", "removed", "stored"}]
Uploads == [of : Nat, attempt : Nat]
Words == [text : Texts, of : Nat]

RelayTyped ==
    /\ dialling \in Nat /\ looping \in BOOLEAN /\ sunk \in BOOLEAN /\ analysis \in BOOLEAN
    /\ task \in Tasks /\ detector \in BOOLEAN
    /\ relayed \in Seq(Chunks) \cup {None} /\ (task # "none" => relayed # None)
    /\ task # "none" => starts # 0
    /\ inHand \in Texts \cup {None}
    /\ task \in {"transcribing", "detecting"} => inHand \in Texts
    /\ recordings \in Seq(Recordings) /\ session \in 1 .. Len(recordings) \cup {None}
    /\ upload \in Uploads \cup {None}
    /\ upload # None => upload.of \in 1 .. Len(recordings)
    /\ texts \in Seq(Words) /\ held \in BOOLEAN
    /\ starts \in Nat /\ onHold \in SUBSET (1 .. starts)

\* What was heard of being on hold is known, and is acted upon.
HoldHeard ==
    /\ \A i \in 1 .. Len(texts) : texts[i].text = "hold" => texts[i].of \in onHold
    /\ dialling = 0 /\ held => starts \in onHold \/ "earlier" \in relayDoubt
    /\ starts \in onHold =>
         \/ held \/ "reset" \in relayDoubt \/ task = "none"
         \/ task = "detecting" /\ HoldTexts # {}

RelayInv == RelayTyped /\ RecordingsClosed /\ SunkIsSilent /\ HoldHeard

-----------------------------------------------------------------------------
(* The recordings. *)

LEMMA RecordingType ==
    ASSUME RelayTyped, NEW i \in 1 .. Len(recordings)
    PROVE  /\ recordings[i] \in Recordings /\ recordings[i].chunks \in Nat
           /\ recordings[i].file \in {"open", "closed", "removed", "stored"}
  <1>1. recordings[i] \in Recordings
    BY DEF RelayTyped
  <1> QED  BY <1>1 DEF Recordings

LEMMA FileEdit ==
    ASSUME RelayTyped, NEW i \in 1 .. Len(recordings),
           NEW f \in {"open", "closed", "removed", "stored"},
           recordings' = [recordings EXCEPT ![i].file = f]
    PROVE  /\ recordings' \in Seq(Recordings) /\ Len(recordings') = Len(recordings)
           /\ recordings'[i].file = f /\ recordings'[i].chunks = recordings[i].chunks
           /\ \A j \in 1 .. Len(recordings) : j # i => recordings'[j] = recordings[j]
  <1>1. PICK r : r = [recordings[i] EXCEPT !.file = f]
    OBVIOUS
  <1>2. r \in Recordings /\ r.file = f /\ r.chunks = recordings[i].chunks
    BY <1>1, RecordingType DEF Recordings
  <1>3. recordings' = [recordings EXCEPT ![i] = r] /\ recordings \in Seq(Recordings)
    BY <1>1 DEF RelayTyped
  <1> QED  BY <1>2, <1>3

LEMMA ChunkEdit ==
    ASSUME RelayTyped, NEW i \in 1 .. Len(recordings),
           recordings' = [recordings EXCEPT ![i].chunks = @ + 1]
    PROVE  /\ recordings' \in Seq(Recordings) /\ Len(recordings') = Len(recordings)
           /\ recordings'[i].file = recordings[i].file
           /\ recordings'[i].chunks = recordings[i].chunks + 1
           /\ \A j \in 1 .. Len(recordings) : j # i => recordings'[j] = recordings[j]
  <1>1. PICK n : n = recordings[i].chunks + 1
    OBVIOUS
  <1>2. n \in Nat
    BY <1>1, RecordingType
  <1>3. PICK r : r = [recordings[i] EXCEPT !.chunks = n]
    OBVIOUS
  <1>4. r \in Recordings /\ r.file = recordings[i].file /\ r.chunks = n
    BY <1>2, <1>3, RecordingType DEF Recordings
  <1>5. recordings' = [recordings EXCEPT ![i] = r] /\ recordings \in Seq(Recordings)
    BY <1>1, <1>3 DEF RelayTyped
  <1> QED  BY <1>1, <1>4, <1>5

\* What a step does to the recordings.
CaptureSound ==
    /\ recordings \in Seq(Recordings) /\ session \in 1 .. Len(recordings) \cup {None}
    /\ upload \in Uploads \cup {None}
    /\ upload # None => upload.of \in 1 .. Len(recordings)
    /\ RecordingsClosed

LEMMA SameCapture ==
    ASSUME RelayTyped, RecordingsClosed, UNCHANGED captureVars
    PROVE  CaptureSound'
  BY DEF RelayTyped, RecordingsClosed, CaptureSound, captureVars

LEMMA FinalizeSound ==
    ASSUME RelayTyped, RecordingsClosed, Finalize
    PROVE  /\ CaptureSound' /\ relayDoubt \subseteq relayDoubt'
           /\ relayDoubt' \subseteq relayDoubt \cup {"left_open"}
           /\ "left_open" \notin relayDoubt' => session' = None
  <1>1. CASE upload # None \/ session = None
    <2>1. UNCHANGED captureVars /\ RelayDoubt(session # None, "left_open")
      BY <1>1 DEF Finalize, captureVars
    <2>2. CaptureSound' /\ session' = session
      BY <2>1, SameCapture DEF captureVars
    <2> QED  BY <2>1, <2>2 DEF RelayDoubt
  <1>2. CASE ~ (upload # None \/ session = None)
    <2>1. session \in 1 .. Len(recordings)
      BY <1>2 DEF RelayTyped
    <2>2. PICK some : some = (recordings[session].chunks > 0)
      OBVIOUS
    <2>3. PICK f : f = IF recordings[session].chunks > 0 THEN "closed" ELSE "removed"
      OBVIOUS
    <2>4. /\ session' = None
          /\ recordings' = [recordings EXCEPT ![session].file = f]
          /\ upload' = IF recordings[session].chunks > 0
                       THEN [of |-> session, attempt |-> 1] ELSE None
          /\ UNCHANGED relayDoubt
      BY <1>2, <2>3 DEF Finalize
    <2>5. /\ recordings' \in Seq(Recordings) /\ Len(recordings') = Len(recordings)
          /\ recordings'[session].file = f
          /\ recordings'[session].chunks = recordings[session].chunks
          /\ \A j \in 1 .. Len(recordings) : j # session => recordings'[j] = recordings[j]
      BY <2>1, <2>3, <2>4, FileEdit
    <2>6. \A j \in 1 .. Len(recordings) : j # None
      BY RelayAssumption
    <2>7. DOMAIN recordings = 1 .. Len(recordings) /\ DOMAIN recordings' = 1 .. Len(recordings)
      BY <2>5 DEF RelayTyped
    <2>8. CASE recordings[session].chunks > 0
      <3>1. f = "closed" /\ upload' = [of |-> session, attempt |-> 1]
        BY <2>3, <2>4, <2>8
      <3>2. upload' \in Uploads /\ upload'.of = session
        BY <2>1, <3>1 DEF Uploads
      <3>3. RecordingsClosed'
        BY <2>1, <2>4, <2>5, <2>6, <2>7, <2>8, <3>1, <3>2 DEF RecordingsClosed
      <3> QED  BY <2>1, <2>4, <2>5, <3>2, <3>3 DEF CaptureSound
    <2>9. CASE ~ (recordings[session].chunks > 0)
      <3>1. f = "removed" /\ upload' = None
        BY <2>3, <2>4, <2>9
      <3>2. RecordingsClosed'
        BY <2>1, <2>4, <2>5, <2>6, <2>7, <2>9, <3>1 DEF RecordingsClosed
      <3> QED  BY <2>4, <2>5, <3>1, <3>2 DEF CaptureSound
    <2> QED  BY <2>4, <2>8, <2>9
  <1> QED  BY <1>1, <1>2

LEMMA OpenSound ==
    ASSUME RelayTyped, RecordingsClosed, session = None, session' = Len(recordings) + 1,
           recordings' = Append(recordings, NewRecording), upload' = upload
    PROVE  CaptureSound'
  <1>1. NewRecording \in Recordings /\ NewRecording.file = "open"
    BY DEF NewRecording, Recordings
  <1>2. /\ recordings' \in Seq(Recordings) /\ Len(recordings') = Len(recordings) + 1
        /\ Len(recordings) \in Nat
        /\ \A j \in 1 .. Len(recordings) : recordings'[j] = recordings[j]
        /\ recordings'[Len(recordings) + 1] = NewRecording
    BY <1>1 DEF RelayTyped
  <1>3. DOMAIN recordings = 1 .. Len(recordings) /\ DOMAIN recordings' = 1 .. Len(recordings')
    BY <1>2 DEF RelayTyped
  <1>4. session' # None /\ \A j \in 1 .. Len(recordings) : j # None /\ j # session'
    BY <1>2, RelayAssumption
  <1>5. RecordingsClosed'
    <2>1. ASSUME NEW i \in 1 .. Len(recordings')
          PROVE  /\ (recordings'[i].file = "open") = (session' = i)
                 /\ recordings'[i].file \in {"closed", "stored"} => recordings'[i].chunks > 0
      <3>1. CASE i \in 1 .. Len(recordings)
        BY <1>2, <1>3, <1>4, <3>1 DEF RecordingsClosed
      <3>2. CASE i = Len(recordings) + 1
        BY <1>1, <1>2, <3>2
      <3> QED  BY <1>2, <3>1, <3>2
    <2>2. upload # None => upload.of \in 1 .. Len(recordings)
      BY DEF RelayTyped
    <2> QED  BY <1>2, <1>3, <1>4, <2>1, <2>2 DEF RecordingsClosed
  <1> QED  BY <1>2, <1>5 DEF CaptureSound, RelayTyped

LEMMA WriteSound ==
    ASSUME RelayTyped, RecordingsClosed, WriteChunk, UNCHANGED <<session, upload>>
    PROVE  CaptureSound'
  <1>1. CASE session = None
    <2>1. UNCHANGED captureVars
      BY <1>1 DEF WriteChunk, captureVars
    <2> QED  BY <2>1, SameCapture
  <1>2. CASE session # None
    <2>1. session \in 1 .. Len(recordings)
      BY <1>2 DEF RelayTyped
    <2>2. recordings' = [recordings EXCEPT ![session].chunks = @ + 1]
      BY <1>2 DEF WriteChunk
    <2>3. /\ recordings' \in Seq(Recordings) /\ Len(recordings') = Len(recordings)
          /\ recordings'[session].file = recordings[session].file
          /\ recordings'[session].chunks = recordings[session].chunks + 1
          /\ \A j \in 1 .. Len(recordings) : j # session => recordings'[j] = recordings[j]
      BY <2>1, <2>2, ChunkEdit
    <2>4. DOMAIN recordings = 1 .. Len(recordings) /\ DOMAIN recordings' = 1 .. Len(recordings)
      BY <2>3 DEF RelayTyped
    <2>5. recordings[session].chunks \in Nat
      BY <2>1, RecordingType
    <2>6. RecordingsClosed'
      BY <2>1, <2>3, <2>4, <2>5 DEF RecordingsClosed, RelayTyped
    <2> QED  BY <2>3, <2>6 DEF CaptureSound, RelayTyped
  <1> QED  BY <1>1, <1>2

LEMMA UploadSound ==
    ASSUME RelayTyped, RecordingsClosed, Upload
    PROVE  CaptureSound'
  <1>1. /\ upload # None /\ upload \in Uploads /\ upload.of \in 1 .. Len(recordings)
        /\ upload.attempt \in Nat /\ session' = session
    BY DEF Upload, RelayTyped, Uploads
  <1>2. CASE /\ upload' = None
             /\ recordings' = [recordings EXCEPT ![upload.of].file = "stored"]
    <2>1. /\ recordings' \in Seq(Recordings) /\ Len(recordings') = Len(recordings)
          /\ recordings'[upload.of].file = "stored"
          /\ recordings'[upload.of].chunks = recordings[upload.of].chunks
          /\ \A j \in 1 .. Len(recordings) : j # upload.of => recordings'[j] = recordings[j]
      BY <1>1, <1>2, FileEdit
    <2>2. DOMAIN recordings = 1 .. Len(recordings) /\ DOMAIN recordings' = 1 .. Len(recordings)
      BY <2>1 DEF RelayTyped
    <2>3. RecordingsClosed'
      BY <1>1, <1>2, <2>1, <2>2 DEF RecordingsClosed
    <2> QED  BY <1>1, <1>2, <2>1, <2>3 DEF CaptureSound, RelayTyped
  <1>3. CASE /\ UNCHANGED recordings
             /\ upload' = IF upload.attempt < MaxUploads
                          THEN [upload EXCEPT !.attempt = @ + 1] ELSE None
    <2>1. PICK n : n = upload.attempt + 1
      OBVIOUS
    <2>2. n \in Nat
      BY <1>1, <2>1
    <2>3. upload' = None \/ (upload' \in Uploads /\ upload'.of = upload.of)
      BY <1>1, <1>3, <2>1, <2>2 DEF Uploads
    <2>4. RecordingsClosed'
      BY <1>1, <1>3, <2>3 DEF RecordingsClosed
    <2> QED  BY <1>1, <1>3, <2>3, <2>4 DEF CaptureSound, RelayTyped
  <1> QED  BY <1>2, <1>3 DEF Upload

-----------------------------------------------------------------------------
(* The steps. *)

TaskTyped ==
    /\ dialling \in Nat /\ looping \in BOOLEAN /\ sunk \in BOOLEAN /\ analysis \in BOOLEAN
    /\ task \in Tasks /\ detector \in BOOLEAN
    /\ relayed \in Seq(Chunks) \cup {None} /\ (task # "none" => relayed # None)
    /\ task # "none" => starts # 0
    /\ inHand \in Texts \cup {None}
    /\ task \in {"transcribing", "detecting"} => inHand \in Texts
    /\ texts \in Seq(Words) /\ held \in BOOLEAN
    /\ starts \in Nat /\ onHold \in SUBSET (1 .. starts)

LEMMA RelayJoins ==
    /\ RelayInv => RelayTyped /\ TaskTyped /\ RecordingsClosed /\ SunkIsSilent /\ HoldHeard
    /\ TaskTyped' /\ CaptureSound' /\ SunkIsSilent' /\ HoldHeard' => RelayInv'
  BY DEF RelayInv, RelayTyped, TaskTyped, CaptureSound

\* A step that neither hears nor tells of anything.
LEMMA HoldKept ==
    ASSUME RelayInv, UNCHANGED <<texts, held, onHold, starts>>,
           relayDoubt \subseteq relayDoubt',
           dialling' = 0 /\ held => dialling = 0 \/ "earlier" \in relayDoubt',
           (task # "detecting" /\ task # "none") \/ task' = "none" \/ task' = task
    PROVE  HoldHeard'
  BY DEF RelayInv, HoldHeard, HoldTexts

LEMMA StartRelayStep ==
    ASSUME RelayInv, StartRelay
    PROVE  RelayInv'
  <1>1. RelayTyped /\ TaskTyped /\ RecordingsClosed /\ SunkIsSilent /\ HoldHeard
    BY RelayJoins
  <1>2. /\ ~ sunk /\ starts' = starts + 1
        /\ dialling' = dialling + 1 /\ looping' = TRUE
        /\ task' = "new" /\ relayed' = <<>> /\ inHand' = None /\ detector' = FALSE
        /\ UNCHANGED <<sunk, analysis, captureVars, holdVars, chunks, relayFaults, relayDoubt>>
    BY DEF StartRelay
  <1>3. <<>> \in Seq(Chunks) /\ <<>> # None
    <2>1. <<>> \in Seq(Chunks)
      OBVIOUS
    <2> QED  BY <2>1, RelayAssumption
  <1>4. starts' \in Nat /\ starts' # 0 /\ starts' \notin onHold /\ onHold \in SUBSET (1 .. starts')
        /\ dialling' \in Nat /\ dialling' # 0
    BY <1>1, <1>2 DEF TaskTyped
  <1>5. TaskTyped'
    BY <1>1, <1>2, <1>3, <1>4 DEF TaskTyped, holdVars, Tasks
  <1>6. CaptureSound'
    BY <1>1, <1>2, SameCapture
  <1>7. SunkIsSilent' /\ HoldHeard'
    BY <1>1, <1>2, <1>4 DEF SunkIsSilent, HoldHeard, holdVars
  <1> QED  BY <1>5, <1>6, <1>7, RelayJoins

LEMMA StartDoneStep ==
    ASSUME RelayInv, StartDone
    PROVE  RelayInv'
  <1>1. RelayTyped /\ TaskTyped /\ RecordingsClosed /\ SunkIsSilent /\ HoldHeard
    BY RelayJoins
  <1>2. /\ dialling > 0 /\ dialling' = dialling - 1 /\ held' = FALSE
        /\ relayDoubt' = IF starts \in onHold THEN relayDoubt \cup {"reset"} ELSE relayDoubt
        /\ UNCHANGED <<looping, sunk, analysis, taskVars, captureVars, texts, onHold, countVars>>
    BY DEF StartDone, RelayDoubt
  <1>3. TaskTyped'
    <2>1. dialling' \in Nat
      BY <1>1, <1>2 DEF TaskTyped
    <2> QED  BY <1>1, <1>2, <2>1 DEF TaskTyped, taskVars, countVars
  <1>4. CaptureSound' /\ session' = session
    BY <1>1, <1>2, SameCapture DEF captureVars
  <1>5. SunkIsSilent' /\ HoldHeard'
    BY <1>1, <1>2, <1>4 DEF SunkIsSilent, HoldHeard, taskVars, countVars
  <1> QED  BY <1>3, <1>4, <1>5, RelayJoins

LEMMA StartFailsStep ==
    ASSUME RelayInv, StartFails
    PROVE  RelayInv'
  <1>1. RelayTyped /\ TaskTyped /\ RecordingsClosed /\ SunkIsSilent /\ HoldHeard
    BY RelayJoins
  <1>2. /\ dialling > 0 /\ dialling' = dialling - 1 /\ looping' = FALSE /\ StopRelay
        /\ relayDoubt' = IF held THEN relayDoubt \cup {"earlier"} ELSE relayDoubt
        /\ UNCHANGED <<sunk, analysis, captureVars, holdVars, chunks, starts>>
    BY DEF StartFails, RelayDoubt
  <1>3. TaskTyped'
    <2>1. dialling' \in Nat
      BY <1>1, <1>2 DEF TaskTyped
    <2> QED  BY <1>1, <1>2, <2>1 DEF TaskTyped, holdVars, StopRelay, Tasks
  <1>4. CaptureSound' /\ session' = session
    BY <1>1, <1>2, SameCapture DEF captureVars
  <1>5. SunkIsSilent'
    BY <1>1, <1>2, <1>4 DEF SunkIsSilent, StopRelay
  <1>6. HoldHeard'
    BY <1>2, HoldKept DEF StopRelay, holdVars
  <1> QED  BY <1>3, <1>4, <1>5, <1>6, RelayJoins

LEMMA EndSteps ==
    ASSUME RelayInv, End \/ Sink
    PROVE  RelayInv'
  <1>1. RelayTyped /\ TaskTyped /\ RecordingsClosed /\ SunkIsSilent /\ HoldHeard
    BY RelayJoins
  <1>2. /\ StopRelay /\ Finalize
        /\ UNCHANGED <<dialling, analysis, holdVars, countVars>>
        /\ looping' \in BOOLEAN /\ sunk' \in BOOLEAN
    BY <1>1 DEF End, Sink, conferenceVars, TaskTyped
  <1>3. /\ CaptureSound' /\ relayDoubt \subseteq relayDoubt'
        /\ relayDoubt' \subseteq relayDoubt \cup {"left_open"}
        /\ "left_open" \notin relayDoubt' => session' = None
    BY <1>1, <1>2, FinalizeSound
  <1>4. TaskTyped'
    BY <1>1, <1>2 DEF TaskTyped, holdVars, countVars, StopRelay, Tasks
  <1>5. SunkIsSilent'
    BY <1>2, <1>3 DEF SunkIsSilent, StopRelay
  <1>6. HoldHeard'
    BY <1>2, <1>3, HoldKept DEF StopRelay, holdVars, countVars
  <1> QED  BY <1>3, <1>4, <1>5, <1>6, RelayJoins

LEMMA BeginStep ==
    ASSUME RelayInv, BeginTask
    PROVE  RelayInv'
  <1>1. RelayTyped /\ TaskTyped /\ RecordingsClosed /\ SunkIsSilent /\ HoldHeard
    BY RelayJoins
  <1>2. /\ task = "new"
        /\ UNCHANGED <<conferenceVars, inHand, detector, upload, holdVars, chunks, starts,
                       relayDoubt>>
        /\ \/ task' \in {"loading", "waiting"} /\ relayed' = relayed
           \/ task' = "none" /\ relayed' = None
    BY DEF BeginTask
  <1>3. TaskTyped'
    BY <1>1, <1>2 DEF TaskTyped, conferenceVars, holdVars, Tasks
  <1>4. CaptureSound'
    <2>1. CASE UNCHANGED <<session, recordings>>
      BY <1>1, <1>2, <2>1, SameCapture DEF captureVars
    <2>2. CASE ~ (UNCHANGED <<session, recordings>>)
      BY <1>1, <1>2, <2>2, OpenSound DEF BeginTask
    <2> QED  BY <2>1, <2>2
  <1>5. SunkIsSilent'
    BY <1>1, <1>2 DEF SunkIsSilent, conferenceVars
  <1>6. HoldHeard'
    BY <1>2, HoldKept DEF holdVars, conferenceVars
  <1> QED  BY <1>3, <1>4, <1>5, <1>6, RelayJoins

LEMMA LoadStep ==
    ASSUME RelayInv, Load
    PROVE  RelayInv'
  <1>1. RelayTyped /\ TaskTyped /\ RecordingsClosed /\ SunkIsSilent /\ HoldHeard
    BY RelayJoins
  <1>2. /\ task = "loading" /\ detector' \in BOOLEAN
        /\ UNCHANGED <<conferenceVars, inHand, captureVars, holdVars, chunks, starts, relayDoubt>>
        /\ \/ task' = "waiting" /\ relayed' = relayed
           \/ task' = "none" /\ relayed' = None
    BY DEF Load
  <1>3. TaskTyped'
    BY <1>1, <1>2 DEF TaskTyped, conferenceVars, holdVars, Tasks
  <1>4. CaptureSound'
    BY <1>1, <1>2, SameCapture
  <1>5. SunkIsSilent'
    BY <1>1, <1>2 DEF SunkIsSilent, conferenceVars
  <1>6. HoldHeard'
    BY <1>2, HoldKept DEF holdVars, conferenceVars
  <1> QED  BY <1>3, <1>4, <1>5, <1>6, RelayJoins

LEMMA ConsumeStep ==
    ASSUME RelayInv, Consume
    PROVE  RelayInv'
  <1>1. RelayTyped /\ TaskTyped /\ RecordingsClosed /\ SunkIsSilent /\ HoldHeard
    BY RelayJoins
  <1>2. /\ task = "waiting" /\ relayed # <<>> /\ relayed' = Tail(relayed) /\ WriteChunk
        /\ UNCHANGED <<conferenceVars, detector, session, upload, holdVars, countVars, relayDoubt>>
        /\ \/ /\ Head(relayed).segment # None /\ task' = "transcribing"
              /\ inHand' = Head(relayed).segment
           \/ UNCHANGED <<task, inHand>>
    BY DEF Consume
  <1>3. relayed \in Seq(Chunks) /\ relayed' \in Seq(Chunks) /\ Head(relayed) \in Chunks
    <2>1. relayed \in Seq(Chunks)
      BY <1>1, <1>2 DEF TaskTyped
    <2> QED  BY <1>2, <2>1
  <1>4. relayed' # None /\ Head(relayed).segment \in Texts \cup {None}
    BY <1>3, RelayAssumption
  <1>5. TaskTyped'
    BY <1>1, <1>2, <1>3, <1>4 DEF TaskTyped, conferenceVars, holdVars, countVars, Tasks
  <1>6. CaptureSound'
    BY <1>1, <1>2, WriteSound
  <1>7. SunkIsSilent'
    BY <1>1, <1>2 DEF SunkIsSilent, conferenceVars
  <1>8. HoldHeard'
    BY <1>2, HoldKept DEF holdVars, conferenceVars, countVars
  <1> QED  BY <1>5, <1>6, <1>7, <1>8, RelayJoins

LEMMA TranscribeStep ==
    ASSUME RelayInv, Transcribe
    PROVE  RelayInv'
  <1>1. RelayTyped /\ TaskTyped /\ RecordingsClosed /\ SunkIsSilent /\ HoldHeard
    BY RelayJoins
  <1>2. /\ task = "transcribing" /\ inHand \in Texts
        /\ UNCHANGED <<conferenceVars, detector, relayed, captureVars, held, starts, relayDoubt>>
    BY <1>1 DEF Transcribe, TaskTyped
  <1>3. CaptureSound'
    BY <1>1, <1>2, SameCapture
  <1>4. ASSUME task' \in {"detecting", "waiting"}
        PROVE  SunkIsSilent'
    BY <1>1, <1>2 DEF SunkIsSilent, conferenceVars
  <1>5. CASE task' = "waiting" /\ inHand' = None /\ UNCHANGED <<texts, onHold>>
    <2>1. TaskTyped'
      BY <1>1, <1>2, <1>5 DEF TaskTyped, conferenceVars, Tasks
    <2>2. HoldHeard'
      BY <1>2, <1>5, HoldKept DEF conferenceVars
    <2> QED  BY <1>3, <1>4, <1>5, <2>1, <2>2, RelayJoins
  <1>6. CASE /\ task' = "detecting" /\ UNCHANGED inHand
             /\ texts' = IF Len(texts) < Window
                         THEN Append(texts, [text |-> inHand, of |-> starts])
                         ELSE Append(Tail(texts), [text |-> inHand, of |-> starts])
             /\ onHold' = IF inHand = "hold" THEN onHold \cup {starts} ELSE onHold
    <2>1. PICK new : new = [text |-> inHand, of |-> starts]
      OBVIOUS
    <2>2. new \in Words /\ new.text = inHand /\ new.of = starts
      BY <1>1, <1>2, <2>1 DEF Words, TaskTyped
    <2>3. PICK old : old = IF Len(texts) < Window THEN texts ELSE Tail(texts)
      OBVIOUS
    <2>4. old \in Seq(Words) /\ \A i \in 1 .. Len(old) : \E j \in 1 .. Len(texts) : old[i] = texts[j]
      <3>1. texts \in Seq(Words) /\ Len(texts) \in Nat
        BY <1>1 DEF TaskTyped
      <3>2. CASE Len(texts) < Window
        BY <2>3, <3>1, <3>2
      <3>3. CASE ~ (Len(texts) < Window)
        <4>1. old = Tail(texts) /\ texts # <<>> /\ Len(texts) > 0
          BY <2>3, <3>1, <3>3, RelayAssumption
        <4>2. old \in Seq(Words) /\ Len(old) = Len(texts) - 1
              /\ \A i \in 1 .. Len(old) : old[i] = texts[i + 1] /\ i + 1 \in 1 .. Len(texts)
          BY <3>1, <4>1
        <4> QED  BY <4>2
      <3> QED  BY <3>2, <3>3
    <2>5. texts' = Append(old, new)
      BY <1>6, <2>1, <2>3
    <2>6. /\ texts' \in Seq(Words) /\ Len(texts') = Len(old) + 1 /\ Len(old) \in Nat
          /\ \A i \in 1 .. Len(old) : texts'[i] = old[i]
          /\ texts'[Len(old) + 1] = new
      BY <2>2, <2>4, <2>5
    <2>7. starts \in Nat \ {0} /\ onHold' \in SUBSET (1 .. starts)
      BY <1>1, <1>2, <1>6 DEF TaskTyped
    <2>8. TaskTyped'
      BY <1>1, <1>2, <1>6, <2>6, <2>7 DEF TaskTyped, conferenceVars, Tasks
    <2>9. HoldHeard'
      <3>1. \A i \in 1 .. Len(texts') : texts'[i].text = "hold" => texts'[i].of \in onHold'
        <4>1. ASSUME NEW i \in 1 .. Len(old), old[i].text = "hold"
              PROVE  old[i].of \in onHold'
          BY <1>1, <1>6, <2>4, <4>1 DEF HoldHeard
        <4>2. new.text = "hold" => new.of \in onHold'
          BY <1>6, <2>2
        <4> QED  BY <2>6, <4>1, <4>2
      <3>2. inHand = "hold" => HoldTexts' # {}
        <4>1. DOMAIN texts' = 1 .. Len(texts')
          BY <2>6
        <4> QED  BY <2>2, <2>6, <4>1 DEF HoldTexts
      <3>3. dialling = 0 /\ held => starts \in onHold' \/ "earlier" \in relayDoubt
        BY <1>1, <1>6 DEF HoldHeard
      <3>4. starts \in onHold' => \/ held \/ "reset" \in relayDoubt
                                  \/ HoldTexts' # {}
        BY <1>1, <1>2, <1>6, <3>2 DEF HoldHeard
      <3> QED  BY <1>2, <1>6, <3>1, <3>3, <3>4 DEF HoldHeard, conferenceVars
    <2> QED  BY <1>3, <1>4, <1>6, <2>8, <2>9, RelayJoins
  <1> QED  BY <1>5, <1>6 DEF Transcribe

LEMMA DetectStep ==
    ASSUME RelayInv, Detect
    PROVE  RelayInv'
  <1>1. RelayTyped /\ TaskTyped /\ RecordingsClosed /\ SunkIsSilent /\ HoldHeard
    BY RelayJoins
  <1>2. /\ task = "detecting" /\ task' = "waiting" /\ inHand' = None
        /\ held' = (held \/ HoldTexts # {})
        /\ relayDoubt' = IF HoldTexts # {} /\ \A i \in HoldTexts : texts[i].of # starts
                         THEN relayDoubt \cup {"earlier"} ELSE relayDoubt
        /\ UNCHANGED <<conferenceVars, detector, relayed, captureVars, texts, onHold, countVars>>
    BY DEF Detect, RelayDoubt
  <1>3. TaskTyped'
    BY <1>1, <1>2 DEF TaskTyped, conferenceVars, countVars, Tasks
  <1>4. CaptureSound' /\ session' = session
    BY <1>1, <1>2, SameCapture DEF captureVars
  <1>5. SunkIsSilent'
    BY <1>1, <1>2 DEF SunkIsSilent, conferenceVars
  <1>6. HoldHeard'
    <2>1. \A i \in HoldTexts : texts[i].of \in onHold
      BY <1>1 DEF HoldHeard, HoldTexts, TaskTyped
    <2>2. held' => held \/ starts \in onHold \/ "earlier" \in relayDoubt'
      BY <1>2, <2>1
    <2> QED  BY <1>1, <1>2, <2>2 DEF HoldHeard, conferenceVars, countVars
  <1> QED  BY <1>3, <1>4, <1>5, <1>6, RelayJoins

LEMMA DeliverStep ==
    ASSUME RelayInv, NEW c \in Chunks, Deliver(c)
    PROVE  RelayInv'
  <1>1. RelayTyped /\ TaskTyped /\ RecordingsClosed /\ SunkIsSilent /\ HoldHeard
    BY RelayJoins
  <1>2. /\ relayed # None
        /\ relayed' \in {relayed, Append(relayed, c)}
        /\ UNCHANGED <<conferenceVars, task, inHand, detector, captureVars, holdVars, starts,
                       relayDoubt>>
    BY DEF Deliver
  <1>3. relayed' \in Seq(Chunks) /\ relayed' # None
    <2>1. relayed \in Seq(Chunks)
      BY <1>1, <1>2 DEF TaskTyped
    <2>2. relayed' \in Seq(Chunks)
      BY <1>2, <2>1
    <2> QED  BY <2>2, RelayAssumption
  <1>4. TaskTyped'
    BY <1>1, <1>2, <1>3 DEF TaskTyped, conferenceVars, holdVars
  <1>5. CaptureSound'
    BY <1>1, <1>2, SameCapture
  <1>6. SunkIsSilent'
    BY <1>1, <1>2 DEF SunkIsSilent, conferenceVars
  <1>7. HoldHeard'
    BY <1>2, HoldKept DEF holdVars, conferenceVars
  <1> QED  BY <1>4, <1>5, <1>6, <1>7, RelayJoins

LEMMA UploadStep ==
    ASSUME RelayInv, Upload
    PROVE  RelayInv'
  <1>1. RelayTyped /\ TaskTyped /\ RecordingsClosed /\ SunkIsSilent /\ HoldHeard
    BY RelayJoins
  <1>2. UNCHANGED <<conferenceVars, taskVars, session, holdVars, chunks, starts, relayDoubt>>
    BY DEF Upload
  <1>3. TaskTyped'
    BY <1>1, <1>2 DEF TaskTyped, conferenceVars, holdVars, taskVars
  <1>4. CaptureSound'
    BY <1>1, UploadSound
  <1>5. SunkIsSilent'
    BY <1>1, <1>2 DEF SunkIsSilent, conferenceVars, taskVars
  <1>6. HoldHeard'
    BY <1>2, HoldKept DEF holdVars, conferenceVars, taskVars
  <1> QED  BY <1>3, <1>4, <1>5, <1>6, RelayJoins

LEMMA RelayStarts ==
    ASSUME RelayInit
    PROVE  RelayInv
  <1>1. /\ <<>> \in Seq(Recordings) /\ <<>> \in Seq(Words) /\ Len(<<>>) = 0
        /\ 1 .. 0 = {} /\ DOMAIN <<>> = {}
    OBVIOUS
  <1>2. analysis \in BOOLEAN
    BY RelayAssumption DEF RelayInit
  <1>3. RelayTyped
    <2>1. /\ recordings \in Seq(Recordings) /\ texts \in Seq(Words)
          /\ session = None /\ upload = None /\ onHold = {} /\ starts = 0
      BY <1>1 DEF RelayInit
    <2>2. /\ dialling = 0 /\ looping = FALSE /\ sunk = FALSE
          /\ task = "none" /\ inHand = None /\ detector = FALSE /\ relayed = None
          /\ held = FALSE
      BY DEF RelayInit
    <2> QED  BY <1>2, <2>1, <2>2 DEF RelayTyped, Tasks
  <1>4. RecordingsClosed /\ SunkIsSilent
    BY <1>1 DEF RelayInit, RecordingsClosed, SunkIsSilent
  <1>5. HoldHeard
    BY <1>1 DEF RelayInit, HoldHeard
  <1> QED  BY <1>3, <1>4, <1>5 DEF RelayInv

\* The inductive invariant holds in every state of the relay: besides the
\* property, that every text of the window that spoke of being on hold is known
\* of its start, and that a text of this start that spoke of it has raised the
\* flag, or will with the next step of the task, or was wiped by the reset.
THEOREM RelayInvariant == RelaySpec => []RelayInv
  <1>1. RelayInit => RelayInv
    BY RelayStarts
  <1>2. RelayInv /\ [RelayNext]_relayVars => RelayInv'
    <2> SUFFICES ASSUME RelayInv, [RelayNext]_relayVars
                 PROVE  RelayInv'
      OBVIOUS
    <2>1. CASE StartRelay \/ StartDone \/ StartFails \/ End \/ Sink
      BY <2>1, StartRelayStep, StartDoneStep, StartFailsStep, EndSteps
    <2>2. CASE BeginTask \/ Load \/ Consume \/ Transcribe \/ Detect
      BY <2>2, BeginStep, LoadStep, ConsumeStep, TranscribeStep, DetectStep
    <2>3. ASSUME NEW c \in Chunks, Deliver(c)
          PROVE  RelayInv'
      BY <2>3, DeliverStep
    <2>4. CASE Upload
      BY <2>4, UploadStep
    <2>5. CASE UNCHANGED relayVars
      <3>1. RelayTyped /\ TaskTyped /\ RecordingsClosed /\ SunkIsSilent
        BY RelayJoins
      <3>2. TaskTyped' /\ SunkIsSilent'
        BY <2>5, <3>1 DEF TaskTyped, SunkIsSilent, relayVars, conferenceVars, taskVars,
                          captureVars, holdVars, countVars
      <3>3. CaptureSound'
        BY <2>5, <3>1, SameCapture DEF relayVars
      <3>4. HoldHeard'
        BY <2>5, HoldKept DEF relayVars, conferenceVars, taskVars, holdVars, countVars
      <3> QED  BY <3>2, <3>3, <3>4, RelayJoins
    <2> QED  BY <2>1, <2>2, <2>3, <2>4, <2>5 DEF RelayNext
  <1> QED  BY <1>1, <1>2, PTL DEF RelaySpec

\* In every state, no recording is open that a later end would not close, what is
\* closed was heard, two uploads never share one, a conference that was sunk is
\* silent, and the flag says that calls are on hold exactly if a text said so.
THEOREM RelayKeepsWatch == RelaySpec => []RelayConsistent
  <1>1. RelayInv => RelayConsistent
    <2> SUFFICES ASSUME RelayInv
                 PROVE  RelayConsistent
      OBVIOUS
    <2>1. RelayTyped /\ RecordingsClosed /\ SunkIsSilent /\ HoldHeard
      BY RelayJoins
    <2>2. RelayTypeOK
      <3>1. recordings \in Seq(Recordings)
        BY <2>1 DEF RelayTyped
      <3>2. \A i \in 1 .. Len(recordings) :
               recordings[i].file \in {"open", "closed", "removed", "stored"}
        BY <2>1, RecordingType
      <3>3. DOMAIN recordings = 1 .. Len(recordings)
        BY <3>1
      <3> QED  BY <2>1, <3>2, <3>3 DEF RelayTyped, RelayTypeOK
    <2>3. HeldIsHeard
      BY <2>1 DEF HeldIsHeard, HoldHeard
    <2> QED  BY <2>1, <2>2, <2>3 DEF RelayConsistent
  <1> QED  BY <1>1, RelayInvariant, PTL

-----------------------------------------------------------------------------
(* Transcriber: all speech is in a segment, in its order.                  *)

SegmentsTyped ==
    /\ voiced \in Seq(BOOLEAN)
    /\ pre \in Seq(Nat) /\ segment \in Seq(Nat) /\ tail \in Seq(Nat)
    /\ active \in BOOLEAN
    /\ streak \in Nat /\ speech \in Nat /\ silence \in Nat
    /\ emitted \in Seq(Seq(Nat)) /\ dropped \in Seq(Seq(Nat))

(* The last frame that is not in what is being gathered now. *)
Behind ==
    IF active THEN Len(voiced) + Len(tail) - Len(segment) ELSE Len(voiced) - Len(pre)

(* The overlap is a piece without a gap, of the past. *)
TailWhole ==
    /\ Len(tail) \in {0, Overlap}
    /\ \A i \in 1 .. Len(tail) : /\ tail[i] = tail[1] + i - 1
                                /\ 1 <= tail[i] /\ tail[i] <= Behind

Past ==
    \A s \in ClosedSegments :
        1 <= Len(s) /\ \A i \in 1 .. Len(s) : 1 <= s[i] /\ s[i] <= Behind

(* The frames of s: the overlap, and then the last ones, up to frame n. *)
Follows(s, n) ==
    /\ Len(tail) <= Len(s) /\ Len(s) - Len(tail) <= n
    /\ \A i \in 1 .. Len(tail) : s[i] = tail[i]
    /\ \A i \in Len(tail) + 1 .. Len(s) : s[i] = n - Len(s) + i

VoicedOf(s) == {n \in FramesOf(s) : voiced[n]}

Waiting ==
    ~ active =>
        /\ segment = <<>>
        /\ Len(pre) <= PreFrames /\ Len(pre) <= Len(voiced)
        /\ \A i \in 1 .. Len(pre) : pre[i] = Len(voiced) - Len(pre) + i
        /\ streak <= Len(pre) /\ streak < StartFrames
        /\ \A k \in Len(voiced) - streak + 1 .. Len(voiced) : voiced[k]
        /\ \A m \in 0 .. Len(voiced) :
             (\A k \in Len(voiced) - m + 1 .. Len(voiced) : voiced[k] /\ k \notin SegmentEnds)
               => m <= streak

Speaking ==
    active =>
        /\ pre = <<>> /\ Follows(segment, Len(voiced))
        /\ Len(segment) < MaxSegment /\ silence < EndSilence
        /\ Len(tail) + StartFrames + silence <= Len(segment)
        /\ speech <= Cardinality(VoicedOf(segment))

(* What SegmentsInOrder says, of the segments that have ended. *)
InOrderAlone(s) ==
    /\ \A i \in 1 .. Len(s) - 1 :
         s[i] < s[i + 1] /\ (i # Overlap => s[i + 1] = s[i] + 1)
    /\ Len(s) <= MaxSegment
Share(s, t) == Cardinality(FramesOf(s) \cap FramesOf(t)) <= Overlap
ClosedInOrder ==
    /\ \A s \in ClosedSegments : InOrderAlone(s)
    /\ \A s, t \in ClosedSegments : s # t => Share(s, t)

SegmentsInv ==
    /\ SegmentsTyped /\ TailWhole /\ Past /\ Waiting /\ Speaking
    /\ ClosedInOrder /\ SpeechKept /\ EnoughSpeech

-----------------------------------------------------------------------------
(* Frames. *)

LEMMA SegmentBounds ==
    /\ StartFrames \in Nat /\ PreFrames \in Nat /\ MinSpeech \in Nat /\ EndSilence \in Nat
    /\ MaxSegment \in Nat /\ Overlap \in Nat /\ MaxFrames \in Nat
    /\ 0 < StartFrames /\ StartFrames <= PreFrames /\ 0 < EndSilence
    /\ Overlap + PreFrames < MaxSegment /\ 2 * Overlap <= MaxSegment
    /\ Overlap <= StartFrames + EndSilence
  BY SegmentsAssumption

LEMMA LastOnes ==
    ASSUME NEW s \in Seq(Nat), NEW n \in Nat
    PROVE  /\ LastFrames(s, n) \in Seq(Nat)
           /\ Len(LastFrames(s, n)) = Smaller(n, Len(s))
           /\ \A i \in 1 .. Len(LastFrames(s, n)) :
                LastFrames(s, n)[i] = s[Len(s) - Len(LastFrames(s, n)) + i]
  <1>1. PICK l : l = Smaller(n, Len(s))
    OBVIOUS
  <1>2. l \in Nat /\ l <= Len(s)
    BY <1>1 DEF Smaller
  <1>3. PICK m : m = Len(s) - l + 1
    OBVIOUS
  <1>4. m \in Int /\ Len(s) \in Int /\ \A i \in m .. Len(s) : s[i] \in Nat
    BY <1>2, <1>3
  <1>5. /\ SubSeq(s, m, Len(s)) \in Seq(Nat)
        /\ Len(SubSeq(s, m, Len(s))) = IF m <= Len(s) THEN Len(s) - m + 1 ELSE 0
        /\ \A i \in 1 .. Len(s) - m + 1 : SubSeq(s, m, Len(s))[i] = s[m + i - 1]
    BY <1>4, SubSeqProperties
  <1>6. LastFrames(s, n) = SubSeq(s, m, Len(s))
    BY <1>1, <1>3 DEF LastFrames
  <1>7. Len(SubSeq(s, m, Len(s))) = l /\ Len(s) - m + 1 = l
    BY <1>2, <1>3, <1>5
  <1>8. \A i \in 1 .. l : m + i - 1 = Len(s) - l + i
    BY <1>2, <1>3
  <1> QED  BY <1>1, <1>5, <1>6, <1>7, <1>8

LEMMA FramesIn ==
    ASSUME NEW s \in Seq(Nat)
    PROVE  /\ DOMAIN s = 1 .. Len(s)
           /\ \A x : x \in FramesOf(s) <=> \E i \in 1 .. Len(s) : x = s[i]
           /\ FramesOf(s) \subseteq Nat
  BY DEF FramesOf

LEMMA FramesFinite ==
    ASSUME NEW s \in Seq(Nat), NEW n \in Nat, \A i \in 1 .. Len(s) : s[i] <= n
    PROVE  IsFiniteSet(FramesOf(s))
  <1>1. FramesOf(s) \subseteq 0 .. n
    BY FramesIn
  <1>2. IsFiniteSet(0 .. n)
    BY FS_Interval
  <1> QED  BY <1>1, <1>2, FS_Subset

LEMMA Grows ==
    ASSUME NEW s \in Seq(Nat), NEW n \in Nat
    PROVE  /\ Append(s, n) \in Seq(Nat) /\ Len(Append(s, n)) = Len(s) + 1
           /\ \A i \in 1 .. Len(s) : Append(s, n)[i] = s[i]
           /\ Append(s, n)[Len(s) + 1] = n
           /\ FramesOf(Append(s, n)) = FramesOf(s) \cup {n}
  <1>1. /\ Append(s, n) \in Seq(Nat) /\ Len(Append(s, n)) = Len(s) + 1
        /\ \A i \in 1 .. Len(s) : Append(s, n)[i] = s[i]
        /\ Append(s, n)[Len(s) + 1] = n
    OBVIOUS
  <1>2. \A x : x \in FramesOf(Append(s, n)) <=> x \in FramesOf(s) \/ x = n
    <2>1. \A x : x \in FramesOf(Append(s, n)) <=>
                   \E i \in 1 .. Len(s) + 1 : x = Append(s, n)[i]
      <3>1. PICK t \in Seq(Nat) : t = Append(s, n)
        BY <1>1
      <3>2. \A x : x \in FramesOf(t) <=> \E i \in 1 .. Len(t) : x = t[i]
        BY FramesIn
      <3> QED  BY <1>1, <3>1, <3>2
    <2>2. \A i \in 1 .. Len(s) + 1 : i \in 1 .. Len(s) \/ i = Len(s) + 1
      OBVIOUS
    <2>3. \A i \in 1 .. Len(s) : i \in 1 .. Len(s) + 1
      OBVIOUS
    <2>4. Len(s) + 1 \in 1 .. Len(s) + 1
      OBVIOUS
    <2> QED  BY <1>1, <2>1, <2>2, <2>3, <2>4, FramesIn
  <1> QED  BY <1>1, <1>2

LEMMA OneMoreClosed ==
    ASSUME SegmentsTyped, NEW s \in Seq(Nat), NEW n \in Nat, TranscribeSegment(s, n)
    PROVE  /\ emitted' \in Seq(Seq(Nat)) /\ dropped' \in Seq(Seq(Nat))
           /\ ClosedSegments' = ClosedSegments \cup {s}
           /\ Elements(emitted)' \subseteq Elements(emitted) \cup (IF n < MinSpeech THEN {} ELSE {s})
  <1>1. ASSUME NEW ss \in Seq(Seq(Nat))
        PROVE  /\ Append(ss, s) \in Seq(Seq(Nat))
               /\ Elements(Append(ss, s)) = Elements(ss) \cup {s}
    <2>1. /\ Append(ss, s) \in Seq(Seq(Nat)) /\ Len(Append(ss, s)) = Len(ss) + 1
          /\ \A i \in 1 .. Len(ss) : Append(ss, s)[i] = ss[i]
          /\ Append(ss, s)[Len(ss) + 1] = s
      OBVIOUS
    <2>2. \A x : x \in Elements(Append(ss, s)) <=>
                   \E i \in 1 .. Len(ss) + 1 : x = Append(ss, s)[i]
      <3>1. PICK t \in Seq(Seq(Nat)) : t = Append(ss, s)
        BY <2>1
      <3>2. \A x : x \in Elements(t) <=> \E i \in 1 .. Len(t) : x = t[i]
        BY DEF Elements
      <3> QED  BY <2>1, <3>1, <3>2
    <2>3. \A x : x \in Elements(ss) <=> \E i \in 1 .. Len(ss) : x = ss[i]
      BY DEF Elements
    <2>4. /\ \A i \in 1 .. Len(ss) + 1 : i \in 1 .. Len(ss) \/ i = Len(ss) + 1
          /\ \A i \in 1 .. Len(ss) : i \in 1 .. Len(ss) + 1
          /\ Len(ss) + 1 \in 1 .. Len(ss) + 1
      OBVIOUS
    <2>5. \A x : x \in Elements(Append(ss, s)) <=> x \in Elements(ss) \/ x = s
      BY <2>1, <2>2, <2>3, <2>4
    <2> QED  BY <2>1, <2>5
  <1>2. CASE n < MinSpeech
    <2>1. dropped' = Append(dropped, s) /\ emitted' = emitted
      BY <1>2 DEF TranscribeSegment
    <2>2. Elements(dropped') = Elements(dropped) \cup {s}
      BY <1>1, <2>1 DEF SegmentsTyped
    <2> QED  BY <1>1, <2>1, <2>2 DEF SegmentsTyped, ClosedSegments, Elements
  <1>3. CASE ~ (n < MinSpeech)
    <2>1. emitted' = Append(emitted, s) /\ dropped' = dropped
      BY <1>3 DEF TranscribeSegment
    <2>2. Elements(emitted') = Elements(emitted) \cup {s}
      BY <1>1, <2>1 DEF SegmentsTyped
    <2> QED  BY <1>1, <1>3, <2>1, <2>2 DEF SegmentsTyped, ClosedSegments, Elements
  <1> QED  BY <1>2, <1>3

LEMMA ClosedType == SegmentsTyped => \A s \in ClosedSegments : s \in Seq(Nat)
  BY DEF SegmentsTyped, ClosedSegments, Elements

(* A segment that follows the overlap is in order, and shares with one that *)
(* has ended the overlap at most.                                           *)
LEMMA FollowingInOrder ==
    ASSUME SegmentsTyped, TailWhole, Past, NEW s \in Seq(Nat), NEW n \in Nat, Follows(s, n),
           Behind = n + Len(tail) - Len(s), Len(s) <= MaxSegment
    PROVE  /\ InOrderAlone(s)
           /\ \A t \in ClosedSegments : Share(s, t) /\ Share(t, s)
           /\ \A i \in 1 .. Len(s) : 1 <= s[i] /\ s[i] <= n
  <1> DEFINE o == Len(tail)
  <1>1. /\ o \in Nat /\ Len(s) \in Nat /\ o <= Len(s) /\ Len(s) - o <= n /\ Overlap \in Nat
        /\ o = 0 \/ o = Overlap
    BY SegmentBounds DEF Follows, SegmentsTyped, TailWhole
  <1>2. \A i \in 1 .. o : s[i] = tail[i] /\ tail[i] \in Nat
    BY DEF Follows, SegmentsTyped
  <1>3. \A i \in o + 1 .. Len(s) : s[i] = n - Len(s) + i
    BY DEF Follows
  <1>4. \A i \in 1 .. o : /\ tail[i] = tail[1] + i - 1
                          /\ 1 <= tail[i] /\ tail[i] <= n + o - Len(s)
    BY DEF TailWhole
  <1> HIDE DEF o
  <1>5. ASSUME NEW i \in 1 .. Len(s) - 1
        PROVE  s[i] < s[i + 1] /\ (i # Overlap => s[i + 1] = s[i] + 1)
    <2>1. CASE i + 1 <= o
      <3>1. i \in 1 .. o /\ i + 1 \in 1 .. o /\ 1 \in 1 .. o
        BY <1>1, <2>1
      <3>2. /\ s[i] = tail[1] + i - 1 /\ s[i + 1] = tail[1] + (i + 1) - 1
            /\ tail[1] \in Nat
        BY <1>2, <1>4, <3>1
      <3> QED  BY <3>2
    <2>2. CASE i = o
      <3>1. i \in 1 .. o /\ i + 1 \in o + 1 .. Len(s)
        BY <1>1, <2>2
      <3>2. s[i] <= n + o - Len(s) /\ s[i] \in Nat /\ s[i + 1] = n - Len(s) + (i + 1)
        BY <1>2, <1>3, <1>4, <3>1
      <3> QED  BY <1>1, <2>2, <3>2
    <2>3. CASE i > o
      <3>1. i \in o + 1 .. Len(s) /\ i + 1 \in o + 1 .. Len(s)
        BY <1>1, <2>3
      <3>2. s[i] = n - Len(s) + i /\ s[i + 1] = n - Len(s) + (i + 1)
        BY <1>3, <3>1
      <3> QED  BY <1>1, <3>2
    <2> QED  BY <1>1, <2>1, <2>2, <2>3
  <1>6. ASSUME NEW i \in 1 .. Len(s)
        PROVE  1 <= s[i] /\ s[i] <= n
    <2>1. CASE i <= o
      <3>1. i \in 1 .. o
        BY <1>1, <2>1
      <3>2. s[i] \in Nat /\ 1 <= s[i] /\ s[i] <= n + o - Len(s)
        BY <1>2, <1>4, <3>1
      <3> QED  BY <1>1, <3>2
    <2>2. CASE i > o
      <3>1. i \in o + 1 .. Len(s)
        BY <1>1, <2>2
      <3>2. s[i] = n - Len(s) + i
        BY <1>3, <3>1
      <3> QED  BY <1>1, <2>2, <3>2
    <2> QED  BY <1>1, <2>1, <2>2
  <1>7. ASSUME NEW t \in ClosedSegments
        PROVE  Share(s, t) /\ Share(t, s)
    <2> DEFINE a == IF o = 0 THEN 0 ELSE tail[1]
               b == a + o - 1
               X == FramesOf(s) \cap FramesOf(t)
    <2>1. a \in Nat /\ \A i \in 1 .. o : tail[i] = a + i - 1
      <3>1. CASE o = 0
        BY <3>1
      <3>2. CASE o # 0
        <4>1. 1 \in 1 .. o
          BY <1>1, <3>2
        <4> QED  BY <1>2, <1>4, <3>2, <4>1
      <3> QED  BY <3>1, <3>2
    <2> HIDE DEF a
    <2>2. ASSUME NEW x \in X
          PROVE  x \in a .. b
      <3>1. PICK i \in 1 .. Len(s) : x = s[i]
        BY <2>2, FramesIn
      <3>2. t \in Seq(Nat) /\ x \in FramesOf(t)
        BY <1>7, <2>2, ClosedType
      <3>3. PICK j \in 1 .. Len(t) : x = t[j]
        BY <3>2, FramesIn
      <3>4. x <= n + o - Len(s) /\ x \in Nat
        BY <1>7, <3>2, <3>3 DEF Past, o
      <3>5. i <= o
        <4>1. i > o => s[i] = n - Len(s) + i
          BY <1>1, <1>3
        <4> QED  BY <1>1, <3>1, <3>4, <4>1
      <3>6. i \in 1 .. o
        BY <1>1, <3>5
      <3>7. x = a + i - 1
        BY <1>2, <2>1, <3>1, <3>6
      <3> QED  BY <1>1, <2>1, <3>6, <3>7
    <2>3. X \in SUBSET (a .. b)
      BY <2>2
    <2>4. a \in Int /\ b \in Int
      BY <1>1, <2>1
    <2>5. IsFiniteSet(a .. b) /\ Cardinality(a .. b) = IF a > b THEN 0 ELSE b - a + 1
      BY <2>4, FS_Interval
    <2>6. Cardinality(a .. b) <= Overlap /\ Cardinality(a .. b) \in Nat
      BY <1>1, <2>1, <2>5
    <2> HIDE DEF X, b
    <2>7. IsFiniteSet(X) /\ Cardinality(X) <= Cardinality(a .. b) /\ Cardinality(X) \in Nat
      BY <2>3, <2>5, FS_Subset, FS_CardinalityType
    <2>8. Cardinality(X) <= Overlap
      BY <1>1, <2>6, <2>7
    <2>9. FramesOf(t) \cap FramesOf(s) = FramesOf(s) \cap FramesOf(t)
      OBVIOUS
    <2> QED  BY <2>8, <2>9 DEF Share, X
  <1> QED  BY <1>5, <1>6, <1>7 DEF InOrderAlone

-----------------------------------------------------------------------------
(* A frame. *)

\* One more frame has arrived.
Arrives(isVoiced) ==
    /\ voiced' \in Seq(BOOLEAN) /\ Len(voiced') = Len(voiced) + 1
    /\ \A k \in 1 .. Len(voiced) : voiced'[k] = voiced[k]
    /\ voiced'[Len(voiced) + 1] = isVoiced

LEMMA FrameArrives ==
    ASSUME SegmentsTyped, NEW v \in BOOLEAN, ConsumeFrame(v)
    PROVE  Arrives(v) /\ (Wait(Len(voiced) + 1, v) \/ Extend(Len(voiced) + 1, v))
  <1>1. voiced' = Append(voiced, v) /\ voiced \in Seq(BOOLEAN)
    BY DEF ConsumeFrame, SegmentsTyped
  <1>2. Arrives(v)
    BY <1>1 DEF Arrives
  <1> QED  BY <1>2 DEF ConsumeFrame, Arrives

\* Speech that was in a segment stays in one, and so does that of a run which
\* ends now if the frame is put into one with the run.
LEMMA RunsKept ==
    ASSUME SegmentsTyped, SpeechKept, NEW v \in BOOLEAN, Arrives(v),
           ClosedSegments \subseteq ClosedSegments',
           \A k \in FramesOf(segment) :
              \E s \in (ClosedSegments \cup {segment})' : k \in FramesOf(s),
           /\ StartFrames <= Len(voiced) + 1 /\ v
           /\ \A k \in Len(voiced) + 2 - StartFrames .. Len(voiced) :
                voiced[k] /\ k \notin SegmentEnds
           => \A k \in Len(voiced) + 2 - StartFrames .. Len(voiced) + 1 :
                \E s \in (ClosedSegments \cup {segment})' : k \in FramesOf(s)
    PROVE  SpeechKept'
  <1> DEFINE n == Len(voiced) + 1
  <1>1. /\ Len(voiced') = n /\ n \in Nat /\ Len(voiced) = n - 1 /\ StartFrames \in Nat
        /\ 0 < StartFrames /\ DOMAIN voiced' = 1 .. n /\ DOMAIN voiced = 1 .. n - 1
        /\ \A k \in 1 .. n - 1 : voiced'[k] = voiced[k]
        /\ voiced'[n] = v
    BY SegmentBounds DEF SegmentsTyped, Arrives
  <1>2. SegmentEnds \subseteq SegmentEnds'
    BY DEF SegmentEnds
  <1> HIDE DEF n
  <1> SUFFICES ASSUME NEW i \in 1 .. n, IsRun(i, StartFrames)',
                      NEW k \in i .. i + StartFrames - 1
               PROVE  \E s \in (ClosedSegments \cup {segment})' : k \in FramesOf(s)
    BY <1>1 DEF SpeechKept
  <1>3. /\ i + StartFrames - 1 <= n
        /\ \A j \in i .. i + StartFrames - 1 : voiced'[j]
        /\ \A j \in i .. i + StartFrames - 2 : j \notin SegmentEnds'
    BY <1>1 DEF IsRun
  <1>4. CASE i + StartFrames - 1 <= n - 1
    <2>1. IsRun(i, StartFrames) /\ i \in 1 .. n - 1
      <3>1. \A j \in i .. i + StartFrames - 1 : j \in 1 .. n - 1
        BY <1>1, <1>4
      <3>2. i \in 1 .. n - 1
        BY <1>1, <1>4
      <3> QED  BY <1>1, <1>2, <1>3, <1>4, <3>1, <3>2 DEF IsRun
    <2>2. PICK s \in ClosedSegments \cup {segment} : k \in FramesOf(s)
      BY <1>1, <2>1 DEF SpeechKept
    <2> QED  BY <2>2
  <1>5. CASE i + StartFrames - 1 = n
    <2>1. i = n + 1 - StartFrames /\ StartFrames <= n /\ n \in i .. i + StartFrames - 1
      BY <1>1, <1>5
    <2>2. v
      BY <1>1, <1>3, <2>1
    <2>3. ASSUME NEW j \in Len(voiced) + 2 - StartFrames .. Len(voiced)
          PROVE  voiced[j] /\ j \notin SegmentEnds
      <3>1. j \in 1 .. n - 1 /\ j \in i .. i + StartFrames - 1 /\ j \in i .. i + StartFrames - 2
        BY <1>1, <2>1
      <3> QED  BY <1>1, <1>2, <1>3, <3>1
    <2>4. k \in Len(voiced) + 2 - StartFrames .. Len(voiced) + 1
      BY <1>1, <2>1
    <2>5. StartFrames <= Len(voiced) + 1
      BY <1>1, <2>1
    <2> QED  BY <2>2, <2>3, <2>4, <2>5
  <1> QED  BY <1>1, <1>3, <1>4, <1>5

\* What has been sent has as much speech as it had.
LEMMA SentStays ==
    ASSUME SegmentsTyped, Past, Behind <= Len(voiced), NEW v \in BOOLEAN, Arrives(v),
           NEW s \in ClosedSegments
    PROVE  VoicedOf(s)' = VoicedOf(s)
  <1>1. s \in Seq(Nat)
    BY ClosedType
  <1>2. \A i \in 1 .. Len(s) : 1 <= s[i] /\ s[i] <= Behind
    BY DEF Past
  <1>3. Behind \in Int /\ Len(voiced) \in Nat
    BY DEF Behind, SegmentsTyped
  <1>4. \A x \in FramesOf(s) : x \in 1 .. Len(voiced)
    <2> SUFFICES ASSUME NEW x \in FramesOf(s)
                 PROVE  x \in 1 .. Len(voiced)
      OBVIOUS
    <2>1. PICK i \in 1 .. Len(s) : x = s[i]
      BY <1>1, FramesIn
    <2>2. x \in Nat
      BY <1>1, FramesIn
    <2> QED  BY <1>2, <1>3, <2>1, <2>2
  <1>5. \A x \in FramesOf(s) : voiced'[x] = voiced[x]
    BY <1>4 DEF Arrives
  <1> QED  BY <1>5 DEF VoicedOf, FramesOf

LEMMA BehindIsPast ==
    ASSUME SegmentsInv
    PROVE  Behind \in Nat /\ Behind <= Len(voiced)
  <1>1. CASE active
    <2>1. Follows(segment, Len(voiced))
      BY <1>1 DEF SegmentsInv, Speaking
    <2> QED  BY <1>1, <2>1 DEF SegmentsInv, SegmentsTyped, Behind, Follows
  <1>2. CASE ~ active
    BY <1>2 DEF SegmentsInv, SegmentsTyped, Behind, Waiting
  <1> QED  BY <1>1, <1>2

-----------------------------------------------------------------------------
(* Before a segment. *)

LEMMA Keeps ==
    ASSUME SegmentsInv, ~ active, NEW n, n = Len(voiced) + 1
    PROVE  LET kept == LastFrames(Append(pre, n), PreFrames)
           IN  /\ kept \in Seq(Nat) /\ Len(kept) \in Nat /\ Len(kept) <= PreFrames
               /\ streak + 1 <= Len(kept) /\ Len(kept) <= Len(pre) + 1 /\ Len(kept) <= n
               /\ \A i \in 1 .. Len(kept) : kept[i] = n - Len(kept) + i
  <1>1. /\ pre \in Seq(Nat) /\ Len(voiced) \in Nat /\ n \in Nat /\ streak \in Nat
        /\ Len(pre) \in Nat
    BY DEF SegmentsInv, SegmentsTyped
  <1>2. /\ Len(pre) <= PreFrames /\ Len(pre) <= Len(voiced)
        /\ \A i \in 1 .. Len(pre) : pre[i] = Len(voiced) - Len(pre) + i
        /\ streak <= Len(pre) /\ streak < StartFrames
    BY DEF SegmentsInv, Waiting
  <1>3. PICK p : p = Append(pre, n)
    OBVIOUS
  <1>4. /\ p \in Seq(Nat) /\ Len(p) = Len(pre) + 1
        /\ \A i \in 1 .. Len(pre) : p[i] = pre[i]
        /\ p[Len(pre) + 1] = n
    BY <1>1, <1>3, Grows
  <1>5. \A i \in 1 .. Len(p) : p[i] = n - Len(p) + i
    <2> SUFFICES ASSUME NEW i \in 1 .. Len(p)
                 PROVE  p[i] = n - Len(p) + i
      OBVIOUS
    <2>1. CASE i \in 1 .. Len(pre)
      BY <1>1, <1>2, <1>4, <2>1
    <2>2. CASE i = Len(pre) + 1
      BY <1>1, <1>4, <2>2
    <2> QED  BY <1>1, <1>4, <2>1, <2>2
  <1>6. PICK kept : kept = LastFrames(p, PreFrames)
    OBVIOUS
  <1>7. /\ kept \in Seq(Nat) /\ Len(kept) = Smaller(PreFrames, Len(p))
        /\ \A i \in 1 .. Len(kept) : kept[i] = p[Len(p) - Len(kept) + i]
    BY <1>4, <1>6, LastOnes, SegmentBounds
  <1>8. /\ Len(kept) \in Nat /\ Len(kept) <= PreFrames /\ Len(kept) <= Len(p)
        /\ streak + 1 <= Len(kept)
    BY <1>1, <1>2, <1>4, <1>7, SegmentBounds DEF Smaller
  <1>9. ASSUME NEW i \in 1 .. Len(kept)
        PROVE  kept[i] = n - Len(kept) + i
    <2>1. Len(p) - Len(kept) + i \in 1 .. Len(p)
      BY <1>4, <1>8
    <2>2. p[Len(p) - Len(kept) + i] = n - Len(p) + (Len(p) - Len(kept) + i)
      BY <1>5, <2>1
    <2>3. n - Len(p) + (Len(p) - Len(kept) + i) = n - Len(kept) + i
      BY <1>1, <1>4, <1>8
    <2> QED  BY <1>7, <2>2, <2>3
  <1>10. Len(kept) <= Len(pre) + 1 /\ Len(kept) <= n
    BY <1>1, <1>2, <1>4, <1>8
  <1> QED  BY <1>3, <1>6, <1>7, <1>8, <1>9, <1>10

LEMMA PastStays ==
    ASSUME SegmentsInv, UNCHANGED <<tail, emitted, dropped>>, Behind' \in Nat, Behind <= Behind'
    PROVE  TailWhole' /\ Past' /\ ClosedInOrder' /\ ClosedSegments' = ClosedSegments
  <1>1. ClosedSegments' = ClosedSegments
    BY DEF ClosedSegments, Elements
  <1>2. Behind \in Nat
    BY BehindIsPast
  <1>3. TailWhole'
    <2>1. \A i \in 1 .. Len(tail) : tail[i] \in Nat
      BY DEF SegmentsInv, SegmentsTyped
    <2> QED  BY <1>2, <2>1 DEF SegmentsInv, TailWhole
  <1>4. Past'
    <2>1. \A s \in ClosedSegments : \A i \in 1 .. Len(s) : s[i] \in Nat
      BY ClosedType DEF SegmentsInv
    <2> QED  BY <1>1, <1>2, <2>1 DEF SegmentsInv, Past
  <1>5. ClosedInOrder'
    BY <1>1 DEF SegmentsInv, ClosedInOrder, InOrderAlone, Share, FramesOf
  <1> QED  BY <1>1, <1>3, <1>4, <1>5

LEMMA SentOnly ==
    ASSUME SegmentsInv, NEW v \in BOOLEAN, Arrives(v), UNCHANGED <<emitted, dropped>>
    PROVE  EnoughSpeech'
  <1>1. /\ SegmentsTyped /\ Past /\ Behind <= Len(voiced) /\ Elements(emitted') = Elements(emitted)
        /\ Elements(emitted) \subseteq ClosedSegments
    BY BehindIsPast DEF SegmentsInv, ClosedSegments
  <1>2. \A s \in Elements(emitted) : VoicedOf(s)' = VoicedOf(s)
    BY <1>1, SentStays
  <1>3. \A s \in Elements(emitted) : Cardinality(VoicedOf(s)) >= MinSpeech
    BY DEF SegmentsInv, EnoughSpeech, VoicedOf
  <1>4. \A s \in Elements(emitted') : Cardinality(VoicedOf(s)') >= MinSpeech
    BY <1>1, <1>2, <1>3
  <1> QED  BY <1>4 DEF EnoughSpeech, VoicedOf, FramesOf

LEMMA WaitOn ==
    ASSUME SegmentsInv, NEW v \in BOOLEAN, Arrives(v), Wait(Len(voiced) + 1, v), ~ active'
    PROVE  SegmentsInv'
  <1> DEFINE n == Len(voiced) + 1
             row == IF v THEN streak + 1 ELSE 0
  <1>1. PICK kept : kept = LastFrames(Append(pre, n), PreFrames)
    OBVIOUS
  <1>2. /\ ~ active /\ streak' = row /\ ~ (row >= StartFrames) /\ pre' = kept
        /\ UNCHANGED <<segment, speech, silence, tail, emitted, dropped>>
    BY <1>1 DEF Wait
  <1>3. /\ kept \in Seq(Nat) /\ Len(kept) \in Nat /\ Len(kept) <= PreFrames
        /\ streak + 1 <= Len(kept) /\ Len(kept) <= Len(pre) + 1 /\ Len(kept) <= n
        /\ \A i \in 1 .. Len(kept) : kept[i] = n - Len(kept) + i
    BY <1>1, <1>2, Keeps
  <1>4. /\ Len(voiced') = n /\ n \in Nat /\ Len(voiced) = n - 1 /\ Len(voiced) \in Nat
        /\ \A k \in 1 .. n - 1 : voiced'[k] = voiced[k]
        /\ voiced'[n] = v /\ Len(pre) \in Nat /\ streak \in Nat /\ voiced' \in Seq(BOOLEAN)
    BY DEF SegmentsInv, SegmentsTyped, Arrives
  <1>5. active' = FALSE
    BY DEF Wait
  <1>6. SegmentsTyped'
    <2>1. row \in Nat
      BY <1>4
    <2> HIDE DEF row
    <2> QED  BY <1>2, <1>3, <1>4, <1>5, <2>1 DEF SegmentsInv, SegmentsTyped
  <1>7. row \in Nat /\ row <= streak + 1 /\ row < StartFrames /\ StartFrames \in Nat
    BY <1>2, <1>4, SegmentBounds
  <1>8. Behind = Len(voiced) - Len(pre) /\ Behind' = n - Len(kept)
    BY <1>2, <1>4, <1>5 DEF Behind
  <1>9. Behind' \in Nat /\ Behind <= Behind'
    BY <1>3, <1>4, <1>8
  <1>10. TailWhole' /\ Past' /\ ClosedInOrder' /\ ClosedSegments' = ClosedSegments
    BY <1>2, <1>9, PastStays
  <1>11. /\ segment = <<>>
         /\ \A k \in n - streak .. n - 1 : voiced[k]
         /\ \A m \in 0 .. n - 1 :
              (\A k \in n - m .. n - 1 : voiced[k] /\ k \notin SegmentEnds) => m <= streak
    <2>1. /\ segment = <<>>
          /\ \A k \in Len(voiced) - streak + 1 .. Len(voiced) : voiced[k]
          /\ \A m \in 0 .. Len(voiced) :
               (\A k \in Len(voiced) - m + 1 .. Len(voiced) : voiced[k] /\ k \notin SegmentEnds)
                 => m <= streak
      BY <1>2 DEF SegmentsInv, Waiting
    <2>2. Len(voiced) - streak + 1 = n - streak
      BY <1>4
    <2>3. \A m \in 0 .. n - 1 : Len(voiced) - m + 1 = n - m
      BY <1>4
    <2> QED  BY <1>4, <2>1, <2>2, <2>3
  <1>12. SegmentEnds' = SegmentEnds
    BY <1>10 DEF SegmentEnds
  <1> HIDE DEF n
  <1>13. \A k \in n - row + 1 .. n : voiced'[k]
    <2> SUFFICES ASSUME NEW k \in n - row + 1 .. n
                 PROVE  voiced'[k]
      OBVIOUS
    <2>1. v /\ row = streak + 1
      BY <1>4
    <2>2. CASE k = n
      BY <1>4, <2>1, <2>2
    <2>3. CASE k # n
      <3>1. k \in n - streak .. n - 1 /\ k \in 1 .. n - 1
        BY <1>3, <1>4, <2>1, <2>3
      <3> QED  BY <1>4, <1>11, <3>1
    <2> QED  BY <2>2, <2>3
  <1>14. ASSUME NEW m \in 0 .. n,
                \A k \in n - m + 1 .. n : voiced'[k] /\ k \notin SegmentEnds
         PROVE  m <= row
    <2>1. CASE m = 0
      BY <1>7, <2>1
    <2>2. CASE m # 0
      <3>1. n \in n - m + 1 .. n /\ m - 1 \in 0 .. n - 1
        BY <1>4, <2>2
      <3>2. v
        BY <1>4, <1>14, <3>1
      <3>3. ASSUME NEW k \in n - (m - 1) .. n - 1
            PROVE  voiced[k] /\ k \notin SegmentEnds
        <4>1. k \in n - m + 1 .. n /\ k \in 1 .. n - 1
          BY <1>4, <3>1
        <4> QED  BY <1>4, <1>14, <4>1
      <3>4. m - 1 <= streak
        BY <1>11, <3>1, <3>3
      <3> QED  BY <1>4, <3>2, <3>4
    <2> QED  BY <2>1, <2>2
  <1>15. Waiting'
    <2> HIDE DEF row
    <2>1. row <= Len(kept)
      BY <1>3, <1>4, <1>7
    <2> QED  BY <1>2, <1>3, <1>4, <1>7, <1>11, <1>12, <1>13, <1>14, <2>1 DEF Waiting
  <1>16. Speaking'
    BY <1>5 DEF Speaking
  <1>17. EnoughSpeech'
    BY <1>2, SentOnly
  <1>18. ASSUME StartFrames <= Len(voiced) + 1, v,
                \A k \in Len(voiced) + 2 - StartFrames .. Len(voiced) :
                   voiced[k] /\ k \notin SegmentEnds
         PROVE  FALSE
    <2>1. StartFrames - 1 \in 0 .. n - 1
      BY <1>4, <1>18, SegmentBounds
    <2>2. Len(voiced) + 2 - StartFrames = n - (StartFrames - 1)
      BY <1>4, <1>7
    <2>3. StartFrames - 1 <= streak
      BY <1>4, <1>11, <1>18, <2>1, <2>2
    <2> QED  BY <1>4, <1>7, <1>18, <2>3
  <1>19. SpeechKept'
    <2>1. SegmentsTyped /\ SpeechKept
      BY DEF SegmentsInv
    <2>2. \A k \in FramesOf(segment) :
            \E s \in (ClosedSegments \cup {segment})' : k \in FramesOf(s)
      BY <1>2
    <2> QED  BY <1>10, <1>18, <2>1, <2>2, RunsKept
  <1> QED  BY <1>6, <1>10, <1>15, <1>16, <1>17, <1>19 DEF SegmentsInv

LEMMA Joins ==
    ASSUME NEW s \in Seq(Nat), NEW t \in Seq(Nat)
    PROVE  /\ s \o t \in Seq(Nat) /\ Len(s \o t) = Len(s) + Len(t)
           /\ \A i \in 1 .. Len(s) : (s \o t)[i] = s[i]
           /\ \A i \in Len(s) + 1 .. Len(s) + Len(t) : (s \o t)[i] = t[i - Len(s)]
  OBVIOUS

LEMMA Begins ==
    ASSUME SegmentsInv, NEW v \in BOOLEAN, Arrives(v), Wait(Len(voiced) + 1, v), active'
    PROVE  SegmentsInv'
  <1> DEFINE n == Len(voiced) + 1
             row == IF v THEN streak + 1 ELSE 0
  <1>1. PICK kept : kept = LastFrames(Append(pre, n), PreFrames)
    OBVIOUS
  <1>2. /\ ~ active /\ streak' = row /\ row >= StartFrames /\ pre' = <<>>
        /\ segment' = tail \o kept /\ speech' = row /\ silence' = 0
        /\ UNCHANGED <<tail, emitted, dropped>>
    BY <1>1 DEF Wait
  <1>3. /\ kept \in Seq(Nat) /\ Len(kept) \in Nat /\ Len(kept) <= PreFrames
        /\ streak + 1 <= Len(kept) /\ Len(kept) <= Len(pre) + 1 /\ Len(kept) <= n
        /\ \A i \in 1 .. Len(kept) : kept[i] = n - Len(kept) + i
    BY <1>1, <1>2, Keeps
  <1>4. /\ Len(voiced') = n /\ n \in Nat /\ Len(voiced) = n - 1 /\ Len(voiced) \in Nat
        /\ \A k \in 1 .. n - 1 : voiced'[k] = voiced[k]
        /\ voiced'[n] = v /\ Len(pre) \in Nat /\ streak \in Nat /\ voiced' \in Seq(BOOLEAN)
        /\ tail \in Seq(Nat) /\ Len(tail) \in Nat
    BY DEF SegmentsInv, SegmentsTyped, Arrives
  <1>5. active' = TRUE
    BY DEF Wait
  <1>6. /\ segment' \in Seq(Nat) /\ Len(segment') = Len(tail) + Len(kept)
        /\ \A i \in 1 .. Len(tail) : segment'[i] = tail[i]
        /\ \A i \in Len(tail) + 1 .. Len(tail) + Len(kept) : segment'[i] = kept[i - Len(tail)]
    BY <1>2, <1>3, <1>4, Joins
  <1>7. /\ row = streak + 1 /\ v /\ row <= Len(kept) /\ row \in Nat /\ StartFrames \in Nat
        /\ StartFrames <= row /\ 0 < StartFrames
    BY <1>2, <1>3, <1>4, SegmentBounds
  <1>8. SegmentsTyped'
    <2> HIDE DEF row
    <2> QED  BY <1>2, <1>4, <1>5, <1>6, <1>7 DEF SegmentsInv, SegmentsTyped
  <1>9. Behind = Len(voiced) - Len(pre) /\ Behind' = n - Len(kept)
    BY <1>2, <1>3, <1>4, <1>5, <1>6 DEF Behind
  <1>10. Behind' \in Nat /\ Behind <= Behind'
    BY <1>3, <1>4, <1>9
  <1>11. TailWhole' /\ Past' /\ ClosedInOrder' /\ ClosedSegments' = ClosedSegments
    BY <1>2, <1>10, PastStays
  <1>12. segment = <<>> /\ \A k \in Len(voiced) - streak + 1 .. Len(voiced) : voiced[k]
    BY <1>2 DEF SegmentsInv, Waiting
  <1> HIDE DEF n, row
  <1>13. \A i \in Len(tail) + 1 .. Len(segment') : segment'[i] = n - Len(segment') + i
    <2> SUFFICES ASSUME NEW i \in Len(tail) + 1 .. Len(segment')
                 PROVE  segment'[i] = n - Len(segment') + i
      OBVIOUS
    <2>1. i - Len(tail) \in 1 .. Len(kept)
      BY <1>3, <1>4, <1>6
    <2>2. segment'[i] = n - Len(kept) + (i - Len(tail))
      BY <1>3, <1>6, <2>1
    <2> QED  BY <1>3, <1>4, <1>6, <2>2
  <1>14. Follows(segment, Len(voiced))'
    BY <1>2, <1>3, <1>4, <1>6, <1>13 DEF Follows
  <1>15. ASSUME NEW k \in n - Len(kept) + 1 .. n
         PROVE  k \in FramesOf(segment')
    <2> DEFINE i == k - n + Len(segment')
    <2>1. i \in Len(tail) + 1 .. Len(segment') /\ i \in 1 .. Len(segment')
      BY <1>3, <1>4, <1>6
    <2>2. segment'[i] = n - Len(segment') + i /\ n - Len(segment') + i = k
      <3>1. n - Len(segment') + i = k
        BY <1>3, <1>4, <1>6
      <3> HIDE DEF i
      <3> QED  BY <1>13, <2>1, <3>1
    <2> QED  BY <1>6, <2>1, <2>2, FramesIn
  <1>16. \A k \in n - row + 1 .. n : voiced'[k]
    <2> SUFFICES ASSUME NEW k \in n - row + 1 .. n
                 PROVE  voiced'[k]
      OBVIOUS
    <2>1. CASE k = n
      BY <1>4, <1>7, <2>1
    <2>2. CASE k # n
      <3>1. k \in Len(voiced) - streak + 1 .. Len(voiced) /\ k \in 1 .. n - 1
        BY <1>3, <1>4, <1>7, <2>2
      <3> QED  BY <1>4, <1>12, <3>1
    <2> QED  BY <2>1, <2>2
  <1>17. row <= Cardinality(VoicedOf(segment)')
    <2> DEFINE X == VoicedOf(segment)'
    <2>1. \A k \in n - row + 1 .. n : k \in X
      <3> SUFFICES ASSUME NEW k \in n - row + 1 .. n
                   PROVE  k \in X
        OBVIOUS
      <3>1. k \in n - Len(kept) + 1 .. n
        BY <1>3, <1>4, <1>7
      <3> QED  BY <1>15, <1>16, <3>1 DEF VoicedOf, FramesOf
    <2>2. X \subseteq FramesOf(segment')
      BY DEF VoicedOf, FramesOf
    <2>3. \A i \in 1 .. Len(segment') : segment'[i] <= n
      <3> SUFFICES ASSUME NEW i \in 1 .. Len(segment')
                   PROVE  segment'[i] <= n
        OBVIOUS
      <3>1. CASE i <= Len(tail)
        <4>1. i \in 1 .. Len(tail) /\ tail[i] \in Nat
          BY <1>4, <3>1
        <4>2. tail[i] <= n - Len(kept)
          BY <1>2, <1>9, <1>11, <4>1 DEF TailWhole
        <4>3. segment'[i] = tail[i]
          BY <1>6, <4>1
        <4>4. PICK x \in Nat : x = tail[i]
          BY <4>1
        <4> QED  BY <1>3, <1>4, <4>2, <4>3, <4>4
      <3>2. CASE i > Len(tail)
        <4>1. i \in Len(tail) + 1 .. Len(segment')
          BY <1>4, <1>6, <3>2
        <4> QED  BY <1>3, <1>4, <1>6, <1>13, <4>1
      <3> QED  BY <1>4, <3>1, <3>2
    <2>4. IsFiniteSet(FramesOf(segment'))
      BY <1>4, <1>6, <2>3, FramesFinite
    <2> HIDE DEF X
    <2>5. IsFiniteSet(X) /\ Cardinality(X) \in Nat
      BY <2>2, <2>4, FS_Subset, FS_CardinalityType
    <2>6. n - row + 1 \in Int /\ n \in Int
      BY <1>4, <1>7
    <2>7. IsFiniteSet(n - row + 1 .. n) /\ Cardinality(n - row + 1 .. n) = row
      <3>1. Cardinality(n - row + 1 .. n) = IF n - row + 1 > n THEN 0 ELSE n - (n - row + 1) + 1
        BY <2>6, FS_Interval
      <3> QED  BY <1>4, <1>7, <2>6, <3>1, FS_Interval
    <2>8. (n - row + 1 .. n) \in SUBSET X
      BY <2>1
    <2>9. Cardinality(n - row + 1 .. n) <= Cardinality(X)
      BY <2>5, <2>8, FS_Subset
    <2> QED  BY <2>7, <2>9 DEF X
  <1>18. Speaking'
    <2>1. Len(segment') < MaxSegment
      <3>1. Len(tail) <= Overlap
        BY <1>4, SegmentBounds DEF SegmentsInv, TailWhole
      <3> QED  BY <1>3, <1>4, <1>6, <3>1, SegmentBounds
    <2>2. Len(tail) + StartFrames + 0 <= Len(segment')
      BY <1>3, <1>4, <1>6, <1>7
    <2> QED  BY <1>2, <1>14, <1>17, <2>1, <2>2, SegmentBounds DEF Speaking
  <1>19. Waiting'
    BY <1>5 DEF Waiting
  <1>20. EnoughSpeech'
    BY <1>2, SentOnly
  <1>21. SpeechKept'
    <2>1. SegmentsTyped /\ SpeechKept
      BY DEF SegmentsInv
    <2>2. \A k \in FramesOf(segment) :
            \E s \in (ClosedSegments \cup {segment})' : k \in FramesOf(s)
      BY <1>12 DEF FramesOf
    <2>3. \A k \in Len(voiced) + 2 - StartFrames .. Len(voiced) + 1 :
            \E s \in (ClosedSegments \cup {segment})' : k \in FramesOf(s)
      <3> SUFFICES ASSUME NEW k \in Len(voiced) + 2 - StartFrames .. Len(voiced) + 1
                   PROVE  \E s \in (ClosedSegments \cup {segment})' : k \in FramesOf(s)
        OBVIOUS
      <3>1. k \in n - Len(kept) + 1 .. n
        BY <1>3, <1>4, <1>7
      <3>2. k \in FramesOf(segment')
        BY <1>15, <3>1
      <3> QED  BY <3>2
    <2> QED  BY <1>11, <2>1, <2>2, <2>3, RunsKept
  <1> QED  BY <1>8, <1>11, <1>18, <1>19, <1>20, <1>21 DEF SegmentsInv

-----------------------------------------------------------------------------
(* Within a segment. *)

LEMMA Grown ==
    ASSUME SegmentsInv, active, NEW v \in BOOLEAN, Arrives(v),
           NEW n, n = Len(voiced) + 1, NEW g, g = Append(segment, n)
    PROVE  /\ n \in Nat /\ g \in Seq(Nat) /\ Len(g) = Len(segment) + 1 /\ Len(g) <= MaxSegment
           /\ Follows(g, n) /\ Behind = n + Len(tail) - Len(g)
           /\ FramesOf(g) = FramesOf(segment) \cup {n}
           /\ \A k \in n + 1 - StartFrames .. n : k \in FramesOf(g)
           /\ (IF v THEN speech + 1 ELSE speech) <= Cardinality({x \in FramesOf(g) : voiced'[x]})
  <1>1. /\ n \in Nat /\ Len(voiced) = n - 1 /\ segment \in Seq(Nat) /\ Len(segment) \in Nat
        /\ tail \in Seq(Nat) /\ Len(tail) \in Nat /\ speech \in Nat /\ silence \in Nat
        /\ \A k \in 1 .. n - 1 : voiced'[k] = voiced[k]
        /\ voiced'[n] = v /\ SegmentsTyped /\ TailWhole /\ Past
    BY DEF SegmentsInv, SegmentsTyped, Arrives
  <1>2. /\ Follows(segment, n - 1) /\ Len(segment) < MaxSegment
        /\ Len(tail) + StartFrames + silence <= Len(segment)
        /\ speech <= Cardinality(VoicedOf(segment))
        /\ Behind = (n - 1) + Len(tail) - Len(segment)
    BY <1>1 DEF SegmentsInv, Speaking, Behind
  <1>3. /\ g \in Seq(Nat) /\ Len(g) = Len(segment) + 1
        /\ \A i \in 1 .. Len(segment) : g[i] = segment[i]
        /\ g[Len(segment) + 1] = n /\ FramesOf(g) = FramesOf(segment) \cup {n}
    BY <1>1, Grows
  <1>4. /\ Len(tail) <= Len(segment) /\ Len(segment) - Len(tail) <= n - 1
        /\ \A i \in 1 .. Len(tail) : segment[i] = tail[i]
        /\ \A i \in Len(tail) + 1 .. Len(segment) : segment[i] = (n - 1) - Len(segment) + i
    BY <1>2 DEF Follows
  <1>5. \A i \in Len(tail) + 1 .. Len(g) : g[i] = n - Len(g) + i
    <2> SUFFICES ASSUME NEW i \in Len(tail) + 1 .. Len(g)
                 PROVE  g[i] = n - Len(g) + i
      OBVIOUS
    <2>1. CASE i = Len(segment) + 1
      BY <1>1, <1>3, <2>1
    <2>2. CASE i # Len(segment) + 1
      <3>1. i \in Len(tail) + 1 .. Len(segment) /\ i \in 1 .. Len(segment)
        BY <1>1, <1>3, <2>2
      <3>2. g[i] = (n - 1) - Len(segment) + i
        BY <1>3, <1>4, <3>1
      <3> QED  BY <1>1, <1>3, <3>1, <3>2
    <2> QED  BY <2>1, <2>2
  <1>6. \A i \in 1 .. Len(tail) : g[i] = tail[i]
    <2>1. \A i \in 1 .. Len(tail) : i \in 1 .. Len(segment)
      BY <1>1, <1>4
    <2> QED  BY <1>3, <1>4, <2>1
  <1>7. Follows(g, n)
    BY <1>1, <1>3, <1>4, <1>5, <1>6 DEF Follows
  <1>8. Len(g) <= MaxSegment /\ Behind = n + Len(tail) - Len(g)
    BY <1>1, <1>2, <1>3, SegmentBounds
  <1>9. ASSUME NEW k \in n + 1 - StartFrames .. n
        PROVE  k \in FramesOf(g)
    <2> DEFINE i == k - n + Len(g)
    <2>1. i \in Len(tail) + 1 .. Len(g) /\ i \in 1 .. Len(g)
      BY <1>1, <1>2, <1>3, SegmentBounds
    <2>2. n - Len(g) + i = k
      BY <1>1, <1>3
    <2> HIDE DEF i
    <2>3. g[i] = k
      BY <1>5, <2>1, <2>2
    <2> QED  BY <1>3, <2>1, <2>3, FramesIn
  <1>10. \A i \in 1 .. Len(segment) : 1 <= segment[i] /\ segment[i] <= n - 1
    <2>1. Behind = (n - 1) + Len(tail) - Len(segment) /\ n - 1 \in Nat
      BY <1>1, <1>2, BehindIsPast, SegmentBounds DEF SegmentsInv, SegmentsTyped
    <2>2. Len(segment) <= MaxSegment
      BY <1>1, <1>2, SegmentBounds
    <2> QED  BY <1>1, <1>2, <2>1, <2>2, FollowingInOrder
  <1>11. \A x \in FramesOf(segment) : x \in 1 .. n - 1
    <2> SUFFICES ASSUME NEW x \in FramesOf(segment)
                 PROVE  x \in 1 .. n - 1
      OBVIOUS
    <2>1. PICK i \in 1 .. Len(segment) : x = segment[i]
      BY <1>1, FramesIn
    <2>2. x \in Nat
      BY <1>1, FramesIn
    <2> QED  BY <1>1, <1>10, <2>1, <2>2
  <1> DEFINE X == VoicedOf(segment)
             Y == {x \in FramesOf(g) : voiced'[x]}
  <1>12. Y = IF v THEN X \cup {n} ELSE X
    BY <1>1, <1>3, <1>11 DEF VoicedOf
  <1>13. n \notin X /\ X \subseteq FramesOf(segment)
    BY <1>1, <1>11 DEF VoicedOf
  <1>14. IsFiniteSet(FramesOf(segment))
    <2>1. n - 1 \in Nat
      BY DEF SegmentsInv, SegmentsTyped
    <2>2. PICK m \in Nat : m = n - 1
      BY <2>1
    <2> QED  BY <1>1, <1>10, <2>2, FramesFinite
  <1>15. speech <= Cardinality(X)
    BY <1>2
  <1> HIDE DEF X, Y
  <1>16. IsFiniteSet(X) /\ Cardinality(X) \in Nat
    BY <1>13, <1>14, FS_Subset, FS_CardinalityType
  <1>17. Cardinality(X \cup {n}) = Cardinality(X) + 1
    BY <1>13, <1>16, FS_AddElement
  <1>18. (IF v THEN speech + 1 ELSE speech) <= Cardinality(Y)
    BY <1>1, <1>12, <1>15, <1>16, <1>17
  <1> QED  BY <1>1, <1>3, <1>7, <1>8, <1>9, <1>18 DEF Y

LEMMA GrowsOn ==
    ASSUME SegmentsInv, NEW v \in BOOLEAN, Arrives(v), Extend(Len(voiced) + 1, v), active'
    PROVE  SegmentsInv'
  <1>1. PICK n : n = Len(voiced) + 1
    OBVIOUS
  <1>2. PICK g : g = Append(segment, n)
    OBVIOUS
  <1> DEFINE spoken == IF v THEN speech + 1 ELSE speech
             quiet == IF v THEN 0 ELSE silence + 1
  <1>3. /\ active /\ active' = TRUE /\ ~ (quiet >= EndSilence \/ Len(g) >= MaxSegment)
        /\ segment' = g /\ speech' = spoken /\ silence' = quiet
        /\ UNCHANGED <<pre, tail, streak, emitted, dropped>>
    BY <1>1, <1>2 DEF Extend, SegmentsInv, SegmentsTyped
  <1>4. /\ n \in Nat /\ g \in Seq(Nat) /\ Len(g) = Len(segment) + 1 /\ Len(g) <= MaxSegment
        /\ Follows(g, n) /\ Behind = n + Len(tail) - Len(g)
        /\ FramesOf(g) = FramesOf(segment) \cup {n}
        /\ \A k \in n + 1 - StartFrames .. n : k \in FramesOf(g)
        /\ spoken <= Cardinality({x \in FramesOf(g) : voiced'[x]})
    BY <1>1, <1>2, <1>3, Grown
  <1>5. /\ Len(voiced') = n /\ voiced' \in Seq(BOOLEAN) /\ Len(tail) \in Nat /\ Len(g) \in Nat
        /\ speech \in Nat /\ silence \in Nat /\ spoken \in Nat /\ quiet \in Nat
        /\ Len(segment) \in Nat
    BY <1>1, <1>4 DEF SegmentsInv, SegmentsTyped, Arrives
  <1>6. /\ pre = <<>> /\ Len(tail) + StartFrames + silence <= Len(segment)
    BY <1>3 DEF SegmentsInv, Speaking
  <1>7. Len(tail) + StartFrames + quiet <= Len(g)
    BY <1>4, <1>5, <1>6, SegmentBounds
  <1>8. quiet < EndSilence /\ Len(g) < MaxSegment
    BY <1>3, <1>5, SegmentBounds
  <1> HIDE DEF spoken, quiet
  <1>9. SegmentsTyped'
    BY <1>3, <1>4, <1>5 DEF SegmentsInv, SegmentsTyped
  <1>10. Behind' = Behind
    BY <1>3, <1>4, <1>5 DEF Behind
  <1>11. TailWhole' /\ Past' /\ ClosedInOrder' /\ ClosedSegments' = ClosedSegments
    BY <1>3, <1>10, BehindIsPast, PastStays
  <1>12. Speaking'
    <2>1. Follows(segment, Len(voiced))'
      BY <1>3, <1>4, <1>5 DEF Follows
    <2>2. speech' <= Cardinality(VoicedOf(segment)')
      BY <1>3, <1>4 DEF VoicedOf, FramesOf
    <2> QED  BY <1>3, <1>6, <1>7, <1>8, <2>1, <2>2 DEF Speaking
  <1>13. Waiting'
    BY <1>3 DEF Waiting
  <1>14. EnoughSpeech'
    BY <1>3, SentOnly
  <1>15. SpeechKept'
    <2>1. SegmentsTyped /\ SpeechKept
      BY DEF SegmentsInv
    <2>2. \A k \in FramesOf(segment) :
            \E s \in (ClosedSegments \cup {segment})' : k \in FramesOf(s)
      BY <1>3, <1>4
    <2>3. \A k \in Len(voiced) + 2 - StartFrames .. Len(voiced) + 1 :
            \E s \in (ClosedSegments \cup {segment})' : k \in FramesOf(s)
      <3>1. Len(voiced) + 2 - StartFrames = n + 1 - StartFrames /\ Len(voiced) + 1 = n
        BY <1>1, SegmentBounds DEF SegmentsInv, SegmentsTyped
      <3> QED  BY <1>3, <1>4, <3>1
    <2> QED  BY <1>11, <2>1, <2>2, <2>3, RunsKept
  <1> QED  BY <1>9, <1>11, <1>12, <1>13, <1>14, <1>15 DEF SegmentsInv

LEMMA Ends ==
    ASSUME SegmentsInv, NEW v \in BOOLEAN, Arrives(v), Extend(Len(voiced) + 1, v), ~ active'
    PROVE  SegmentsInv'
  <1>1. PICK n : n = Len(voiced) + 1
    OBVIOUS
  <1>2. PICK g : g = Append(segment, n)
    OBVIOUS
  <1> DEFINE spoken == IF v THEN speech + 1 ELSE speech
             quiet == IF v THEN 0 ELSE silence + 1
  <1>3. /\ active /\ active' = FALSE /\ (quiet >= EndSilence \/ Len(g) >= MaxSegment)
        /\ tail' = LastFrames(g, Overlap) /\ segment' = <<>>
        /\ streak' = 0 /\ speech' = 0 /\ silence' = 0
        /\ TranscribeSegment(g, spoken) /\ pre' = pre
    BY <1>1, <1>2 DEF Extend
  <1>4. /\ n \in Nat /\ g \in Seq(Nat) /\ Len(g) = Len(segment) + 1 /\ Len(g) <= MaxSegment
        /\ Follows(g, n) /\ Behind = n + Len(tail) - Len(g)
        /\ FramesOf(g) = FramesOf(segment) \cup {n}
        /\ \A k \in n + 1 - StartFrames .. n : k \in FramesOf(g)
        /\ spoken <= Cardinality({x \in FramesOf(g) : voiced'[x]})
    BY <1>1, <1>2, <1>3, Grown
  <1>5. /\ Len(voiced') = n /\ Len(voiced) = n - 1 /\ voiced' \in Seq(BOOLEAN)
        /\ Len(tail) \in Nat /\ Len(g) \in Nat /\ Len(segment) \in Nat
        /\ speech \in Nat /\ silence \in Nat /\ spoken \in Nat /\ quiet \in Nat
        /\ SegmentsTyped /\ TailWhole /\ Past /\ Len(tail) <= Overlap
    BY <1>1, <1>4, SegmentBounds DEF SegmentsInv, SegmentsTyped, Arrives, TailWhole
  <1>6. /\ pre = <<>> /\ Len(tail) + StartFrames + silence <= Len(segment)
    BY <1>3 DEF SegmentsInv, Speaking
  <1>7. Len(tail) + Overlap <= Len(g)
    BY <1>3, <1>4, <1>5, <1>6, SegmentBounds
  <1> HIDE DEF spoken, quiet
  <1>8. /\ emitted' \in Seq(Seq(Nat)) /\ dropped' \in Seq(Seq(Nat))
        /\ ClosedSegments' = ClosedSegments \cup {g}
        /\ Elements(emitted)' \subseteq
             Elements(emitted) \cup (IF spoken < MinSpeech THEN {} ELSE {g})
    BY <1>3, <1>4, <1>5, OneMoreClosed
  <1>9. /\ tail' \in Seq(Nat) /\ Len(tail') = Overlap
        /\ \A i \in 1 .. Overlap : tail'[i] = g[Len(g) - Overlap + i]
    <2>1. Smaller(Overlap, Len(g)) = Overlap
      BY <1>5, <1>7, SegmentBounds DEF Smaller
    <2>2. PICK l : l = LastFrames(g, Overlap)
      OBVIOUS
    <2>3. /\ l \in Seq(Nat) /\ Len(l) = Smaller(Overlap, Len(g))
          /\ \A i \in 1 .. Len(l) : l[i] = g[Len(g) - Len(l) + i]
      BY <1>4, <2>2, LastOnes, SegmentBounds
    <2> QED  BY <1>3, <2>1, <2>2, <2>3
  <1>10. \A i \in 1 .. Overlap : tail'[i] = n - Overlap + i
    <2> SUFFICES ASSUME NEW i \in 1 .. Overlap
                 PROVE  tail'[i] = n - Overlap + i
      OBVIOUS
    <2> DEFINE j == Len(g) - Overlap + i
    <2>1. j \in Len(tail) + 1 .. Len(g) /\ n - Len(g) + j = n - Overlap + i
      BY <1>4, <1>5, <1>7, SegmentBounds
    <2>2. tail'[i] = g[j]
      BY <1>9
    <2> HIDE DEF j
    <2>3. g[j] = n - Len(g) + j
      BY <1>4, <2>1 DEF Follows
    <2> QED  BY <2>1, <2>2, <2>3
  <1>11. SegmentsTyped'
    BY <1>3, <1>5, <1>6, <1>8, <1>9 DEF SegmentsTyped
  <1>12. Behind' = n
    BY <1>3, <1>4, <1>5, <1>6 DEF Behind
  <1>13. /\ InOrderAlone(g)
         /\ \A t \in ClosedSegments : Share(g, t) /\ Share(t, g)
         /\ \A i \in 1 .. Len(g) : 1 <= g[i] /\ g[i] <= n
    BY <1>4, <1>5, FollowingInOrder
  <1>14. Len(g) - Len(tail) <= n
    BY <1>4 DEF Follows
  <1>15. TailWhole'
    <2>1. \A i \in 1 .. Overlap : 1 <= i /\ 1 \in 1 .. Overlap
      BY SegmentBounds
    <2>2. Overlap <= n
      BY <1>4, <1>5, <1>7, <1>14, SegmentBounds
    <2>3. ASSUME NEW i \in 1 .. Overlap
          PROVE  /\ tail'[i] = tail'[1] + i - 1
                 /\ 1 <= tail'[i] /\ tail'[i] <= n
      <3>1. tail'[i] = n - Overlap + i /\ tail'[1] = n - Overlap + 1
        BY <1>10, <2>1
      <3> QED  BY <1>4, <2>2, <3>1, SegmentBounds
    <2> QED  BY <1>9, <1>12, <2>3 DEF TailWhole
  <1>16. Past'
    <2>1. Behind \in Nat /\ Behind <= n
      BY <1>4, <1>5, BehindIsPast
    <2>2. \A s \in ClosedSegments : \A i \in 1 .. Len(s) : s[i] \in Nat
      BY <1>5, ClosedType
    <2>3. 1 <= Len(g)
      BY <1>4, <1>5
    <2> QED  BY <1>4, <1>5, <1>8, <1>12, <1>13, <2>1, <2>2, <2>3 DEF Past
  <1>17. Waiting'
    <2>1. n \in SegmentEnds'
      <3>1. Len(g) \in Len(tail) + 1 .. Len(g)
        BY <1>4, <1>5, <1>6, SegmentBounds
      <3>2. g[Len(g)] = n - Len(g) + Len(g)
        BY <1>4, <3>1 DEF Follows
      <3>3. g[Len(g)] = n /\ g \in ClosedSegments'
        BY <1>4, <1>5, <1>8, <3>2
      <3> QED  BY <3>3 DEF SegmentEnds
    <2>2. ASSUME NEW m \in 0 .. n,
                 \A k \in n - m + 1 .. n : voiced'[k] /\ k \notin SegmentEnds'
          PROVE  m <= 0
      <3>1. SUFFICES ASSUME m > 0
                     PROVE  FALSE
        BY <1>4
      <3>2. n \in n - m + 1 .. n
        BY <1>4, <3>1
      <3> QED  BY <2>1, <2>2, <3>2
    <2>3. /\ Len(pre') = 0 /\ 0 <= PreFrames /\ 0 <= n /\ 0 < StartFrames
          /\ \A i : i \notin 1 .. 0
      BY <1>3, <1>4, <1>6, SegmentBounds
    <2>4. \A k \in n - 0 + 1 .. n : voiced'[k]
      BY <1>4
    <2> QED  BY <1>3, <1>5, <2>2, <2>3, <2>4 DEF Waiting
  <1>18. Speaking'
    BY <1>3 DEF Speaking
  <1>19. ClosedInOrder'
    <2>1. /\ \A s \in ClosedSegments : InOrderAlone(s)
          /\ \A s, t \in ClosedSegments : s # t => Share(s, t)
      BY DEF SegmentsInv, ClosedInOrder
    <2>2. \A s \in ClosedSegments' : InOrderAlone(s)
      BY <1>8, <1>13, <2>1
    <2>3. \A s, t \in ClosedSegments' : s # t => Share(s, t)
      BY <1>8, <1>13, <2>1
    <2> QED  BY <2>2, <2>3 DEF ClosedInOrder, InOrderAlone, Share, FramesOf
  <1>20. EnoughSpeech'
    <2>1. Behind <= Len(voiced) /\ Elements(emitted) \subseteq ClosedSegments
      BY BehindIsPast DEF ClosedSegments
    <2>2. \A s \in Elements(emitted) : VoicedOf(s)' = VoicedOf(s)
      BY <1>5, <2>1, SentStays
    <2>3. \A s \in Elements(emitted) : Cardinality(VoicedOf(s)) >= MinSpeech
      BY DEF SegmentsInv, EnoughSpeech, VoicedOf
    <2>4. spoken >= MinSpeech => Cardinality(VoicedOf(g)') >= MinSpeech
      <3>1. spoken <= Cardinality(VoicedOf(g)')
        BY <1>4 DEF VoicedOf, FramesOf
      <3>2. IsFiniteSet(FramesOf(g))
        BY <1>4, <1>13, FramesFinite
      <3>3. VoicedOf(g)' \subseteq FramesOf(g)
        BY DEF VoicedOf, FramesOf
      <3>4. Cardinality(VoicedOf(g)') \in Nat
        BY <3>2, <3>3, FS_Subset, FS_CardinalityType
      <3> QED  BY <1>5, <3>1, <3>4, SegmentBounds
    <2>5. \A s \in Elements(emitted)' : Cardinality(VoicedOf(s)') >= MinSpeech
      BY <1>5, <1>8, <2>2, <2>3, <2>4, SegmentBounds
    <2> QED  BY <2>5 DEF EnoughSpeech, VoicedOf, FramesOf
  <1>21. SpeechKept'
    <2>1. SpeechKept /\ ClosedSegments \subseteq ClosedSegments' /\ g \in ClosedSegments'
      BY <1>8 DEF SegmentsInv
    <2>2. \A k \in FramesOf(segment) :
            \E s \in (ClosedSegments \cup {segment})' : k \in FramesOf(s)
      BY <1>4, <2>1
    <2>3. \A k \in Len(voiced) + 2 - StartFrames .. Len(voiced) + 1 :
            \E s \in (ClosedSegments \cup {segment})' : k \in FramesOf(s)
      <3>1. Len(voiced) + 2 - StartFrames = n + 1 - StartFrames /\ Len(voiced) + 1 = n
        BY <1>4, <1>5, SegmentBounds
      <3> QED  BY <1>4, <2>1, <3>1
    <2> QED  BY <1>5, <2>1, <2>2, <2>3, RunsKept
  <1> QED  BY <1>11, <1>15, <1>16, <1>17, <1>18, <1>19, <1>20, <1>21 DEF SegmentsInv

-----------------------------------------------------------------------------
(* The theorems. *)

LEMMA SegmentsInitially == SegmentsInit => SegmentsInv
  <1> SUFFICES ASSUME SegmentsInit
               PROVE  SegmentsInv
    OBVIOUS
  <1>1. /\ Len(voiced) = 0 /\ Len(pre) = 0 /\ Len(tail) = 0 /\ Len(segment) = 0
        /\ streak = 0 /\ segment = <<>> /\ active = FALSE /\ \A i : i \notin 1 .. 0
    BY DEF SegmentsInit
  <1>2. ClosedSegments = {} /\ Elements(emitted) = {}
    BY DEF SegmentsInit, ClosedSegments, Elements
  <1>3. SegmentsTyped
    <2>1. <<>> \in Seq(BOOLEAN) /\ <<>> \in Seq(Nat) /\ <<>> \in Seq(Seq(Nat))
      OBVIOUS
    <2>2. voiced \in Seq(BOOLEAN)
      BY <2>1 DEF SegmentsInit
    <2>3. pre \in Seq(Nat) /\ segment \in Seq(Nat) /\ tail \in Seq(Nat)
      BY <2>1 DEF SegmentsInit
    <2>4. emitted \in Seq(Seq(Nat)) /\ dropped \in Seq(Seq(Nat))
      BY <2>1 DEF SegmentsInit
    <2> QED  BY <2>2, <2>3, <2>4 DEF SegmentsInit, SegmentsTyped
  <1>4. TailWhole /\ Past /\ Speaking /\ ClosedInOrder /\ EnoughSpeech
    BY <1>1, <1>2 DEF TailWhole, Past, Speaking, ClosedInOrder, EnoughSpeech
  <1>5. Waiting
    <2>1. 0 < StartFrames /\ 0 <= PreFrames /\ 0 .. 0 = {0}
      BY SegmentBounds
    <2>2. \A k : k \notin 0 - 0 + 1 .. 0
      OBVIOUS
    <2> QED  BY <1>1, <2>1, <2>2 DEF Waiting
  <1>6. SpeechKept
    <2>1. DOMAIN voiced = {}
      BY DEF SegmentsInit
    <2> QED  BY <2>1 DEF SpeechKept
  <1> QED  BY <1>3, <1>4, <1>5, <1>6 DEF SegmentsInv

\* What is gathered now is in order with all that has ended, and a run of
\* speech that is long enough to begin a segment has begun one.
THEOREM SegmentsInvariant == SegmentsSpec => []SegmentsInv
  <1>1. SegmentsInv /\ [SegmentsNext]_segmentVars => SegmentsInv'
    <2> SUFFICES ASSUME SegmentsInv, [SegmentsNext]_segmentVars
                 PROVE  SegmentsInv'
      OBVIOUS
    <2>1. ASSUME NEW v \in BOOLEAN, ConsumeFrame(v)
          PROVE  SegmentsInv'
      <3>1. Arrives(v) /\ (Wait(Len(voiced) + 1, v) \/ Extend(Len(voiced) + 1, v))
        BY <2>1, FrameArrives DEF SegmentsInv
      <3> QED  BY <3>1, WaitOn, Begins, GrowsOn, Ends
    <2>2. CASE UNCHANGED segmentVars
      <3>1. UNCHANGED <<voiced, pre, segment, active, tail, streak, speech, silence,
                        emitted, dropped>>
        BY <2>2 DEF segmentVars
      <3>2. ClosedSegments' = ClosedSegments /\ Behind' = Behind /\ SegmentEnds' = SegmentEnds
        BY <3>1 DEF ClosedSegments, Elements, Behind, SegmentEnds
      <3>3. SegmentsTyped' /\ TailWhole' /\ Past'
        BY <3>1, <3>2 DEF SegmentsInv, SegmentsTyped, TailWhole, Past
      <3>4. Waiting' /\ Speaking'
        BY <3>1, <3>2 DEF SegmentsInv, Waiting, Speaking, Follows, VoicedOf, FramesOf
      <3>5. ClosedInOrder'
        BY <3>2 DEF SegmentsInv, ClosedInOrder, InOrderAlone, Share, FramesOf
      <3>6. SpeechKept'
        BY <3>1, <3>2 DEF SegmentsInv, SpeechKept, IsRun, FramesOf
      <3>7. EnoughSpeech'
        BY <3>1 DEF SegmentsInv, EnoughSpeech, FramesOf, Elements
      <3> QED  BY <3>3, <3>4, <3>5, <3>6, <3>7 DEF SegmentsInv
    <2> QED  BY <2>1, <2>2 DEF SegmentsNext
  <1> QED  BY SegmentsInitially, <1>1, PTL DEF SegmentsSpec

\* In every state every run of speech is in a segment, a segment has its frames
\* in their order and each once, two share the overlap at most, and what is
\* sent has speech in it.
THEOREM SpeechReachesText == SegmentsSpec => []SegmentsConsistent
  <1>1. SegmentsInv => SegmentsConsistent
    <2> SUFFICES ASSUME SegmentsInv
                 PROVE  SegmentsInOrder
      BY DEF SegmentsInv, SegmentsConsistent
    <2>1. InOrderAlone(segment) /\ \A t \in ClosedSegments : Share(segment, t) /\ Share(t, segment)
      <3>1. SegmentsTyped /\ TailWhole /\ Past /\ Len(voiced) \in Nat
        BY DEF SegmentsInv, SegmentsTyped
      <3>2. CASE active
        <4>1. /\ Follows(segment, Len(voiced)) /\ Len(segment) <= MaxSegment
              /\ Behind = Len(voiced) + Len(tail) - Len(segment)
          BY <3>1, <3>2, SegmentBounds DEF SegmentsInv, SegmentsTyped, Speaking, Behind
        <4> QED  BY <3>1, <4>1, FollowingInOrder DEF SegmentsTyped
      <3>3. CASE ~ active
        <4>1. segment = <<>> /\ FramesOf(segment) = {}
          BY <3>3 DEF SegmentsInv, Waiting, FramesOf
        <4>2. Cardinality({}) = 0
          BY FS_EmptySet
        <4>3. \A t : Share(segment, t) /\ Share(t, segment)
          <5>1. \A t : /\ FramesOf(segment) \cap FramesOf(t) = {}
                       /\ FramesOf(t) \cap FramesOf(segment) = {}
            BY <4>1
          <5>2. 0 <= Overlap
            BY SegmentBounds
          <5> QED  BY <4>2, <5>1, <5>2 DEF Share
        <4>4. InOrderAlone(segment)
          <5>1. Len(segment) = 0 /\ \A i : i \notin 1 .. 0 - 1
            BY <4>1
          <5> QED  BY <5>1, SegmentBounds DEF InOrderAlone
        <4> QED  BY <4>3, <4>4
      <3> QED  BY <3>2, <3>3
    <2> QED  BY <2>1 DEF SegmentsInv, ClosedInOrder, SegmentsInOrder, InOrderAlone, Share
  <1> QED  BY SegmentsInvariant, <1>1, PTL
=============================================================================
