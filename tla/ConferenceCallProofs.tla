------------------------ MODULE ConferenceCallProofs ------------------------
(***************************************************************************)
(* Theorems about ConferenceCall, for every set of phones and requests,    *)
(* every mix of faults and commands and every bound.                       *)
(***************************************************************************)
EXTENDS ConferenceCall, TLAPS

-----------------------------------------------------------------------------
(* Types of the pieces the actions are made of. *)

Legs == SUBSET (Phones \X Nat)

(* The events of each type, as the handlers take them. *)
LEMMA EventOfType ==
    ASSUME NEW e \in Event
    PROVE  /\ e.type = "status" => e \in StatusEvent
           /\ e.type \in {"add", "remove"} => e \in PhoneEvent
           /\ e.type = "end" => e \in EndEvent
  BY DEF Event, StatusEvent, PhoneEvent, EndEvent, PlainEvent

LEMMA EventPhone ==
    ASSUME NEW e \in Event, e.type \in {"status", "add", "remove"}
    PROVE  e.phone \in Phones
  BY DEF Event, StatusEvent, PhoneEvent, EndEvent, PlainEvent

LEMMA ConstructedEvents ==
    /\ \A p \in Phones, s \in Status : StatusChange(p, s) \in Event
    /\ \A p \in Phones : AddParticipant(p) \in Event
    /\ \A p \in Phones : RemoveParticipant(p) \in Event
    /\ \A b \in BOOLEAN : EndConference(b) \in Event
    /\ {SinkConference, StartTimer, CancelTimer, TimerExpired} \subseteq Event
  BY DEF Event, StatusEvent, PhoneEvent, EndEvent, PlainEvent, StatusChange,
         AddParticipant, RemoveParticipant, EndConference, SinkConference,
         StartTimer, CancelTimer, TimerExpired

(* What the loop takes from the queue, and what it leaves. *)
LEMMA TakenEvent ==
    ASSUME queue \in Seq(Event), NEW type, Takes(type)
    PROVE  /\ Head(queue) \in Event
           /\ Head(queue).type = type
           /\ Tail(queue) \in Seq(Event)
  BY DEF Takes

LEMMA AwaitType ==
    ASSUME LoopOK, NEW e \in Event, NEW stage \in Stage, NEW legs \in Legs,
           Await(e, stage, legs)
    PROVE  LoopOK'
  BY DEF LoopOK, Await, Legs

LEMMA ReturnType ==
    ASSUME LoopOK, Return
    PROVE  LoopOK'
  BY DEF LoopOK, Return

LEMMA DialType ==
    ASSUME VoiceOK, NEW p \in Phones, Dial(p)
    PROVE  /\ calls' \in [Phones -> Seq(LegState)]
           /\ hooks' \in [Phones -> Seq(Status)]
           /\ contended' \in SUBSET Phones
  <1>1. calls[p] \in Seq(LegState) /\ hooks[p] \in Seq(Status)
    BY DEF VoiceOK
  <1>2. /\ Append(calls[p], "ringing") \in Seq(LegState)
        /\ Append(hooks[p], "connecting") \in Seq(Status)
    BY <1>1 DEF LegState, Status
  <1> QED  BY <1>2 DEF VoiceOK, Dial

LEMMA HangUpType ==
    ASSUME VoiceOK, NEW leg \in Phones \X Nat, NEW states, HangUp(leg, states)
    PROVE  /\ calls' \in [Phones -> Seq(LegState)]
           /\ hooks' \in [Phones -> Seq(Status)]
  <1> DEFINE p == leg[1]
             i == leg[2]
  <1>1. p \in Phones /\ i \in Nat
    OBVIOUS
  <1>2. calls[p] \in Seq(LegState) /\ hooks[p] \in Seq(Status)
    BY <1>1 DEF VoiceOK
  <1>3. i \in 1..Len(calls[p]) => [calls[p] EXCEPT ![i] = "over"] \in Seq(LegState)
    BY <1>1, <1>2 DEF LegState
  <1>4. Append(hooks[p], "disconnected") \in Seq(Status)
    BY <1>2 DEF Status
  <1> QED  BY <1>1, <1>3, <1>4 DEF VoiceOK, HangUp

LEMMA DropHandlerType ==
    ASSUME TypeOK, NEW next \in {"idle", "none"}, DropHandler(next)
    PROVE  /\ LoopOK'
           /\ calls' \in [Phones -> Seq(LegState)]
           /\ hooks' \in [Phones -> Seq(Status)]
           /\ contended' \in SUBSET Phones
  <1>1. LoopOK'
    BY DEF TypeOK, LoopOK, DropHandler, Leftover
  <1>2. CASE UNCHANGED voiceVars
    BY <1>1, <1>2 DEF TypeOK, VoiceOK, voiceVars
  <1>3. CASE Has("add", "call") /\ Dial(ev.phone)
    <2>1. ev.phone \in Phones
      BY <1>3, EventPhone DEF TypeOK, LoopOK, Has
    <2> QED  BY <1>1, <1>3, <2>1, DialType DEF TypeOK
  <1>4. CASE /\ \E leg \in todo : HangUp(leg, {"answered"})
             /\ UNCHANGED contended
    BY <1>1, <1>4, HangUpType DEF TypeOK, LoopOK, VoiceOK
  <1>5. CASE /\ Has("remove", "hangup")
             /\ HangUp(<<ev.phone, recorded[ev.phone]>>, {"ringing", "answered"})
             /\ UNCHANGED contended
    <2>1. ev.phone \in Phones
      BY <1>5, EventPhone DEF TypeOK, LoopOK, Has
    <2>2. <<ev.phone, recorded[ev.phone]>> \in Phones \X Nat
      BY <2>1 DEF TypeOK, VoiceOK
    <2> QED  BY <1>1, <1>5, <2>2, HangUpType DEF TypeOK, VoiceOK
  <1> QED  BY <1>2, <1>3, <1>4, <1>5 DEF DropHandler, Leftover

-----------------------------------------------------------------------------
(* Every action keeps the types. *)

LEMMA AppendType ==
    ASSUME queue \in Seq(Event), NEW e \in Event
    PROVE  Append(queue, e) \in Seq(Event)
  OBVIOUS

(* The variables a step of the loop does not touch. *)
LEMMA LoopFrame ==
    ASSUME TypeOK, LoopOK', UNCHANGED <<startVars, timerVars, voiceVars, recorded>>,
           ConferenceOK'
    PROVE  TypeOK'
  BY DEF TypeOK, StartsOK, VoiceOK, startVars, timerVars, voiceVars

LEMMA TakeEventType ==
    ASSUME TypeOK, TakeEvent
    PROVE  TypeOK'
  <1>1. CASE ExecuteStatus
    <2> DEFINE e == Head(queue)
    <2>1. /\ e \in Event /\ e.type = "status"
          /\ Tail(queue) \in Seq(Event)
      BY <1>1, TakenEvent DEF ExecuteStatus, TypeOK, ConferenceOK
    <2>2. e \in StatusEvent
      BY <2>1, EventOfType
    <2>3. e.phone \in Phones /\ e.status \in Status
      BY <2>2 DEF StatusEvent
    <2>4. ConferenceOK'
      BY <1>1, <2>1, <2>3 DEF ExecuteStatus, TypeOK, ConferenceOK
    <2>5. LoopOK'
      <3>1. CASE Return
        BY <3>1, ReturnType DEF TypeOK
      <3>2. CASE Await(e, IF e.status = "connecting" THEN "save"
                                                     ELSE "announce", {})
        BY <2>1, <3>2, AwaitType DEF TypeOK, Legs, Stage
      <3> QED  BY <1>1, <3>1, <3>2 DEF ExecuteStatus
    <2> QED  BY <1>1, <2>4, <2>5, LoopFrame DEF ExecuteStatus
  <1>2. CASE ExecuteStartTimer
    <2>1. Tail(queue) \in Seq(Event)
      BY <1>2, TakenEvent DEF ExecuteStartTimer, TypeOK, ConferenceOK
    <2>2. ConferenceOK'
      BY <1>2, <2>1 DEF ExecuteStartTimer, TypeOK, ConferenceOK
    <2>3. LoopOK'
      <3>1. CASE Return
        BY <3>1, ReturnType DEF TypeOK
      <3>2. CASE Await(StartTimer, "save", {})
        BY <3>2, AwaitType, ConstructedEvents DEF TypeOK, Legs, Stage
      <3> QED  BY <1>2, <3>1, <3>2 DEF ExecuteStartTimer
    <2> QED
      BY <1>2, <2>2, <2>3
         DEF ExecuteStartTimer, TypeOK, StartsOK, VoiceOK, startVars, voiceVars
  <1>3. CASE ExecuteExpired
    <2>1. Tail(queue) \in Seq(Event)
      BY <1>3, TakenEvent DEF ExecuteExpired, TypeOK, ConferenceOK
    <2>2. ConferenceOK'
      BY <1>3, <2>1 DEF ExecuteExpired, TypeOK, ConferenceOK
    <2>3. LoopOK'
      <3>1. CASE Return
        BY <3>1, ReturnType DEF TypeOK
      <3>2. CASE Await(TimerExpired, IF status[Teacher] = "connected"
                                     THEN "save" ELSE "expire", {})
        BY <3>2, AwaitType, ConstructedEvents DEF TypeOK, Legs, Stage
      <3> QED  BY <1>3, <3>1, <3>2 DEF ExecuteExpired
    <2> QED  BY <1>3, <2>2, <2>3, LoopFrame DEF ExecuteExpired
  <1>4. CASE ExecuteCancelTimer
    <2>1. Tail(queue) \in Seq(Event)
      BY <1>4, TakenEvent DEF ExecuteCancelTimer, TypeOK, ConferenceOK
    <2>2. ConferenceOK'
      BY <1>4, <2>1 DEF ExecuteCancelTimer, TypeOK, ConferenceOK
    <2>3. LoopOK'
      <3>1. CASE Return
        BY <3>1, ReturnType DEF TypeOK
      <3>2. CASE Await(CancelTimer, "save", {})
        BY <3>2, AwaitType, ConstructedEvents DEF TypeOK, Legs, Stage
      <3> QED  BY <1>4, <3>1, <3>2 DEF ExecuteCancelTimer
    <2> QED
      BY <1>4, <2>2, <2>3
         DEF ExecuteCancelTimer, TypeOK, StartsOK, VoiceOK, startVars, voiceVars
  <1>5. CASE ExecuteEnd
    <2>1. Head(queue) \in Event /\ Tail(queue) \in Seq(Event)
      BY <1>5, TakenEvent DEF ExecuteEnd, TypeOK, ConferenceOK
    <2>2. ConferenceOK'
      BY <1>5, <2>1 DEF ExecuteEnd, TypeOK, ConferenceOK
    <2>3. LoopOK'
      BY <1>5, <2>1, AwaitType DEF ExecuteEnd, TypeOK, Legs, Stage
    <2> QED  BY <1>5, <2>2, <2>3, LoopFrame DEF ExecuteEnd
  <1>6. CASE ExecuteSink
    <2>1. Tail(queue) \in Seq(Event)
      BY <1>6, TakenEvent DEF ExecuteSink, TypeOK, ConferenceOK
    <2>2. ConferenceOK'
      BY <1>6, <2>1 DEF ExecuteSink, TypeOK, ConferenceOK
    <2>3. LoopOK'
      BY <1>6, AwaitType, ConstructedEvents DEF ExecuteSink, TypeOK, Legs, Stage
    <2> QED  BY <1>6, <2>2, <2>3, LoopFrame DEF ExecuteSink
  <1>7. CASE ExecuteAdd
    <2>1. Head(queue) \in Event /\ Tail(queue) \in Seq(Event)
      BY <1>7, TakenEvent DEF ExecuteAdd, TypeOK, ConferenceOK
    <2>2. ConferenceOK'
      BY <1>7, <2>1 DEF ExecuteAdd, TypeOK, ConferenceOK, confVars
    <2>3. LoopOK'
      BY <1>7, <2>1, AwaitType DEF ExecuteAdd, TypeOK, Legs, Stage
    <2> QED  BY <1>7, <2>2, <2>3, LoopFrame DEF ExecuteAdd
  <1>8. CASE ExecuteRemove
    <2>1. Head(queue) \in Event /\ Tail(queue) \in Seq(Event)
      BY <1>8, TakenEvent DEF ExecuteRemove, TypeOK, ConferenceOK
    <2>2. ConferenceOK'
      BY <1>8, <2>1 DEF ExecuteRemove, TypeOK, ConferenceOK, confVars
    <2>3. LoopOK'
      BY <1>8, <2>1, AwaitType, ReturnType
         DEF ExecuteRemove, TypeOK, Legs, Stage
    <2> QED  BY <1>8, <2>2, <2>3, LoopFrame DEF ExecuteRemove
  <1> QED  BY <1>1, <1>2, <1>3, <1>4, <1>5, <1>6, <1>7, <1>8 DEF TakeEvent

LEMMA ResumeHandlerType ==
    ASSUME TypeOK, ResumeHandler
    PROVE  TypeOK'
  <1>a. task = "busy" => ev \in Event
    BY DEF TypeOK, LoopOK
  <1>1. CASE HandlerSaved
    BY <1>1, ReturnType
       DEF HandlerSaved, TypeOK, ConferenceOK, StartsOK, VoiceOK, confVars,
           startVars, timerVars, voiceVars
  <1>2. CASE StatusAnnounced
    <2>1. ev \in Event
      BY <1>a, <1>2 DEF StatusAnnounced, Has
    <2>2. ConferenceOK'
      BY <1>2, ConstructedEvents, AppendType
         DEF StatusAnnounced, TypeOK, ConferenceOK, confVars
    <2>3. LoopOK'
      BY <1>2, <2>1, AwaitType DEF StatusAnnounced, TypeOK, Legs, Stage
    <2> QED  BY <1>2, <2>2, <2>3, LoopFrame DEF StatusAnnounced
  <1>3. CASE TimerStarted
    BY <1>3, ReturnType
       DEF TimerStarted, TypeOK, ConferenceOK, StartsOK, VoiceOK, confVars,
           startVars, voiceVars
  <1>4. CASE ExpirySaved
    <2>1. ConferenceOK'
      BY <1>4, ConstructedEvents, AppendType
         DEF ExpirySaved, TypeOK, ConferenceOK, confVars
    <2>2. LoopOK'
      BY <1>4, ReturnType DEF ExpirySaved, TypeOK
    <2> QED  BY <1>4, <2>1, <2>2, LoopFrame DEF ExpirySaved
  <1>5. CASE EndLooksUp
    <2>1. ev \in Event
      BY <1>a, <1>5 DEF EndLooksUp, Has
    <2>2. {<<p, recorded[p]>> : p \in {q \in Phones : recorded[q] # 0}} \in Legs
      BY DEF TypeOK, VoiceOK, Legs
    <2>3. LoopOK'
      BY <1>5, <2>1, <2>2, AwaitType DEF EndLooksUp, TypeOK, Stage
    <2> QED  BY <1>5, <2>3, LoopFrame DEF EndLooksUp, TypeOK, ConferenceOK, confVars
  <1>6. CASE EndHangsUp
    <2>1. ev \in Event
      BY <1>a, <1>6 DEF EndHangsUp, Has
    <2>2. PICK leg \in todo :
            /\ Await(ev, "hangup", todo \ {leg})
            /\ \/ HangUp(leg, {"answered"})
               \/ "hangup_fails" \in Faults /\ UNCHANGED <<calls, hooks>>
      BY <1>6 DEF EndHangsUp
    <2>3. leg \in Phones \X Nat /\ todo \ {leg} \in Legs
      BY DEF TypeOK, LoopOK, Legs
    <2>4. LoopOK'
      BY <2>1, <2>2, <2>3, AwaitType DEF TypeOK, Stage
    <2>5. /\ calls' \in [Phones -> Seq(LegState)]
          /\ hooks' \in [Phones -> Seq(Status)]
      BY <2>2, <2>3, HangUpType DEF TypeOK, VoiceOK
    <2> QED
      BY <1>6, <2>4, <2>5
         DEF EndHangsUp, TypeOK, ConferenceOK, StartsOK, VoiceOK, confVars,
             startVars, timerVars
  <1>7. CASE EndHungUp
    <2>1. ev \in Event
      BY <1>a, <1>7 DEF EndHungUp, Has
    <2>2. LoopOK'
      BY <1>7, <2>1, AwaitType DEF EndHungUp, TypeOK, Legs, Stage
    <2> QED  BY <1>7, <2>2, LoopFrame DEF EndHungUp, TypeOK, ConferenceOK, confVars
  <1>8. CASE SinkSaved
    <2>1. LoopOK'
      BY <1>8 DEF SinkSaved, TypeOK, LoopOK
    <2>2. recorded' \in [Phones -> Nat]
      BY <1>8 DEF SinkSaved
    <2> QED
      BY <1>8, <2>1, <2>2
         DEF SinkSaved, TypeOK, ConferenceOK, StartsOK, VoiceOK, startVars,
             timerVars, voiceVars
  <1>9. CASE AddCalls
    <2>1. ev \in Event /\ ev.phone \in Phones
      BY <1>a, <1>9, EventPhone DEF AddCalls, Has
    <2>2. {<<ev.phone, Len(calls[ev.phone]) + 1>>} \in Legs
      BY <2>1 DEF TypeOK, VoiceOK, Legs
    <2>3. LoopOK'
      BY <1>9, <2>1, <2>2, AwaitType DEF AddCalls, TypeOK, Stage
    <2>4. /\ calls' \in [Phones -> Seq(LegState)]
          /\ hooks' \in [Phones -> Seq(Status)]
          /\ contended' \in SUBSET Phones
      BY <1>9, <2>1, DialType DEF AddCalls, TypeOK
    <2> QED
      BY <1>9, <2>3, <2>4
         DEF AddCalls, TypeOK, ConferenceOK, StartsOK, VoiceOK, confVars,
             startVars, timerVars
  <1>10. CASE AddRecords
    <2>1. ev \in Event /\ ev.phone \in Phones
      BY <1>a, <1>10, EventPhone DEF AddRecords, Has
    <2>2. LoopOK'
      BY <1>10, <2>1, AwaitType DEF AddRecords, TypeOK, Legs, Stage
    <2>3. status' \in [Phones -> Status \cup {Absent}]
      BY <1>10 DEF AddRecords, TypeOK, ConferenceOK, Status
    <2>4. recorded' \in [Phones -> Nat]
      <3>1. PICK leg \in todo : recorded' = [recorded EXCEPT ![leg[1]] = leg[2]]
        BY <1>10 DEF AddRecords
      <3>2. leg[2] \in Nat
        BY DEF TypeOK, LoopOK
      <3> QED  BY <3>1, <3>2 DEF TypeOK, VoiceOK
    <2> QED
      BY <1>10, <2>2, <2>3, <2>4
         DEF AddRecords, TypeOK, ConferenceOK, StartsOK, VoiceOK, startVars,
             timerVars, voiceVars
  <1>11. CASE RemoveAnnounced
    <2>1. ev \in Event
      BY <1>a, <1>11 DEF RemoveAnnounced, Has
    <2>2. LoopOK'
      BY <1>11, <2>1, AwaitType DEF RemoveAnnounced, TypeOK, Legs, Stage
    <2> QED
      BY <1>11, <2>2, LoopFrame DEF RemoveAnnounced, TypeOK, ConferenceOK, confVars
  <1>12. CASE RemoveHangsUp
    <2>1. ev \in Event /\ ev.phone \in Phones
      BY <1>a, <1>12, EventPhone DEF RemoveHangsUp, Has
    <2>2. LoopOK'
      BY <1>12, <2>1, AwaitType DEF RemoveHangsUp, TypeOK, Legs, Stage
    <2>3. status' \in [Phones -> Status \cup {Absent}]
      BY <1>12 DEF RemoveHangsUp, TypeOK, ConferenceOK
    <2>4. <<ev.phone, recorded[ev.phone]>> \in Phones \X Nat
      BY <2>1 DEF TypeOK, VoiceOK
    <2>5. /\ calls' \in [Phones -> Seq(LegState)]
          /\ hooks' \in [Phones -> Seq(Status)]
      BY <1>12, <2>4, HangUpType DEF RemoveHangsUp, TypeOK, VoiceOK
    <2>6. contended' \in SUBSET Phones
      BY <1>12, <2>1 DEF RemoveHangsUp, TypeOK, VoiceOK
    <2> QED
      BY <1>12, <2>2, <2>3, <2>5, <2>6
         DEF RemoveHangsUp, TypeOK, ConferenceOK, StartsOK, VoiceOK, startVars,
             timerVars
  <1>13. CASE RemoveForgets
    <2>1. ev \in Event
      BY <1>a, <1>13 DEF RemoveForgets, Has
    <2>2. LoopOK'
      BY <1>13, <2>1, AwaitType DEF RemoveForgets, TypeOK, Legs, Stage
    <2>3. /\ status' \in [Phones -> Status \cup {Absent}]
          /\ recorded' \in [Phones -> Nat]
      BY <1>13 DEF RemoveForgets, TypeOK, ConferenceOK, VoiceOK
    <2> QED
      BY <1>13, <2>2, <2>3
         DEF RemoveForgets, TypeOK, ConferenceOK, StartsOK, VoiceOK, startVars,
             timerVars, voiceVars
  <1> QED
    BY <1>1, <1>2, <1>3, <1>4, <1>5, <1>6, <1>7, <1>8, <1>9, <1>10, <1>11,
       <1>12, <1>13 DEF ResumeHandler

LEMMA StartStepType ==
    ASSUME TypeOK, NEW r \in Requests, StartStep(r)
    PROVE  TypeOK'
  <1>1. CASE StartPersisted(r)
    BY <1>1, ConferenceAssumption
       DEF StartPersisted, TypeOK, ConferenceOK, LoopOK, StartsOK, VoiceOK,
           confVars, loopVars, timerVars, voiceVars
  <1>2. CASE StartBatch(r)
    <2>1. PICK batch \in SUBSET rest[r] :
            /\ dials' = [dials EXCEPT ![r] = batch \X {0}]
            /\ rest' = [rest EXCEPT ![r] = @ \ batch]
      BY <1>2 DEF StartBatch
    <2>2. rest[r] \in SUBSET Phones
      BY DEF TypeOK, StartsOK
    <2>3. /\ batch \X {0} \in SUBSET (Phones \X Nat)
          /\ rest[r] \ batch \in SUBSET Phones
      BY <2>2
    <2>4. StartsOK'
      BY <1>2, <2>1, <2>3 DEF StartBatch, TypeOK, StartsOK, timerVars
    <2> QED
      BY <1>2, <2>4 DEF StartBatch, TypeOK, ConferenceOK, LoopOK, VoiceOK,
                        confVars, loopVars, voiceVars
  <1>3. CASE StartRuns(r)
    BY <1>3 DEF StartRuns, TypeOK, ConferenceOK, LoopOK, StartsOK, VoiceOK,
                loopVars, timerVars, voiceVars
  <1>4. CASE StartSaved(r)
    <2>1. monitor' \in BOOLEAN
      BY <1>4 DEF StartSaved
    <2> QED
      BY <1>4, <2>1 DEF StartSaved, TypeOK, ConferenceOK, LoopOK, StartsOK,
                        VoiceOK, confVars, loopVars, voiceVars
  <1>5. ASSUME NEW p \in Phones, StartCalls(r, p)
        PROVE  TypeOK'
    <2>1. /\ calls' \in [Phones -> Seq(LegState)]
          /\ hooks' \in [Phones -> Seq(Status)]
          /\ contended' \in SUBSET Phones
      BY <1>5, DialType DEF StartCalls, TypeOK
    <2>2. /\ dials[r] \in SUBSET (Phones \X Nat)
          /\ <<p, Len(calls[p]) + 1>> \in Phones \X Nat
      BY DEF TypeOK, StartsOK, VoiceOK
    <2>3. dials' \in [Requests -> SUBSET (Phones \X Nat)]
      BY <1>5, <2>2 DEF StartCalls, TypeOK, StartsOK
    <2> QED
      BY <1>5, <2>1, <2>3 DEF StartCalls, TypeOK, ConferenceOK, LoopOK,
                              StartsOK, VoiceOK, confVars, loopVars, timerVars
  <1>6. ASSUME NEW leg \in dials[r], StartRecords(r, leg)
        PROVE  TypeOK'
    <2>1. /\ dials[r] \in SUBSET (Phones \X Nat)
          /\ leg \in Phones \X Nat
      BY DEF TypeOK, StartsOK
    <2>2. /\ recorded' \in [Phones -> Nat]
          /\ dials' \in [Requests -> SUBSET (Phones \X Nat)]
      BY <1>6, <2>1 DEF StartRecords, TypeOK, StartsOK, VoiceOK
    <2> QED
      BY <1>6, <2>2 DEF StartRecords, TypeOK, ConferenceOK, LoopOK, StartsOK,
                        VoiceOK, confVars, loopVars, timerVars, voiceVars
  <1> QED  BY <1>1, <1>2, <1>3, <1>4, <1>5, <1>6 DEF StartStep

LEMMA StartFailureType ==
    ASSUME TypeOK, NEW r \in Requests, StartFailure(r)
    PROVE  TypeOK'
  <1>1. CASE StartSaveFails(r)
    <2>1. /\ LoopOK'
          /\ calls' \in [Phones -> Seq(LegState)]
          /\ hooks' \in [Phones -> Seq(Status)]
          /\ contended' \in SUBSET Phones
      BY <1>1, DropHandlerType DEF StartSaveFails, FailStart
    <2> QED
      BY <1>1, <2>1 DEF StartSaveFails, FailStart, TypeOK, ConferenceOK,
                        StartsOK, VoiceOK, confVars, timerVars
  <1>2. ASSUME NEW leg \in dials[r], StartCallFails(r, leg)
        PROVE  TypeOK'
    <2>1. dials' \in [Requests -> SUBSET (Phones \X Nat)]
      BY <1>2 DEF StartCallFails, TypeOK, StartsOK
    <2>2. ConferenceOK'
      BY <1>2 DEF StartCallFails, TypeOK, ConferenceOK, confVars
    <2>3. CASE FailStart(r)
      <3>1. /\ LoopOK'
            /\ calls' \in [Phones -> Seq(LegState)]
            /\ hooks' \in [Phones -> Seq(Status)]
            /\ contended' \in SUBSET Phones
        BY <2>3, DropHandlerType DEF FailStart
      <3> QED
        BY <1>2, <2>1, <2>2, <2>3, <3>1
           DEF StartCallFails, FailStart, TypeOK, StartsOK, VoiceOK, timerVars
    <2>4. CASE UNCHANGED <<starts, loopVars, voiceVars>>
      BY <1>2, <2>1, <2>2, <2>4
         DEF StartCallFails, TypeOK, LoopOK, StartsOK, VoiceOK, loopVars,
             timerVars, voiceVars
    <2> QED  BY <1>2, <2>3, <2>4 DEF StartCallFails
  <1> QED  BY <1>1, <1>2 DEF StartFailure

LEMMA MonitorType ==
    ASSUME TypeOK, Monitor
    PROVE  TypeOK'
  <1>1. CASE MonitorExpires
    <2>1. ConferenceOK'
      BY <1>1, ConstructedEvents, AppendType
         DEF MonitorExpires, TypeOK, ConferenceOK, confVars
    <2> QED
      BY <1>1, <2>1 DEF MonitorExpires, TypeOK, LoopOK, StartsOK, VoiceOK,
                        loopVars, startVars, voiceVars
  <1>2. CASE MonitorStops
    BY <1>2 DEF MonitorStops, TypeOK, ConferenceOK, LoopOK, StartsOK, VoiceOK,
                confVars, loopVars, startVars, voiceVars
  <1> QED  BY <1>1, <1>2 DEF Monitor

LEMMA EnqueueType ==
    ASSUME TypeOK, NEW command, NEW e \in Event, Enqueue(command, e),
           task' \in {task, "idle"}, task' # task => task = "none"
    PROVE  TypeOK'
  <1>1. ConferenceOK'
    BY AppendType DEF Enqueue, TypeOK, ConferenceOK, confVars
  <1>2. LoopOK'
    BY DEF Enqueue, TypeOK, LoopOK
  <1> QED  BY <1>1, <1>2, LoopFrame DEF Enqueue

LEMMA TeachersType ==
    ASSUME TypeOK, Teachers
    PROVE  TypeOK'
  <1>1. ASSUME NEW r \in Requests, RequestStart(r)
        PROVE  TypeOK'
    <2>1. /\ LoopOK'
          /\ calls' \in [Phones -> Seq(LegState)]
          /\ hooks' \in [Phones -> Seq(Status)]
          /\ contended' \in SUBSET Phones
      BY <1>1, DropHandlerType DEF RequestStart
    <2> QED
      BY <1>1, <2>1 DEF RequestStart, TypeOK, ConferenceOK, StartsOK, VoiceOK,
                        confVars, timerVars
  <1>2. ASSUME NEW p \in Phones, RequestAdd(p)
        PROVE  TypeOK'
    BY <1>2, EnqueueType, ConstructedEvents DEF RequestAdd
  <1>3. ASSUME NEW p \in Phones, RequestRemove(p)
        PROVE  TypeOK'
    BY <1>3, EnqueueType, ConstructedEvents DEF RequestRemove
  <1>4. CASE RequestEnd
    BY <1>4, EnqueueType, ConstructedEvents DEF RequestEnd
  <1>5. CASE RequestSink
    BY <1>5, EnqueueType, ConstructedEvents DEF RequestSink
  <1> QED  BY <1>1, <1>2, <1>3, <1>4, <1>5 DEF Teachers

LEMMA RemoveAtType ==
    ASSUME NEW S, NEW q \in Seq(S), NEW k \in 1..Len(q)
    PROVE  SubSeq(q, 1, k - 1) \o SubSeq(q, k + 1, Len(q)) \in Seq(S)
  <1>1. SubSeq(q, 1, k - 1) \in Seq(S)
    OBVIOUS
  <1>2. SubSeq(q, k + 1, Len(q)) \in Seq(S)
    OBVIOUS
  <1> QED  BY <1>1, <1>2

LEMMA VoiceType ==
    ASSUME TypeOK, Voice
    PROVE  TypeOK'
  <1>1. PICK p \in Phones :
            \/ \E i \in 1..Len(calls[p]) : LegAnswered(p, i) \/ LegEnds(p, i)
            \/ \E k \in 1..Len(hooks[p]) : Deliver(p, k)
    BY DEF Voice
  <1>2. calls[p] \in Seq(LegState) /\ hooks[p] \in Seq(Status)
    BY DEF TypeOK, VoiceOK
  <1>3. ASSUME NEW i \in 1..Len(calls[p]), LegAnswered(p, i) \/ LegEnds(p, i)
        PROVE  TypeOK'
    <2>1. /\ [calls[p] EXCEPT ![i] = "answered"] \in Seq(LegState)
          /\ [calls[p] EXCEPT ![i] = "over"] \in Seq(LegState)
          /\ Append(hooks[p], "connected") \in Seq(Status)
          /\ Append(hooks[p], "disconnected") \in Seq(Status)
      BY <1>2 DEF LegState, Status
    <2>2. VoiceOK'
      BY <1>3, <2>1 DEF LegAnswered, LegEnds, TypeOK, VoiceOK
    <2> QED
      BY <1>3, <2>2 DEF LegAnswered, LegEnds, TypeOK, ConferenceOK, LoopOK,
                        StartsOK, confVars, loopVars, startVars, timerVars
  <1>4. ASSUME NEW k \in 1..Len(hooks[p]), Deliver(p, k)
        PROVE  TypeOK'
    <2>1. hooks[p][k] \in Status
      BY <1>2
    <2>2. ConferenceOK'
      BY <1>4, <2>1, ConstructedEvents, AppendType
         DEF Deliver, TypeOK, ConferenceOK, confVars
    <2>3. hooks' \in [Phones -> Seq(Status)]
      BY <1>2, <1>4, RemoveAtType DEF Deliver, TypeOK, VoiceOK
    <2> QED
      BY <1>4, <2>2, <2>3 DEF Deliver, TypeOK, LoopOK, StartsOK, VoiceOK,
                              loopVars, startVars, timerVars
  <1> QED  BY <1>1, <1>3, <1>4

LEMMA StutterType ==
    ASSUME TypeOK, UNCHANGED vars
    PROVE  TypeOK'
  BY DEF TypeOK, ConferenceOK, LoopOK, StartsOK, VoiceOK, vars, confVars,
         loopVars, startVars, timerVars, voiceVars

LEMMA NextType ==
    ASSUME TypeOK, [Next]_vars
    PROVE  TypeOK'
  <1>1. CASE LoopStops
    BY <1>1 DEF LoopStops, TypeOK, ConferenceOK, LoopOK, StartsOK, VoiceOK,
                confVars, startVars, timerVars, voiceVars
  <1>2. CASE HandlerCut
    BY <1>2, DropHandlerType
       DEF HandlerCut, TypeOK, ConferenceOK, StartsOK, VoiceOK, confVars,
           startVars, timerVars
  <1> QED
    BY <1>1, <1>2, TakeEventType, ResumeHandlerType, StartStepType,
       StartFailureType, MonitorType, TeachersType, VoiceType, StutterType
       DEF Next

LEMMA InitType == Init => TypeOK
  <1>1. Init => ConferenceOK
    <2>1. <<>> \in Seq(Event)
      OBVIOUS
    <2>2. [p \in Phones |-> IF p \in Enrolled THEN "disconnected" ELSE Absent]
            \in [Phones -> Status \cup {Absent}]
      BY DEF Status
    <2> QED  BY <2>1, <2>2 DEF Init, ConferenceOK
  <1>2. Init => LoopOK
    BY DEF Init, LoopOK
  <1>3. Init => StartsOK
    BY DEF Init, StartsOK
  <1>4. Init => VoiceOK
    BY DEF Init, VoiceOK
  <1> QED  BY <1>1, <1>2, <1>3, <1>4 DEF TypeOK

(***************************************************************************)
(* Type correctness: whatever interleaves, fails or is cut short, every    *)
(* participant has one of the three call statuses of CallStatus and a      *)
(* suspended handler still has its event.                                  *)
(***************************************************************************)
THEOREM TypeCorrect == Spec => []TypeOK
  <1>1. Init => TypeOK
    BY InitType
  <1>2. TypeOK /\ [Next]_vars => TypeOK'
    BY NextType
  <1> QED  BY <1>1, <1>2, PTL DEF Spec

-----------------------------------------------------------------------------
(* The auto-end timer. *)

(* An event in the queue stays there until it is taken. *)
LEMMA AppendKeeps ==
    ASSUME queue \in Seq(Event), NEW type, Queued(type),
           NEW e, queue' = Append(queue, e)
    PROVE  Queued(type)'
  <1>1. PICK i \in 1..Len(queue) : queue[i].type = type
    BY DEF Queued
  <1>2. i \in 1..Len(queue') /\ queue'[i] = queue[i]
    OBVIOUS
  <1> QED  BY <1>1, <1>2 DEF Queued

LEMMA TakeKeeps ==
    ASSUME queue \in Seq(Event), NEW type, Queued(type),
           NEW other, Takes(other), other # type, queue' = Tail(queue)
    PROVE  Queued(type)'
  <1>1. PICK i \in 1..Len(queue) : queue[i].type = type
    BY DEF Queued
  <1>2. queue[1].type # type
    BY DEF Takes
  <1>3. i - 1 \in 1..Len(queue') /\ queue'[i - 1] = queue[i]
    BY <1>1, <1>2
  <1> QED  BY <1>1, <1>3 DEF Queued

LEMMA UnchangedKeeps ==
    ASSUME NEW type, Queued(type), queue' = queue
    PROVE  Queued(type)'
  BY DEF Queued

LEMMA AppendedIsQueued ==
    ASSUME queue \in Seq(Event), NEW e, queue' = Append(queue, e)
    PROVE  Queued(e.type)'
  <1>1. Len(queue) + 1 \in 1..Len(queue') /\ queue'[Len(queue) + 1] = e
    OBVIOUS
  <1> QED  BY <1>1 DEF Queued

(* The ways in which a timer that is on still goes somewhere. *)
Driven == \/ monitor
          \/ Queued("expired")
          \/ Has("start_timer", "save")
          \/ "start_timer" \in lost

(* The handler of StartTimer is dropped: that is recorded. *)
LEMMA DropKeepsDriven ==
    ASSUME Driven, NEW next, DropHandler(next), monitor' = monitor,
           queue' = queue
    PROVE  Driven'
  BY UnchangedKeeps DEF Driven, DropHandler, Has, Watched

(* Nothing a handler other than StartTimer's does can lose the timer. *)
LEMMA OtherHandlerKeepsDriven ==
    ASSUME Driven, ~Has("start_timer", "save"), lost \subseteq lost',
           monitor' = monitor, Queued("expired") => Queued("expired")'
    PROVE  Driven'
  BY DEF Driven

LEMMA LostGrows ==
    /\ \A e, stage, legs : Await(e, stage, legs) => lost \subseteq lost'
    /\ Return => lost \subseteq lost'
  BY DEF Await, Return

LEMMA TakenDriven ==
    ASSUME TypeOK, TimerDriven, TakeEvent
    PROVE  TimerDriven'
  <1>1. queue \in Seq(Event)
    BY DEF TypeOK, ConferenceOK
  <1>2. ASSUME NEW type, type # "expired", Takes(type), queue' = Tail(queue),
               active' = active, monitor' = monitor, lost \subseteq lost'
        PROVE  TimerDriven'
    <2>1. ~Has("start_timer", "save")
      BY <1>2 DEF Takes, Has
    <2>2. Queued("expired") => Queued("expired")'
      BY <1>1, <1>2, TakeKeeps
    <2> QED
      BY <1>2, <2>1, <2>2, OtherHandlerKeepsDriven DEF TimerDriven, Driven
  <1>3. CASE ExecuteStatus
    BY <1>2, <1>3, LostGrows DEF ExecuteStatus, timerVars
  <1>4. CASE ExecuteStartTimer
    <2>1. CASE Return /\ UNCHANGED <<active, ahead>>
      BY <1>2, <1>4, <2>1, LostGrows DEF ExecuteStartTimer
    <2>2. CASE Await(StartTimer, "save", {})
      <3>1. Has("start_timer", "save")' \/ "start_timer" \in lost'
        <4>1. StartTimer.type = "start_timer"
          BY DEF StartTimer
        <4>2. CASE task = "sinking"
          BY <2>2, <4>1, <4>2 DEF Await, Watched
        <4>3. CASE task # "sinking"
          BY <2>2, <4>1, <4>3 DEF Await, Has
        <4> QED  BY <4>2, <4>3
      <3> QED  BY <3>1 DEF TimerDriven
    <2> QED  BY <1>4, <2>1, <2>2 DEF ExecuteStartTimer
  <1>5. CASE ExecuteExpired
    BY <1>5 DEF ExecuteExpired, TimerDriven
  <1>6. CASE ExecuteCancelTimer
    BY <1>6 DEF ExecuteCancelTimer, TimerDriven
  <1>7. CASE ExecuteEnd
    BY <1>2, <1>7, LostGrows DEF ExecuteEnd, timerVars
  <1>8. CASE ExecuteSink
    BY <1>2, <1>8, LostGrows DEF ExecuteSink, timerVars
  <1>9. CASE ExecuteAdd
    BY <1>2, <1>9, LostGrows DEF ExecuteAdd, timerVars, confVars
  <1>10. CASE ExecuteRemove
    BY <1>2, <1>10, LostGrows DEF ExecuteRemove, timerVars, confVars
  <1> QED
    BY <1>3, <1>4, <1>5, <1>6, <1>7, <1>8, <1>9, <1>10 DEF TakeEvent

LEMMA ResumedDriven ==
    ASSUME TypeOK, TimerDriven, ResumeHandler
    PROVE  TimerDriven'
  <1>1. queue \in Seq(Event)
    BY DEF TypeOK, ConferenceOK
  <1>2. ASSUME ~Has("start_timer", "save"), active' = active,
               monitor' = monitor, lost \subseteq lost',
               queue' = queue \/ \E e : queue' = Append(queue, e)
        PROVE  TimerDriven'
    <2>1. Queued("expired") => Queued("expired")'
      BY <1>1, <1>2, AppendKeeps, UnchangedKeeps
    <2> QED
      BY <1>2, <2>1, OtherHandlerKeepsDriven DEF TimerDriven, Driven
  <1>3. CASE HandlerSaved
    BY <1>2, <1>3, LostGrows DEF HandlerSaved, Has, confVars, timerVars
  <1>4. CASE StatusAnnounced
    BY <1>2, <1>4, LostGrows DEF StatusAnnounced, Has, confVars, timerVars
  <1>5. CASE TimerStarted
    BY <1>5 DEF TimerStarted, TimerDriven
  <1>6. CASE ExpirySaved
    BY <1>2, <1>6, LostGrows DEF ExpirySaved, Has, confVars, timerVars
  <1>7. CASE EndLooksUp
    BY <1>2, <1>7, LostGrows DEF EndLooksUp, Has, confVars, timerVars
  <1>8. CASE EndHangsUp
    BY <1>2, <1>8, LostGrows DEF EndHangsUp, Has, confVars, timerVars
  <1>9. CASE EndHungUp
    BY <1>2, <1>9, LostGrows DEF EndHungUp, Has, confVars, timerVars
  <1>10. CASE SinkSaved
    BY <1>2, <1>10 DEF SinkSaved, Has, timerVars
  <1>11. CASE AddCalls
    BY <1>2, <1>11, LostGrows DEF AddCalls, Has, confVars, timerVars
  <1>12. CASE AddRecords
    BY <1>2, <1>12, LostGrows DEF AddRecords, Has, timerVars
  <1>13. CASE RemoveAnnounced
    BY <1>2, <1>13, LostGrows DEF RemoveAnnounced, Has, confVars, timerVars
  <1>14. CASE RemoveHangsUp
    BY <1>2, <1>14, LostGrows DEF RemoveHangsUp, Has, timerVars
  <1>15. CASE RemoveForgets
    BY <1>2, <1>15, LostGrows DEF RemoveForgets, Has, timerVars
  <1> QED
    BY <1>3, <1>4, <1>5, <1>6, <1>7, <1>8, <1>9, <1>10, <1>11, <1>12, <1>13,
       <1>14, <1>15 DEF ResumeHandler

(* The other tasks: they leave the loop alone, or drop its handler. *)
LEMMA OthersDriven ==
    ASSUME TypeOK, TimerDriven,
           \/ LoopStops \/ HandlerCut \/ Monitor \/ Teachers \/ Voice
           \/ \E r \in Requests : StartStep(r) \/ StartFailure(r)
    PROVE  TimerDriven'
  <1>1. queue \in Seq(Event)
    BY DEF TypeOK, ConferenceOK
  <1>2. ASSUME active' = active, monitor' = monitor, queue' = queue,
               NEW next, DropHandler(next)
        PROVE  TimerDriven'
    BY <1>2, DropKeepsDriven DEF TimerDriven, Driven
  <1>3. ASSUME active' = active, monitor' = monitor, UNCHANGED <<ev, at, lost>>,
               task = "busy" => task' = "busy",
               queue' = queue \/ \E e : queue' = Append(queue, e)
        PROVE  TimerDriven'
    <2>1. Queued("expired") => Queued("expired")'
      BY <1>1, <1>3, AppendKeeps, UnchangedKeeps
    <2>2. Has("start_timer", "save") => Has("start_timer", "save")'
      BY <1>3 DEF Has
    <2> QED  BY <1>3, <2>1, <2>2 DEF TimerDriven
  <1>4. CASE LoopStops
    <2>1. ~Has("start_timer", "save")
      BY <1>4 DEF LoopStops, Has
    <2> QED
      BY <1>4, <2>1, UnchangedKeeps
         DEF LoopStops, TimerDriven, confVars, timerVars
  <1>5. CASE HandlerCut
    BY <1>2, <1>5 DEF HandlerCut, confVars, timerVars
  <1>6. CASE MonitorExpires
    BY <1>1, <1>6, AppendedIsQueued DEF MonitorExpires, TimerDriven, TimerExpired
  <1>7. CASE MonitorStops
    BY <1>7 DEF MonitorStops, TimerDriven, confVars
  <1>8. CASE Teachers
    <2>1. ASSUME NEW r \in Requests, RequestStart(r)
          PROVE  TimerDriven'
      BY <1>2, <2>1 DEF RequestStart, confVars, timerVars
    <2>2. ASSUME NEW command, NEW e, Enqueue(command, e),
                 task = "busy" => task' = "busy"
          PROVE  TimerDriven'
      BY <1>3, <2>2 DEF Enqueue, confVars, timerVars
    <2> QED
      BY <1>8, <2>1, <2>2
         DEF Teachers, RequestAdd, RequestRemove, RequestEnd, RequestSink
  <1>9. CASE Voice
    BY <1>3, <1>9
       DEF Voice, LegAnswered, LegEnds, Deliver, confVars, loopVars, timerVars
  <1>10. ASSUME NEW r \in Requests, StartStep(r)
         PROVE  TimerDriven'
    <2>1. CASE StartSaved(r)
      <3>1. active => monitor'
        BY <2>1 DEF StartSaved
      <3> QED  BY <2>1, <3>1 DEF StartSaved, TimerDriven, confVars
    <2>2. CASE ~StartSaved(r)
      BY <1>3, <1>10, <2>2
         DEF StartStep, StartPersisted, StartBatch, StartRuns, StartCalls,
             StartRecords, confVars, loopVars, timerVars
    <2> QED  BY <2>1, <2>2
  <1>11. ASSUME NEW r \in Requests, StartFailure(r)
         PROVE  TimerDriven'
    BY <1>2, <1>3, <1>11
       DEF StartFailure, StartSaveFails, StartCallFails, FailStart, confVars,
           loopVars, timerVars
  <1> QED
    BY <1>4, <1>5, <1>6, <1>7, <1>8, <1>9, <1>10, <1>11 DEF Monitor

(***************************************************************************)
(* A timer that is on is always going somewhere: the teacher is never      *)
(* shown a countdown that nobody counts, unless the handler of             *)
(* StartTeacherDisconnectTimerEvent was cut short.                         *)
(***************************************************************************)
THEOREM TimerAlwaysDriven == Spec => []TimerDriven
  <1>1. Init => TypeOK /\ TimerDriven
    BY InitType DEF Init, TimerDriven
  <1>2. TypeOK /\ TimerDriven /\ [Next]_vars => TypeOK' /\ TimerDriven'
    <2> SUFFICES ASSUME TypeOK, TimerDriven, [Next]_vars
                 PROVE  TimerDriven'
      BY NextType
    <2>1. CASE UNCHANGED vars
      BY <2>1, UnchangedKeeps
         DEF TimerDriven, Has, vars, confVars, loopVars, timerVars
    <2> QED  BY <2>1, TakenDriven, ResumedDriven, OthersDriven DEF Next
  <1> QED  BY <1>1, <1>2, PTL DEF Spec

-----------------------------------------------------------------------------
(* The event loop is alive. *)

(* A loop that has cancelled itself belongs to a conference that the manager *)
(* has forgotten: LoopAlive is inductive only together with this.            *)
SinkingForgotten == task = "sinking" => ~registered

LoopInv == LoopAlive /\ SinkingForgotten

(* Handlers keep a loop alive that is, and start no conference. *)
LEMMA LoopKeeps ==
    ASSUME LoopInv, registered' => registered, running' => running,
           starts' = starts,
           task' = "none" => task \in {"none", "sinking"},
           task' = "sinking" => task = "sinking" \/ ~registered'
    PROVE  LoopInv'
  BY DEF LoopInv, LoopAlive, SinkingForgotten, UnderWay, StartFailed

LEMMA AwaitTask ==
    ASSUME NEW e, NEW stage, NEW legs, Await(e, stage, legs)
    PROVE  /\ task' = "none" => task = "sinking"
           /\ task' # "sinking"
  BY DEF Await

LEMMA ReturnTask ==
    ASSUME Return
    PROVE  /\ task' # "none"
           /\ task' = "sinking" => task = "sinking"
  BY DEF Return

LEMMA LoopOwnSteps ==
    ASSUME LoopInv, TakeEvent \/ LoopStops \/ ResumeHandler
    PROVE  LoopInv'
  <1>1. CASE TakeEvent
    BY <1>1, LoopKeeps, AwaitTask, ReturnTask
       DEF TakeEvent, ExecuteStatus, ExecuteStartTimer, ExecuteExpired,
           ExecuteCancelTimer, ExecuteEnd, ExecuteSink, ExecuteAdd,
           ExecuteRemove, confVars, startVars
  <1>2. CASE LoopStops
    BY <1>2, LoopKeeps DEF LoopStops, confVars, startVars
  <1>3. CASE SinkSaved
    BY <1>3, LoopKeeps DEF SinkSaved, startVars
  <1>4. CASE ResumeHandler /\ ~SinkSaved
    <2>1. UNCHANGED <<registered, running, starts>>
      BY <1>4
         DEF ResumeHandler, HandlerSaved, StatusAnnounced, TimerStarted,
             ExpirySaved, EndLooksUp, EndHangsUp, EndHungUp, AddCalls,
             AddRecords, RemoveAnnounced, RemoveHangsUp, RemoveForgets,
             confVars, startVars
    <2>2. Return \/ \E e, stage, legs : Await(e, stage, legs)
      BY <1>4
         DEF ResumeHandler, HandlerSaved, StatusAnnounced, TimerStarted,
             ExpirySaved, EndLooksUp, EndHangsUp, EndHungUp, AddCalls,
             AddRecords, RemoveAnnounced, RemoveHangsUp, RemoveForgets
    <2> QED  BY <2>1, <2>2, LoopKeeps, AwaitTask, ReturnTask
  <1> QED  BY <1>1, <1>2, <1>3, <1>4

LEMMA LoopOtherSteps ==
    ASSUME TypeOK, LoopInv, task # "sinking",
           \/ HandlerCut \/ Monitor \/ Teachers \/ Voice
           \/ \E r \in Requests : StartStep(r) \/ StartFailure(r)
    PROVE  LoopInv'
  <1>1. CASE HandlerCut
    BY <1>1, LoopKeeps DEF HandlerCut, DropHandler, confVars, startVars
  <1>2. CASE Monitor
    BY <1>2, LoopKeeps
       DEF Monitor, MonitorExpires, MonitorStops, confVars, loopVars, startVars
  <1>3. CASE Voice
    BY <1>3, LoopKeeps
       DEF Voice, LegAnswered, LegEnds, Deliver, confVars, loopVars, startVars
  <1>4. CASE Teachers
    <2>1. ASSUME NEW r \in Requests, RequestStart(r)
          PROVE  LoopInv'
      BY <2>1 DEF RequestStart, DropHandler, LoopInv, LoopAlive, SinkingForgotten
    <2>2. ASSUME NEW command, NEW e, Enqueue(command, e),
                 task' = task \/ task' = "idle"
          PROVE  LoopInv'
      BY <2>2, LoopKeeps DEF Enqueue, confVars, startVars
    <2> QED
      BY <1>4, <2>1, <2>2
         DEF Teachers, RequestAdd, RequestRemove, RequestEnd, RequestSink
  <1>5. ASSUME NEW r \in Requests, StartStep(r)
        PROVE  LoopInv'
    <2>1. UNCHANGED <<registered, task>>
      BY <1>5
         DEF StartStep, StartPersisted, StartBatch, StartRuns, StartSaved,
             StartCalls, StartRecords, confVars, loopVars
    <2>2. starts \in [Requests -> {"idle", "persist", "dial", "save", "done",
                                   "failed"}]
      BY DEF TypeOK, StartsOK
    <2>3. CASE StartRuns(r)
      BY <2>1, <2>2, <2>3
         DEF StartRuns, LoopInv, LoopAlive, SinkingForgotten, UnderWay,
             StartFailed
    <2>4. CASE StartSaved(r)
      BY <2>1, <2>2, <2>4
         DEF StartSaved, LoopInv, LoopAlive, SinkingForgotten, UnderWay,
             StartFailed, confVars
    <2>5. CASE StartPersisted(r)
      BY <2>1, <2>2, <2>5
         DEF StartPersisted, LoopInv, LoopAlive, SinkingForgotten, UnderWay,
             StartFailed, confVars
    <2>6. CASE UNCHANGED <<running, starts>>
      BY <2>1, <2>6, LoopKeeps
    <2>7. \/ StartRuns(r) \/ StartSaved(r) \/ StartPersisted(r)
          \/ UNCHANGED <<running, starts>>
      BY <1>5 DEF StartStep, StartBatch, StartCalls, StartRecords, confVars
    <2> QED  BY <2>3, <2>4, <2>5, <2>6, <2>7
  <1>6. ASSUME NEW r \in Requests, StartFailure(r)
        PROVE  LoopInv'
    <2>1. CASE FailStart(r)
      <3>1. StartFailed'
        BY <2>1 DEF FailStart, StartFailed, TypeOK, StartsOK
      <3>2. task' = "none"
        BY <2>1 DEF FailStart, DropHandler
      <3> QED  BY <3>1, <3>2 DEF LoopInv, LoopAlive, SinkingForgotten
    <2>2. CASE UNCHANGED <<starts, loopVars, voiceVars>> /\ UNCHANGED confVars
      BY <2>2, LoopKeeps DEF confVars, loopVars
    <2> QED
      BY <1>6, <2>1, <2>2 DEF StartFailure, StartSaveFails, StartCallFails
  <1> QED  BY <1>1, <1>2, <1>3, <1>4, <1>5, <1>6

(***************************************************************************)
(* A conference the manager knows, that runs or is being started and whose *)
(* starts have not failed, has an event loop: no end, sink, timeout, second *)
(* start or request in any order leaves it deaf.                           *)
(***************************************************************************)
THEOREM LoopAlwaysAlive == Spec => []LoopAlive
  <1>1. Init => TypeOK /\ LoopInv
    <2>1. Init => LoopInv
      BY DEF Init, LoopInv, LoopAlive, SinkingForgotten, UnderWay
    <2> QED  BY <2>1, InitType
  <1>2. TypeOK /\ LoopInv /\ [Next]_vars => TypeOK' /\ LoopInv'
    <2> SUFFICES ASSUME TypeOK, LoopInv, [Next]_vars
                 PROVE  LoopInv'
      BY NextType
    <2>1. CASE UNCHANGED vars
      BY <2>1, LoopKeeps DEF vars, confVars, loopVars, startVars
    <2> QED  BY <2>1, LoopOwnSteps, LoopOtherSteps DEF Next
  <1>3. LoopInv => LoopAlive
    BY DEF LoopInv
  <1> QED  BY <1>1, <1>2, <1>3, PTL DEF Spec

-----------------------------------------------------------------------------
(* Every leg that is up can be hung up. *)

(* Only legs that exist are held anywhere. *)
Bounded ==
    /\ \A p \in Phones : recorded[p] <= Len(calls[p])
    /\ \A leg \in todo : leg[2] <= Len(calls[leg[1]])
    /\ \A r \in Requests : \A leg \in dials[r] : leg[2] <= Len(calls[leg[1]])

(* A handler holds legs while it records the one it has dialled, and while *)
(* it hangs up what Redis held.                                            *)
Handling ==
    /\ todo # {} => Has("add", "record") \/ Has("end", "hangup")
    /\ Has("add", "record") =>
           \E i \in 1..Len(calls[ev.phone]) : todo = {<<ev.phone, i>>}

(* A phone that is not contended has at most one leg up, the newest, and   *)
(* nobody is about to record an older one.                                 *)
OnlyNewestUp(p) ==
    \A i \in 1..Len(calls[p]) : i = Len(calls[p]) \/ calls[p][i] = "over"
NewestDialled(p) ==
    \A r \in Requests : \A leg \in dials[r] :
        leg[1] = p => leg[2] \in {0, Len(calls[p])}
NewestHandled(p) ==
    Has("add", "record") /\ ev.phone = p => <<p, Len(calls[p])>> \in todo

Newest == \A p \in Phones \ contended :
              OnlyNewestUp(p) /\ NewestDialled(p) /\ NewestHandled(p)

(* Calls are under way only while the start dials, or after it has failed. *)
Dialling == \A r \in Requests : dials[r] # {} => starts[r] \in {"dial", "failed"}

(* Nothing has happened that puts legs out of reach for good. *)
Known == registered /\ "add" \notin lost /\ ~StartFailed

(* What RemoveParticipantEvent forgets has been hung up. *)
Released ==
    Known /\ Has("remove", "forget") /\ ev.phone \notin contended =>
        \A i \in 1..Len(calls[ev.phone]) : calls[ev.phone][i] = "over"

HeldLeg(p, i) ==
    \/ recorded[p] = i
    \/ \E r \in Requests : <<p, i>> \in dials[r]
    \/ Has("add", "record") /\ <<p, i>> \in todo

Held ==
    Known => \A p \in Phones \ contended : \A i \in 1..Len(calls[p]) :
                 calls[p][i] # "over" => HeldLeg(p, i)

LegsInv == Bounded /\ Handling /\ Newest /\ Dialling /\ Released /\ Held

(* No leg is dialled, none comes back. *)
CallsKept ==
    \A p \in Phones :
        /\ Len(calls'[p]) = Len(calls[p])
        /\ \A i \in 1..Len(calls[p]) : calls[p][i] = "over" => calls'[p][i] = "over"

(* The loop goes on to where legs are held by nobody but an end. *)
LoopLeaves ==
    /\ Has("add", "record") => ~Known'
    /\ ~Has("add", "record")' /\ Released'
    /\ todo' # {} => Has("end", "hangup")'
    /\ \A leg \in todo' : leg[2] <= Len(calls[leg[1]])

LoopStays == UNCHANGED <<task, ev, at, todo>>

LEMMA NoNewLeg ==
    ASSUME TypeOK, TypeOK', LegsInv, CallsKept, contended \subseteq contended',
           UNCHANGED recorded, \A r \in Requests : dials'[r] \subseteq dials[r],
           Known' => Known /\ UNCHANGED dials, Dialling',
           LoopStays \/ LoopLeaves
    PROVE  LegsInv'
  <1> USE DEF CallsKept
  <1>1. /\ calls \in [Phones -> Seq(LegState)] /\ calls' \in [Phones -> Seq(LegState)]
        /\ todo \in Legs /\ todo' \in Legs /\ dials \in [Requests -> Legs]
    BY DEF TypeOK, VoiceOK, LoopOK, StartsOK, Legs
  <1>2. \A leg \in todo' : leg[2] <= Len(calls[leg[1]])
    BY DEF LegsInv, Bounded, LoopStays, LoopLeaves
  <1>3. Bounded'
    <2>1. \A leg \in todo' : leg[2] <= Len(calls'[leg[1]])
      BY <1>1, <1>2 DEF Legs
    <2>2. \A r \in Requests : \A leg \in dials'[r] : leg[2] <= Len(calls'[leg[1]])
      BY <1>1 DEF LegsInv, Bounded, Legs
    <2> QED  BY <1>1, <2>1, <2>2 DEF LegsInv, Bounded
  <1>4. Handling'
    <2>1. CASE LoopStays
      <3>1. Has("add", "record") => ev.phone \in Phones
        BY EventPhone DEF Has, TypeOK, LoopOK
      <3> QED  BY <1>1, <2>1, <3>1 DEF LegsInv, Handling, LoopStays, Has
    <2>2. CASE LoopLeaves
      BY <2>2 DEF LoopLeaves, Handling
    <2> QED  BY <2>1, <2>2
  <1>5. Newest'
    <2> SUFFICES ASSUME NEW p \in Phones, p \notin contended'
                 PROVE  OnlyNewestUp(p)' /\ NewestDialled(p)' /\ NewestHandled(p)'
      BY DEF Newest
    <2>1. OnlyNewestUp(p) /\ NewestDialled(p) /\ NewestHandled(p)
      BY DEF LegsInv, Newest
    <2>2. OnlyNewestUp(p)'
      BY <1>1, <2>1 DEF OnlyNewestUp
    <2>3. NewestDialled(p)'
      BY <1>1, <2>1 DEF NewestDialled
    <2>4. NewestHandled(p)'
      <3>1. CASE LoopStays
        BY <1>1, <2>1, <3>1 DEF NewestHandled, LoopStays, Has
      <3>2. CASE LoopLeaves
        BY <3>2 DEF NewestHandled, LoopLeaves
      <3> QED  BY <3>1, <3>2
    <2> QED  BY <2>2, <2>3, <2>4
  <1>6. Released'
    <2>1. CASE LoopStays
      <3>1. Has("remove", "forget") => ev.phone \in Phones
        BY EventPhone DEF Has, TypeOK, LoopOK
      <3> QED  BY <1>1, <2>1, <3>1 DEF LegsInv, Released, LoopStays, Has
    <2>2. CASE LoopLeaves
      BY <2>2 DEF LoopLeaves, Released
    <2> QED  BY <2>1, <2>2
  <1>7. Held'
    <2> SUFFICES ASSUME Known', NEW p \in Phones, p \notin contended',
                        NEW i \in 1..Len(calls'[p]), calls'[p][i] # "over"
                 PROVE  HeldLeg(p, i)'
      BY DEF Held
    <2>1. i \in 1..Len(calls[p]) /\ calls[p][i] # "over"
      BY <1>1
    <2>2. HeldLeg(p, i)
      BY <2>1 DEF LegsInv, Held
    <2> QED  BY <2>2 DEF HeldLeg, LoopStays, LoopLeaves, Has
  <1> QED  BY <1>3, <1>4, <1>5, <1>6, <1>7 DEF LegsInv
-----------------------------------------------------------------------------
(* create_call *)

LEMMA DialFacts ==
    ASSUME TypeOK, TypeOK', LegsInv, NEW p \in Phones, Dial(p)
    PROVE  /\ contended \subseteq contended'
           /\ \A q \in Phones \ {p} : calls'[q] = calls[q]
           /\ Len(calls[p]) \in Nat /\ Len(calls'[p]) = Len(calls[p]) + 1
           /\ \A i \in 1..Len(calls[p]) : calls'[p][i] = calls[p][i]
           /\ calls'[p][Len(calls[p]) + 1] = "ringing"
           /\ p \notin contended' =>
                /\ \A i \in 1..Len(calls[p]) : calls[p][i] = "over"
                /\ \A leg \in todo : leg[1] = p => leg[2] = 0
                /\ \A r \in Requests : \A leg \in dials[r] : leg[1] = p => leg[2] = 0
                /\ ev # RemoveParticipant(p)
  <1>1. /\ calls \in [Phones -> Seq(LegState)] /\ contended \subseteq Phones
        /\ todo \in Legs /\ dials \in [Requests -> Legs]
    BY DEF TypeOK, VoiceOK, LoopOK, StartsOK, Legs
  <1>2. /\ \A q \in Phones \ {p} : calls'[q] = calls[q]
        /\ calls'[p] = Append(calls[p], "ringing")
    BY <1>1 DEF Dial
  <1>3. /\ Len(calls[p]) \in Nat /\ Len(calls'[p]) = Len(calls[p]) + 1
        /\ \A i \in 1..Len(calls[p]) : calls'[p][i] = calls[p][i]
        /\ calls'[p][Len(calls[p]) + 1] = "ringing"
    BY <1>1, <1>2 DEF LegState
  <1>4. ASSUME p \notin contended'
        PROVE  /\ \A i \in 1..Len(calls[p]) : calls[p][i] = "over"
               /\ ~Unrecorded(p)
               /\ ev # RemoveParticipant(p)
    BY <1>4 DEF Dial
  <1>5. ASSUME p \notin contended'
        PROVE  \A leg \in todo : leg[1] = p => leg[2] = 0
    <2>1. \A i \in 1..Len(calls[p]) : <<p, i>> \notin todo
      BY <1>4, <1>5 DEF Unrecorded
    <2> QED  BY <1>1, <2>1 DEF Legs, LegsInv, Bounded
  <1>6. ASSUME p \notin contended'
        PROVE  \A r \in Requests : \A leg \in dials[r] : leg[1] = p => leg[2] = 0
    <2>1. \A i \in 1..Len(calls[p]) : \A r \in Requests : <<p, i>> \notin dials[r]
      BY <1>4, <1>6 DEF Unrecorded
    <2> QED  BY <1>1, <2>1 DEF Legs, LegsInv, Bounded
  <1>7. contended \subseteq contended'
    BY DEF Dial
  <1> QED  BY <1>2, <1>3, <1>4, <1>5, <1>6, <1>7

(* A thread of a handler that was cut dials: nobody holds that leg. *)
LEMMA LeftoverDials ==
    ASSUME TypeOK, TypeOK', LegsInv, NEW p \in Phones, Dial(p),
           UNCHANGED recorded, \A r \in Requests : dials'[r] \subseteq dials[r],
           Dialling', ~Known', todo' = {}, ~Has("add", "record")'
    PROVE  LegsInv'
  <1>1. /\ calls \in [Phones -> Seq(LegState)] /\ calls' \in [Phones -> Seq(LegState)]
        /\ dials \in [Requests -> Legs] /\ recorded \in [Phones -> Nat]
    BY DEF TypeOK, VoiceOK, LoopOK, StartsOK, Legs
  <1>2. \A q \in Phones : Len(calls[q]) <= Len(calls'[q])
    <2>1. Len(calls[p]) <= Len(calls'[p])
      BY DialFacts
    <2>2. \A q \in Phones : Len(calls[q]) \in Nat
      BY <1>1
    <2> QED  BY <2>1, <2>2, DialFacts
  <1>3. Bounded'
    <2>1. \A r \in Requests : \A leg \in dials'[r] : leg[2] <= Len(calls'[leg[1]])
      BY <1>1, <1>2 DEF LegsInv, Bounded, Legs
    <2>2. \A q \in Phones : recorded[q] <= Len(calls'[q])
      BY <1>1, <1>2 DEF LegsInv, Bounded
    <2> QED  BY <2>1, <2>2 DEF Bounded
  <1>4. Newest'
    <2> SUFFICES ASSUME NEW q \in Phones, q \notin contended'
                 PROVE  OnlyNewestUp(q)' /\ NewestDialled(q)' /\ NewestHandled(q)'
      BY DEF Newest
    <2>1. OnlyNewestUp(q) /\ NewestDialled(q)
      BY DialFacts DEF LegsInv, Newest
    <2>2. CASE q # p
      BY <2>1, <2>2, DialFacts DEF OnlyNewestUp, NewestDialled, NewestHandled
    <2>3. CASE q = p
      <3>1. OnlyNewestUp(q)'
        BY <1>1, <2>3, DialFacts DEF OnlyNewestUp, LegState
      <3>2. NewestDialled(q)'
        BY <2>3, DialFacts DEF NewestDialled
      <3> QED  BY <3>1, <3>2 DEF NewestHandled
    <2> QED  BY <2>2, <2>3
  <1> QED  BY <1>3, <1>4 DEF LegsInv, Handling, Released, Held

LEMMA AddDials ==
    ASSUME TypeOK, TypeOK', LegsInv, AddCalls
    PROVE  LegsInv'
  <1> DEFINE p == ev.phone
             n == Len(calls[p]) + 1
  <1>1. /\ calls \in [Phones -> Seq(LegState)] /\ calls' \in [Phones -> Seq(LegState)]
        /\ dials \in [Requests -> Legs] /\ recorded \in [Phones -> Nat]
    BY DEF TypeOK, VoiceOK, LoopOK, StartsOK, Legs
  <1>2. p \in Phones
    BY EventPhone DEF AddCalls, Has, TypeOK, LoopOK
  <1>3. /\ Dial(p) /\ todo' = {<<p, n>>} /\ ev' = ev
        /\ Has("add", "call") /\ Has("add", "record")'
        /\ UNCHANGED <<recorded, dials, starts, registered, lost>>
    BY DEF AddCalls, Has, Await, confVars, startVars
  <1> HIDE DEF p, n
  <1>4. \A q \in Phones : Len(calls[q]) \in Nat /\ Len(calls[q]) <= Len(calls'[q])
    <2>1. Len(calls[p]) <= Len(calls'[p])
      BY <1>2, <1>3, DialFacts
    <2>2. \A q \in Phones : Len(calls[q]) \in Nat
      BY <1>1
    <2> QED  BY <1>2, <1>3, <2>1, <2>2, DialFacts
  <1>5. Len(calls'[p]) = n /\ n \in Nat \ {0}
    BY <1>2, <1>3, <1>4, DialFacts DEF n
  <1>6. Bounded'
    <2>1. \A r \in Requests : \A leg \in dials[r] : leg[2] <= Len(calls'[leg[1]])
      BY <1>1, <1>4 DEF LegsInv, Bounded, Legs
    <2>2. \A q \in Phones : recorded[q] <= Len(calls'[q])
      BY <1>1, <1>4 DEF LegsInv, Bounded
    <2> QED  BY <1>3, <1>5, <2>1, <2>2 DEF Bounded
  <1>7. Handling'
    BY <1>3, <1>5 DEF Handling, p
  <1>8. Newest'
    <2> SUFFICES ASSUME NEW q \in Phones, q \notin contended'
                 PROVE  OnlyNewestUp(q)' /\ NewestDialled(q)' /\ NewestHandled(q)'
      BY DEF Newest
    <2>1. OnlyNewestUp(q) /\ NewestDialled(q)
      BY <1>2, <1>3, DialFacts DEF LegsInv, Newest
    <2>2. CASE q # p
      BY <1>2, <1>3, <2>1, <2>2, DialFacts DEF OnlyNewestUp, NewestDialled, NewestHandled, p
    <2>3. CASE q = p
      <3>1. OnlyNewestUp(q)'
        BY <1>2, <1>3, <1>1, <2>3, DialFacts DEF OnlyNewestUp, LegState
      <3>2. NewestDialled(q)'
        BY <1>2, <1>3, <2>3, DialFacts DEF NewestDialled
      <3>3. NewestHandled(q)'
        BY <1>3, <1>5, <2>3 DEF NewestHandled
      <3> QED  BY <3>1, <3>2, <3>3
    <2> QED  BY <2>2, <2>3
  <1>9. Dialling' /\ Released'
    BY <1>3 DEF LegsInv, Dialling, Released, Has
  <1>10. Held'
    <2> SUFFICES ASSUME Known', NEW q \in Phones, q \notin contended',
                        NEW i \in 1..Len(calls'[q]), calls'[q][i] # "over"
                 PROVE  HeldLeg(q, i)'
      BY DEF Held
    <2>1. Known
      BY <1>3 DEF Known, StartFailed
    <2>2. CASE q = p
      <3>1. i = n
        BY <1>2, <1>3, <1>4, <1>5, <2>2, DialFacts
      <3> QED  BY <1>3, <2>2, <3>1 DEF HeldLeg
    <2>3. CASE q # p
      <3>1. HeldLeg(q, i)
        BY <1>2, <1>3, <2>1, <2>3, DialFacts DEF LegsInv, Held
      <3> QED  BY <1>3, <3>1 DEF HeldLeg, Has
    <2> QED  BY <2>2, <2>3
  <1> QED  BY <1>6, <1>7, <1>8, <1>9, <1>10 DEF LegsInv

LEMMA StartDials ==
    ASSUME TypeOK, TypeOK', LegsInv, NEW r \in Requests, NEW p \in Phones,
           StartCalls(r, p)
    PROVE  LegsInv'
  <1> DEFINE n == Len(calls[p]) + 1
  <1>1. /\ calls \in [Phones -> Seq(LegState)] /\ calls' \in [Phones -> Seq(LegState)]
        /\ dials \in [Requests -> Legs] /\ dials' \in [Requests -> Legs]
        /\ recorded \in [Phones -> Nat] /\ todo \in Legs
    BY DEF TypeOK, VoiceOK, LoopOK, StartsOK, Legs
  <1>2. /\ Dial(p) /\ <<p, 0>> \in dials[r] /\ LoopStays
        /\ dials'[r] = (dials[r] \ {<<p, 0>>}) \cup {<<p, n>>}
        /\ \A q \in Requests \ {r} : dials'[q] = dials[q]
        /\ UNCHANGED <<recorded, starts, registered, lost>>
    BY <1>1 DEF StartCalls, LoopStays, confVars, loopVars
  <1> HIDE DEF n
  <1>3. \A q \in Phones : Len(calls[q]) \in Nat /\ Len(calls[q]) <= Len(calls'[q])
    <2>1. Len(calls[p]) <= Len(calls'[p])
      BY <1>2, DialFacts
    <2>2. \A q \in Phones : Len(calls[q]) \in Nat
      BY <1>1
    <2> QED  BY <1>2, <2>1, <2>2, DialFacts
  <1>4. Len(calls'[p]) = n /\ n \in Nat \ {0}
    BY <1>2, <1>3, DialFacts DEF n
  <1>5. \A q \in Requests : \A leg \in dials'[q] : leg \in dials[q] \/ leg = <<p, n>>
    BY <1>2
  <1>6. Bounded'
    <2>1. \A q \in Requests : \A leg \in dials'[q] : leg[2] <= Len(calls'[leg[1]])
      <3> SUFFICES ASSUME NEW q \in Requests, NEW leg \in dials'[q]
                   PROVE  leg[2] <= Len(calls'[leg[1]])
        OBVIOUS
      <3>1. CASE leg = <<p, n>>
        BY <1>4, <3>1
      <3>2. CASE leg \in dials[q]
        BY <1>1, <1>3, <3>2 DEF LegsInv, Bounded, Legs
      <3> QED  BY <1>5, <3>1, <3>2
    <2>2. \A q \in Phones : recorded[q] <= Len(calls'[q])
      BY <1>1, <1>3 DEF LegsInv, Bounded
    <2>3. \A leg \in todo : leg[2] <= Len(calls'[leg[1]])
      BY <1>1, <1>3 DEF LegsInv, Bounded, Legs
    <2> QED  BY <1>2, <2>1, <2>2, <2>3 DEF Bounded, LoopStays
  <1>7. Handling'
    <2>1. Has("add", "record") => ev.phone \in Phones
      BY EventPhone DEF Has, TypeOK, LoopOK
    <2> QED  BY <1>2, <1>3, <2>1 DEF LegsInv, Handling, LoopStays, Has
  <1>8. Newest'
    <2> SUFFICES ASSUME NEW q \in Phones, q \notin contended'
                 PROVE  OnlyNewestUp(q)' /\ NewestDialled(q)' /\ NewestHandled(q)'
      BY DEF Newest
    <2>1. OnlyNewestUp(q) /\ NewestDialled(q) /\ NewestHandled(q)
      BY <1>2, DialFacts DEF LegsInv, Newest
    <2>2. CASE q # p
      <3>1. OnlyNewestUp(q)'
        BY <1>2, <2>1, <2>2, DialFacts DEF OnlyNewestUp
      <3>2. NewestDialled(q)'
        BY <1>2, <1>5, <2>1, <2>2, DialFacts DEF NewestDialled
      <3>3. NewestHandled(q)'
        BY <1>2, <2>1, <2>2, DialFacts DEF NewestHandled, LoopStays, Has
      <3> QED  BY <3>1, <3>2, <3>3
    <2>3. CASE q = p
      <3>1. OnlyNewestUp(q)'
        <4>1. \A i \in 1..Len(calls[p]) : calls'[p][i] = "over"
          BY <1>2, <2>3, DialFacts
        <4>2. Len(calls'[p]) = Len(calls[p]) + 1 /\ Len(calls[p]) \in Nat
          BY <1>2, DialFacts
        <4> QED  BY <2>3, <4>1, <4>2 DEF OnlyNewestUp
      <3>2. NewestDialled(q)'
        <4>1. \A s \in Requests : \A leg \in dials[s] : leg[1] = p => leg[2] = 0
          BY <1>2, <2>3, DialFacts
        <4>2. <<p, n>>[1] = p /\ <<p, n>>[2] = Len(calls'[p])
          BY <1>4
        <4> QED  BY <1>5, <2>3, <4>1, <4>2 DEF NewestDialled
      <3>3. ~(Has("add", "record") /\ ev.phone = p)
        <4> SUFFICES ASSUME Has("add", "record"), ev.phone = p
                     PROVE  FALSE
          OBVIOUS
        <4>1. PICK i \in 1..Len(calls[p]) : todo = {<<p, i>>}
          BY DEF LegsInv, Handling
        <4>2. \A leg \in todo : leg[1] = p => leg[2] = 0
          BY <1>2, <2>3, DialFacts
        <4>3. i = 0
          BY <4>1, <4>2
        <4> QED  BY <1>3, <4>1, <4>3
      <3> QED  BY <1>2, <2>3, <3>1, <3>2, <3>3 DEF NewestHandled, LoopStays, Has
    <2> QED  BY <2>2, <2>3
  <1>9. Dialling'
    BY <1>1, <1>2 DEF LegsInv, Dialling
  <1>10. Released'
    <2> SUFFICES ASSUME Known', Has("remove", "forget")', ev.phone \notin contended'
                 PROVE  \A i \in 1..Len(calls'[ev.phone]) : calls'[ev.phone][i] = "over"
      BY <1>2 DEF Released, LoopStays
    <2>1. Has("remove", "forget") /\ Known
      BY <1>2 DEF Has, LoopStays, Known, StartFailed
    <2>2. ev \in PhoneEvent /\ ev.phone \in Phones
      BY <2>1, EventPhone, EventOfType DEF Has, TypeOK, LoopOK
    <2>3. ev = RemoveParticipant(ev.phone)
      BY <2>1, <2>2 DEF Has, PhoneEvent, RemoveParticipant
    <2>4. ev.phone # p
      BY <1>2, <2>3, DialFacts
    <2> QED  BY <1>2, <2>1, <2>2, <2>4, DialFacts DEF LegsInv, Released
  <1>11. Held'
    <2> SUFFICES ASSUME Known', NEW q \in Phones, q \notin contended',
                        NEW i \in 1..Len(calls'[q]), calls'[q][i] # "over"
                 PROVE  HeldLeg(q, i)'
      BY DEF Held
    <2>1. Known
      BY <1>2 DEF Known, StartFailed
    <2>2. CASE q = p
      <3>1. i = n
        BY <1>2, <1>3, <1>4, <2>2, DialFacts
      <3> QED  BY <1>2, <2>2, <3>1 DEF HeldLeg
    <2>3. CASE q # p
      <3>1. HeldLeg(q, i)
        BY <1>2, <2>1, <2>3, DialFacts DEF LegsInv, Held
      <3>2. \A s \in Requests : <<q, i>> \in dials[s] => <<q, i>> \in dials'[s]
        BY <1>2, <2>3
      <3> QED  BY <1>2, <3>1, <3>2 DEF HeldLeg, Has, LoopStays
    <2> QED  BY <2>2, <2>3
  <1> QED  BY <1>6, <1>7, <1>8, <1>9, <1>10, <1>11 DEF LegsInv

-----------------------------------------------------------------------------
(* Legs are recorded and forgotten, batches begin and end. *)

LEMMA SameCalls ==
    ASSUME TypeOK, TypeOK', LegsInv, UNCHANGED <<calls, contended>>,
           \A r \in Requests : \A leg \in dials'[r] : leg \in dials[r] \/ leg[2] = 0,
           \A p \in Phones : recorded'[p] <= Len(calls[p]), Dialling',
           \/ LoopStays
           \/ todo' = {} /\ ~Has("add", "record")' /\ ~Has("remove", "forget")',
           Known' => Known,
           Known' => \A p \in Phones \ contended : \A i \in 1..Len(calls[p]) :
                         calls[p][i] # "over" /\ HeldLeg(p, i) => HeldLeg(p, i)'
    PROVE  LegsInv'
  <1>1. calls \in [Phones -> Seq(LegState)] /\ dials' \in [Requests -> Legs]
    BY DEF TypeOK, VoiceOK, StartsOK, Legs
  <1>2. Bounded'
    <2>1. \A leg \in todo' : leg[2] <= Len(calls[leg[1]])
      BY DEF LegsInv, Bounded, LoopStays
    <2>2. ASSUME NEW r \in Requests, NEW leg \in dials'[r]
          PROVE  leg[2] <= Len(calls[leg[1]])
      <3>1. leg \in Phones \X Nat
        BY <1>1, <2>2 DEF Legs
      <3>2. Len(calls[leg[1]]) \in Nat
        BY <1>1, <3>1
      <3> QED  BY <3>1, <3>2 DEF LegsInv, Bounded
    <2> QED  BY <2>1, <2>2 DEF Bounded
  <1>3. Handling'
    BY DEF LegsInv, Handling, LoopStays, Has
  <1>4. Newest'
    <2> SUFFICES ASSUME NEW p \in Phones, p \notin contended
                 PROVE  OnlyNewestUp(p)' /\ NewestDialled(p)' /\ NewestHandled(p)'
      BY DEF Newest
    <2>1. OnlyNewestUp(p) /\ NewestDialled(p) /\ NewestHandled(p)
      BY DEF LegsInv, Newest
    <2>2. NewestHandled(p)'
      <3>1. CASE LoopStays
        BY <2>1, <3>1 DEF NewestHandled, LoopStays, Has
      <3>2. CASE ~Has("add", "record")'
        BY <3>2 DEF NewestHandled
      <3> QED  BY <3>1, <3>2
    <2>3. OnlyNewestUp(p)' /\ NewestDialled(p)'
      BY <2>1 DEF OnlyNewestUp, NewestDialled
    <2> QED  BY <2>2, <2>3
  <1>5. Released'
    BY DEF LegsInv, Released, LoopStays, Has
  <1>6. Held'
    BY DEF LegsInv, Held
  <1> QED  BY <1>2, <1>3, <1>4, <1>5, <1>6 DEF LegsInv

LEMMA AddRecordsLeg ==
    ASSUME TypeOK, TypeOK', LegsInv, AddRecords
    PROVE  LegsInv'
  <1>1. /\ calls \in [Phones -> Seq(LegState)] /\ recorded \in [Phones -> Nat]
    BY DEF TypeOK, VoiceOK
  <1>2. ev.phone \in Phones
    BY EventPhone DEF AddRecords, Has, TypeOK, LoopOK
  <1>3. PICK k \in 1..Len(calls[ev.phone]) : todo = {<<ev.phone, k>>}
    BY DEF LegsInv, Handling, AddRecords
  <1>4. recorded' = [recorded EXCEPT ![ev.phone] = k]
    <2>1. PICK leg \in todo : recorded' = [recorded EXCEPT ![leg[1]] = leg[2]]
      BY DEF AddRecords
    <2>2. leg[1] = ev.phone /\ leg[2] = k
      BY <1>3, <2>1
    <2> QED  BY <2>1, <2>2
  <1>5. /\ UNCHANGED <<calls, contended, dials, starts, registered, lost>>
        /\ todo' = {} /\ ~Has("add", "record")' /\ ~Has("remove", "forget")'
        /\ Has("add", "record")
    BY DEF AddRecords, Has, Await, startVars, voiceVars
  <1>6. Dialling' /\ (Known' => Known)
    BY <1>5 DEF LegsInv, Dialling, Known, StartFailed
  <1>7. \A p \in Phones : recorded'[p] <= Len(calls[p])
    BY <1>1, <1>2, <1>3, <1>4 DEF LegsInv, Bounded
  <1>8. ASSUME NEW p \in Phones \ contended, NEW i \in 1..Len(calls[p]),
               calls[p][i] # "over", HeldLeg(p, i)
        PROVE  HeldLeg(p, i)'
    <2>1. CASE p = ev.phone
      <3>1. i = Len(calls[p]) /\ <<p, Len(calls[p])>> \in todo
        BY <1>5, <1>8, <2>1 DEF LegsInv, Newest, OnlyNewestUp, NewestHandled
      <3>2. k = i
        BY <1>3, <3>1
      <3> QED  BY <1>1, <1>2, <1>4, <2>1, <3>2 DEF HeldLeg
    <2>2. CASE p # ev.phone
      <3>1. <<p, i>> \notin todo
        BY <1>3, <2>2
      <3> QED  BY <1>1, <1>2, <1>4, <1>5, <1>8, <2>2, <3>1 DEF HeldLeg
    <2> QED  BY <2>1, <2>2
  <1> QED  BY <1>5, <1>6, <1>7, <1>8, SameCalls

LEMMA StartRecordsLeg ==
    ASSUME TypeOK, TypeOK', LegsInv, NEW r \in Requests, NEW leg \in dials[r],
           StartRecords(r, leg)
    PROVE  LegsInv'
  <1>1. /\ calls \in [Phones -> Seq(LegState)] /\ recorded \in [Phones -> Nat]
        /\ dials \in [Requests -> Legs]
    BY DEF TypeOK, VoiceOK, StartsOK, Legs
  <1>2. PICK q \in Phones, k \in Nat : leg = <<q, k>>
    BY <1>1 DEF Legs
  <1>3. /\ recorded' = [recorded EXCEPT ![q] = k]
        /\ dials' = [dials EXCEPT ![r] = @ \ {<<q, k>>}]
        /\ k # 0 /\ <<q, k>> \in dials[r] /\ LoopStays
        /\ UNCHANGED <<calls, contended, starts, registered, lost>>
    BY <1>2 DEF StartRecords, LoopStays, confVars, loopVars, voiceVars
  <1>4. Dialling'
    BY <1>1, <1>3 DEF LegsInv, Dialling
  <1>5. \A p \in Phones : recorded'[p] <= Len(calls[p])
    BY <1>1, <1>2, <1>3 DEF LegsInv, Bounded
  <1>6. ASSUME NEW p \in Phones \ contended, NEW i \in 1..Len(calls[p]),
               calls[p][i] # "over", HeldLeg(p, i)
        PROVE  HeldLeg(p, i)'
    <2>1. CASE p = q
      <3>1. i = Len(calls[p]) /\ k = Len(calls[p])
        BY <1>3, <1>6, <2>1 DEF LegsInv, Newest, OnlyNewestUp, NewestDialled
      <3> QED  BY <1>1, <1>3, <2>1, <3>1 DEF HeldLeg
    <2>2. CASE p # q
      <3>1. \A s \in Requests : <<p, i>> \in dials[s] => <<p, i>> \in dials'[s]
        BY <1>1, <1>3, <2>2
      <3>2. recorded'[p] = recorded[p]
        BY <1>1, <1>3, <2>2
      <3> QED  BY <1>3, <1>6, <3>1, <3>2 DEF HeldLeg, LoopStays, Has
    <2> QED  BY <2>1, <2>2
  <1>7. Known' => Known
    BY <1>3 DEF Known, StartFailed
  <1>8. \A s \in Requests : \A l \in dials'[s] : l \in dials[s] \/ l[2] = 0
    BY <1>1, <1>3
  <1> QED  BY <1>3, <1>4, <1>5, <1>6, <1>7, <1>8, SameCalls

LEMMA BatchBegins ==
    ASSUME TypeOK, TypeOK', LegsInv, NEW r \in Requests, StartBatch(r)
    PROVE  LegsInv'
  <1>1. /\ dials \in [Requests -> Legs] /\ recorded \in [Phones -> Nat]
    BY DEF TypeOK, StartsOK, VoiceOK, Legs
  <1>2. PICK batch : dials' = [dials EXCEPT ![r] = batch \X {0}]
    BY DEF StartBatch
  <1>3. /\ starts[r] = "dial" /\ dials[r] = {} /\ LoopStays
        /\ UNCHANGED <<calls, contended, starts, registered, lost, recorded>>
    BY DEF StartBatch, LoopStays, confVars, loopVars, voiceVars
  <1>4. /\ \A s \in Requests : \A leg \in dials'[s] : leg \in dials[s] \/ leg[2] = 0
        /\ \A s \in Requests : dials[s] \subseteq dials'[s]
    BY <1>1, <1>2, <1>3
  <1>5. Dialling' /\ (Known' => Known)
    BY <1>1, <1>2, <1>3 DEF LegsInv, Dialling, Known, StartFailed
  <1>6. \A p \in Phones : recorded'[p] <= Len(calls[p])
    BY <1>3 DEF LegsInv, Bounded
  <1>7. \A p, i : HeldLeg(p, i) => HeldLeg(p, i)'
    BY <1>3, <1>4 DEF HeldLeg, LoopStays, Has
  <1> QED  BY <1>3, <1>4, <1>5, <1>6, <1>7, SameCalls

LEMMA LegForgotten ==
    ASSUME TypeOK, TypeOK', LegsInv, RemoveForgets \/ SinkSaved
    PROVE  LegsInv'
  <1>1. /\ recorded \in [Phones -> Nat] /\ recorded' \in [Phones -> Nat]
        /\ calls \in [Phones -> Seq(LegState)]
    BY DEF TypeOK, VoiceOK
  <1>2. /\ UNCHANGED <<calls, contended, starts, dials, lost>>
        /\ todo' = {} /\ ~Has("add", "record")' /\ ~Has("remove", "forget")'
        /\ registered' => registered
        /\ ~Has("add", "record")
    BY DEF RemoveForgets, SinkSaved, Has, Await, startVars, voiceVars
  <1>3. Dialling' /\ (Known' => Known)
    BY <1>2 DEF LegsInv, Dialling, Known, StartFailed
  <1>4. \A p \in Phones : recorded'[p] = recorded[p] \/ recorded'[p] = 0
    BY <1>1 DEF RemoveForgets, SinkSaved
  <1>5. \A p \in Phones : recorded'[p] <= Len(calls[p])
    BY <1>1, <1>4 DEF LegsInv, Bounded
  <1>6. ASSUME Known', NEW p \in Phones \ contended, NEW i \in 1..Len(calls[p]),
               calls[p][i] # "over", HeldLeg(p, i)
        PROVE  HeldLeg(p, i)'
    <2>1. RemoveForgets
      BY <1>6 DEF SinkSaved, Known
    <2>2. p # ev.phone
      BY <1>3, <1>6, <2>1 DEF RemoveForgets, LegsInv, Released
    <2>3. recorded'[p] = recorded[p]
      BY <1>1, <2>1, <2>2 DEF RemoveForgets
    <2> QED  BY <1>2, <1>6, <2>3 DEF HeldLeg
  <1> QED  BY <1>2, <1>3, <1>5, <1>6, SameCalls

-----------------------------------------------------------------------------
(* Legs are hung up and the loop goes on. *)

LEMMA HangUpKeeps ==
    ASSUME VoiceOK, NEW p \in Phones, NEW i \in Nat, NEW states,
           HangUp(<<p, i>>, states)
    PROVE  CallsKept
  <1>1. calls \in [Phones -> Seq(LegState)]
    BY DEF VoiceOK
  <1>2. CASE UNCHANGED calls
    BY <1>2 DEF CallsKept
  <1>3. CASE i \in 1..Len(calls[p]) /\ calls' = [calls EXCEPT ![p][i] = "over"]
    BY <1>1, <1>3 DEF CallsKept
  <1> QED  BY <1>2, <1>3 DEF HangUp

LEMMA LoopGoesOn ==
    ASSUME TypeOK, TypeOK', LegsInv,
           UNCHANGED <<calls, contended, recorded, dials, starts, registered>>,
           lost \subseteq lost',
           \/ LoopStays
           \/ ~Has("add", "record") /\ at' \notin {"record", "forget"} /\ todo' = {}
    PROVE  LegsInv'
  <1>1. Dialling' /\ (Known' => Known)
    BY DEF LegsInv, Dialling, Known, StartFailed
  <1>2. CallsKept
    BY DEF CallsKept
  <1>3. LoopStays \/ LoopLeaves
    BY DEF LoopLeaves, Has, Released
  <1> QED  BY <1>1, <1>2, <1>3, NoNewLeg

LEMMA AwaitsAt ==
    ASSUME NEW e, NEW stage, NEW legs, Await(e, stage, legs)
    PROVE  /\ task = "busy" => task' = "busy" /\ ev' = e /\ at' = stage /\ todo' = legs
           /\ at' \in {stage, "-"} /\ todo' \in {legs, {}}
           /\ lost \subseteq lost'
  BY DEF Await

LEMMA ReturnsAt ==
    ASSUME Return
    PROVE  at' = "-" /\ todo' = {} /\ lost' = lost
  BY DEF Return

LEMMA TakeEventLegs ==
    ASSUME TypeOK, TypeOK', LegsInv, TakeEvent
    PROVE  LegsInv'
  <1>1. UNCHANGED <<calls, contended, recorded, dials, starts, registered>>
    BY DEF TakeEvent, ExecuteStatus, ExecuteStartTimer, ExecuteExpired,
           ExecuteCancelTimer, ExecuteEnd, ExecuteSink, ExecuteAdd, ExecuteRemove,
           voiceVars, startVars, confVars
  <1>2. ~Has("add", "record")
    BY DEF TakeEvent, ExecuteStatus, ExecuteStartTimer, ExecuteExpired, Takes, Has,
           ExecuteCancelTimer, ExecuteEnd, ExecuteSink, ExecuteAdd, ExecuteRemove
  <1>3. \/ Return
        \/ \E e : \E stage \in Stage \ {"record", "forget"} : Await(e, stage, {})
    <2>1. CASE ExecuteStatus
      BY <2>1 DEF ExecuteStatus, Stage
    <2>2. CASE ExecuteStartTimer
      BY <2>2 DEF ExecuteStartTimer, Stage
    <2>3. CASE ExecuteExpired
      BY <2>3 DEF ExecuteExpired, Stage
    <2>4. CASE ExecuteCancelTimer
      BY <2>4 DEF ExecuteCancelTimer, Stage
    <2>5. CASE ExecuteEnd
      BY <2>5 DEF ExecuteEnd, Stage
    <2>6. CASE ExecuteSink
      BY <2>6 DEF ExecuteSink, Stage
    <2>7. CASE ExecuteAdd
      BY <2>7 DEF ExecuteAdd, Stage
    <2>8. CASE ExecuteRemove
      BY <2>8 DEF ExecuteRemove, Stage
    <2> QED  BY <2>1, <2>2, <2>3, <2>4, <2>5, <2>6, <2>7, <2>8 DEF TakeEvent
  <1>4. at' \notin {"record", "forget"} /\ todo' = {} /\ lost \subseteq lost'
    BY <1>3, AwaitsAt, ReturnsAt DEF Stage
  <1> QED  BY <1>1, <1>2, <1>4, LoopGoesOn

LEMMA RemoveHangsUpLegs ==
    ASSUME TypeOK, TypeOK', LegsInv, RemoveHangsUp
    PROVE  LegsInv'
  <1> DEFINE p == ev.phone
  <1>1. /\ calls \in [Phones -> Seq(LegState)] /\ recorded \in [Phones -> Nat]
        /\ VoiceOK
    BY DEF TypeOK, VoiceOK
  <1>2. p \in Phones
    BY EventPhone DEF RemoveHangsUp, Has, TypeOK, LoopOK
  <1>3. /\ Has("remove", "hangup") /\ ~Has("add", "record") /\ ~Has("add", "record")'
        /\ ev' = ev /\ todo' = {} /\ lost' = lost
        /\ UNCHANGED <<recorded, dials, starts, registered>>
        /\ contended \subseteq contended' /\ (Unrecorded(p) => p \in contended')
    BY DEF RemoveHangsUp, Has, Await, startVars
  <1>4. \/ UNCHANGED calls /\ at' = "save"
        \/ HangUp(<<p, recorded[p]>>, {"ringing", "answered"})
    BY DEF RemoveHangsUp, Has, Await
  <1> HIDE DEF p
  <1>5. CallsKept
    BY <1>1, <1>2, <1>4, HangUpKeeps DEF CallsKept
  <1>6. Dialling' /\ (Known' => Known)
    BY <1>3 DEF LegsInv, Dialling, Known, StartFailed
  <1>7. Released'
    <2> SUFFICES ASSUME Known', at' = "forget", p \notin contended',
                        NEW i \in 1..Len(calls'[p])
                 PROVE  calls'[p][i] = "over"
      BY <1>3 DEF Released, Has, p
    <2>1. i \in 1..Len(calls[p])
      BY <1>2, <1>5 DEF CallsKept
    <2>2. CASE calls[p][i] = "over"
      BY <1>2, <1>5, <2>1, <2>2 DEF CallsKept
    <2>3. CASE calls[p][i] # "over"
      <3>1. HeldLeg(p, i)
        BY <1>2, <1>3, <1>6, <2>1, <2>3 DEF LegsInv, Held
      <3>2. recorded[p] = i
        BY <1>3, <2>1, <3>1 DEF HeldLeg, Unrecorded
      <3>3. calls[p][i] \in {"ringing", "answered"}
        BY <1>1, <1>2, <2>1, <2>3 DEF LegState
      <3> QED  BY <1>1, <1>2, <1>4, <2>1, <3>2, <3>3 DEF HangUp
    <2> QED  BY <2>2, <2>3
  <1>8. LoopLeaves
    BY <1>3, <1>7 DEF LoopLeaves
  <1> QED  BY <1>3, <1>5, <1>6, <1>8, NoNewLeg

LEMMA EndLegs ==
    ASSUME TypeOK, TypeOK', LegsInv, EndLooksUp \/ EndHangsUp
    PROVE  LegsInv'
  <1>1. VoiceOK /\ todo \in Legs
    BY DEF TypeOK, LoopOK, Legs
  <1>2. /\ ~Has("add", "record") /\ ~Has("add", "record")' /\ Has("end", "hangup")'
        /\ ~Has("remove", "forget")' /\ lost' = lost
        /\ UNCHANGED <<recorded, dials, starts, registered, contended>>
    BY DEF EndLooksUp, EndHangsUp, Has, Await, startVars, confVars, voiceVars
  <1>3. \/ EndLooksUp /\ UNCHANGED calls
             /\ todo' = {<<p, recorded[p]>> : p \in {q \in Phones : recorded[q] # 0}}
        \/ EndHangsUp /\ todo' \subseteq todo
    BY DEF EndLooksUp, EndHangsUp, Has, Await, voiceVars
  <1>4. CallsKept
    <2>1. CASE EndLooksUp
      BY <2>1 DEF EndLooksUp, CallsKept, voiceVars
    <2>2. CASE EndHangsUp
      <3>1. PICK leg \in todo : HangUp(leg, {"answered"}) \/ UNCHANGED calls
        BY <2>2 DEF EndHangsUp
      <3>2. PICK p \in Phones, i \in Nat : leg = <<p, i>>
        BY <1>1 DEF Legs
      <3> QED  BY <1>1, <3>1, <3>2, HangUpKeeps DEF CallsKept
    <2> QED  BY <2>1, <2>2
  <1>5. \A leg \in todo' : leg[2] <= Len(calls[leg[1]])
    BY <1>3 DEF LegsInv, Bounded
  <1>6. Dialling' /\ (Known' => Known)
    BY <1>2 DEF LegsInv, Dialling, Known, StartFailed
  <1>7. LoopLeaves
    BY <1>2, <1>5 DEF LoopLeaves, Released
  <1> QED  BY <1>2, <1>4, <1>6, <1>7, NoNewLeg

LEMMA ResumeHandlerLegs ==
    ASSUME TypeOK, TypeOK', LegsInv, ResumeHandler
    PROVE  LegsInv'
  <1>1. ASSUME \/ HandlerSaved \/ StatusAnnounced \/ TimerStarted \/ ExpirySaved
               \/ EndHungUp \/ RemoveAnnounced
        PROVE  LegsInv'
    <2>1. UNCHANGED <<calls, contended, recorded, dials, starts, registered>>
      BY <1>1 DEF HandlerSaved, StatusAnnounced, TimerStarted, ExpirySaved, EndHungUp,
                  RemoveAnnounced, voiceVars, startVars, confVars
    <2>2. ~Has("add", "record")
      BY <1>1 DEF HandlerSaved, StatusAnnounced, TimerStarted, ExpirySaved, EndHungUp,
                  RemoveAnnounced, Has
    <2>3. Return \/ \E e : \E stage \in {"save", "hangup"} : Await(e, stage, {})
      BY <1>1 DEF HandlerSaved, StatusAnnounced, TimerStarted, ExpirySaved, EndHungUp,
                  RemoveAnnounced
    <2>4. at' \notin {"record", "forget"} /\ todo' = {} /\ lost \subseteq lost'
      BY <2>3, AwaitsAt, ReturnsAt
    <2> QED  BY <2>1, <2>2, <2>4, LoopGoesOn
  <1> QED
    BY <1>1, EndLegs, AddDials, AddRecordsLeg, RemoveHangsUpLegs, LegForgotten
       DEF ResumeHandler

-----------------------------------------------------------------------------
(* Handlers are cut, and the other tasks. *)

LEMMA DroppedLegs ==
    ASSUME TypeOK, TypeOK', LegsInv, NEW next, DropHandler(next),
           UNCHANGED recorded, \A r \in Requests : dials'[r] \subseteq dials[r],
           Known' => Known /\ UNCHANGED dials, Dialling'
    PROVE  LegsInv'
  <1>1. /\ todo' = {} /\ ~Has("add", "record")' /\ ~Has("remove", "forget")'
        /\ task = "busy" => lost' = lost \cup ({ev.type} \cap Watched)
        /\ Leftover
    BY DEF DropHandler, Has
  <1>2. Has("add", "record") \/ Has("add", "call") => ~Known'
    BY <1>1 DEF Has, Known, Watched
  <1>3. LoopLeaves
    BY <1>1, <1>2 DEF LoopLeaves, Released
  <1>4. VoiceOK /\ todo \in Legs
    BY DEF TypeOK, LoopOK, Legs
  <1>5. CASE UNCHANGED voiceVars
    BY <1>3, <1>5, NoNewLeg DEF voiceVars, CallsKept
  <1>6. CASE Has("add", "call") /\ Dial(ev.phone)
    <2>1. ev.phone \in Phones
      BY <1>6, EventPhone DEF Has, TypeOK, LoopOK
    <2> QED  BY <1>1, <1>2, <1>6, <2>1, LeftoverDials
  <1>7. CASE /\ \E leg \in todo : HangUp(leg, {"answered"})
             /\ UNCHANGED contended
    <2>1. PICK leg \in todo : HangUp(leg, {"answered"})
      BY <1>7
    <2>2. PICK p \in Phones, i \in Nat : leg = <<p, i>>
      BY <1>4 DEF Legs
    <2>3. CallsKept
      BY <1>4, <2>1, <2>2, HangUpKeeps
    <2> QED  BY <1>3, <1>7, <2>3, NoNewLeg
  <1>8. CASE /\ Has("remove", "hangup")
             /\ HangUp(<<ev.phone, recorded[ev.phone]>>, {"ringing", "answered"})
             /\ UNCHANGED contended
    <2>1. ev.phone \in Phones /\ recorded[ev.phone] \in Nat
      BY <1>4, <1>8, EventPhone DEF Has, TypeOK, LoopOK, VoiceOK
    <2>2. CallsKept
      BY <1>4, <1>8, <2>1, HangUpKeeps
    <2> QED  BY <1>3, <1>8, <2>2, NoNewLeg
  <1> QED  BY <1>1, <1>5, <1>6, <1>7, <1>8 DEF Leftover

LEMMA StartsType ==
    ASSUME TypeOK
    PROVE  /\ starts \in [Requests -> {"idle", "persist", "dial", "save", "done", "failed"}]
           /\ dials \in [Requests -> Legs]
  BY DEF TypeOK, StartsOK, Legs

LEMMA StartFailureLegs ==
    ASSUME TypeOK, TypeOK', LegsInv, NEW r \in Requests, StartFailure(r)
    PROVE  LegsInv'
  <1>1. CASE StartSaveFails(r)
    <2>1. /\ UNCHANGED <<recorded, dials>> /\ DropHandler("none")
          /\ starts' = [starts EXCEPT ![r] = "failed"]
          /\ starts[r] \notin {"dial", "failed"}
      BY <1>1 DEF StartSaveFails, FailStart
    <2>2. ~Known'
      BY <2>1, StartsType DEF Known, StartFailed
    <2>3. Dialling'
      BY <2>1, StartsType DEF LegsInv, Dialling
    <2> QED  BY <2>1, <2>2, <2>3, DroppedLegs
  <1>2. ASSUME NEW leg \in dials[r], StartCallFails(r, leg)
        PROVE  LegsInv'
    <2>1. /\ UNCHANGED recorded
          /\ dials' = [dials EXCEPT ![r] = @ \ {leg}]
      BY <1>2 DEF StartCallFails
    <2>2. \A s \in Requests : dials'[s] \subseteq dials[s]
      BY <2>1, StartsType
    <2>3. CASE starts[r] = "dial"
      <3>1. DropHandler("none") /\ starts' = [starts EXCEPT ![r] = "failed"]
        BY <1>2, <2>3 DEF StartCallFails, FailStart
      <3>2. ~Known'
        BY <3>1, StartsType DEF Known, StartFailed
      <3>3. Dialling'
        BY <3>1, <2>2, StartsType DEF LegsInv, Dialling
      <3> QED  BY <2>1, <2>2, <3>1, <3>2, <3>3, DroppedLegs
    <2>4. CASE starts[r] # "dial"
      <3>1. UNCHANGED <<starts, loopVars, voiceVars>>
        BY <1>2, <2>4 DEF StartCallFails
      <3>2. starts[r] = "failed"
        BY <1>2, <2>4 DEF LegsInv, Dialling
      <3>3. ~Known'
        BY <3>1, <3>2 DEF Known, StartFailed
      <3>4. Dialling'
        BY <3>1, <2>2, StartsType DEF LegsInv, Dialling
      <3> QED
        BY <2>1, <2>2, <3>1, <3>3, <3>4, NoNewLeg
           DEF loopVars, voiceVars, LoopStays, CallsKept
    <2> QED  BY <2>3, <2>4
  <1> QED  BY <1>1, <1>2 DEF StartFailure

LEMMA StartStepLegs ==
    ASSUME TypeOK, TypeOK', LegsInv, NEW r \in Requests, StartStep(r)
    PROVE  LegsInv'
  <1>1. ASSUME StartPersisted(r) \/ StartRuns(r) \/ StartSaved(r)
        PROVE  LegsInv'
    <2>1. /\ UNCHANGED <<calls, contended, recorded, dials, registered, lost>> /\ LoopStays
          /\ \A s \in Requests \ {r} : starts'[s] = starts[s]
          /\ starts'[r] \in {"dial", "save", "done"} /\ starts[r] # "failed"
          /\ dials[r] # {} => starts'[r] = "dial"
      BY <1>1, StartsType
         DEF StartPersisted, StartRuns, StartSaved, LoopStays, confVars, voiceVars,
             loopVars, LegsInv, Dialling
    <2>2. Dialling' /\ (Known' => Known)
      BY <2>1 DEF LegsInv, Dialling, Known, StartFailed
    <2> QED  BY <2>1, <2>2, NoNewLeg DEF CallsKept
  <1> QED
    BY <1>1, BatchBegins, StartDials, StartRecordsLeg DEF StartStep

LEMMA TeachersLegs ==
    ASSUME TypeOK, TypeOK', LegsInv, Teachers \/ Monitor \/ LoopStops
    PROVE  LegsInv'
  <1>1. ASSUME NEW r \in Requests, RequestStart(r)
        PROVE  LegsInv'
    <2>1. /\ DropHandler("idle") /\ UNCHANGED <<recorded, dials, registered>>
          /\ starts[r] = "idle" /\ starts' = [starts EXCEPT ![r] = "persist"]
      BY <1>1 DEF RequestStart, confVars
    <2>2. Dialling' /\ (Known' => Known)
      BY <2>1, StartsType DEF LegsInv, Dialling, Known, StartFailed, DropHandler
    <2> QED  BY <2>1, <2>2, DroppedLegs
  <1>2. ASSUME NEW command, NEW e, Enqueue(command, e),
               task' = task \/ (task = "none" /\ task' = "idle")
        PROVE  LegsInv'
    <2>1. /\ UNCHANGED <<calls, contended, recorded, dials, starts, registered>>
          /\ UNCHANGED <<ev, at, todo, lost>>
      BY <1>2 DEF Enqueue, voiceVars, startVars, confVars
    <2>2. CASE task' = task
      BY <2>1, <2>2, LoopGoesOn DEF LoopStays
    <2>3. CASE task = "none" /\ task' = "idle"
      <3>1. ~Has("add", "record") /\ ~Has("end", "hangup") /\ ~Has("remove", "forget")'
            /\ ~Has("add", "record")'
        BY <2>3 DEF Has
      <3>2. todo = {}
        BY <3>1 DEF LegsInv, Handling
      <3>3. LoopLeaves
        BY <2>1, <3>1, <3>2 DEF LoopLeaves, Released
      <3>4. Dialling' /\ (Known' => Known)
        BY <2>1 DEF LegsInv, Dialling, Known, StartFailed
      <3> QED  BY <2>1, <3>3, <3>4, NoNewLeg DEF CallsKept
    <2> QED  BY <1>2, <2>2, <2>3
  <1>3. CASE Monitor
    BY <1>3, LoopGoesOn
       DEF Monitor, MonitorExpires, MonitorStops, voiceVars, startVars, confVars, loopVars,
           LoopStays
  <1>4. CASE LoopStops
    <2>1. /\ UNCHANGED <<calls, contended, recorded, dials, starts, registered>>
          /\ UNCHANGED <<ev, at, todo, lost>> /\ task = "sinking" /\ task' = "none"
      BY <1>4 DEF LoopStops, voiceVars, startVars, confVars
    <2>2. ~Has("add", "record") /\ ~Has("end", "hangup") /\ ~Has("remove", "forget")'
          /\ ~Has("add", "record")'
      BY <2>1 DEF Has
    <2>3. LoopLeaves
      BY <2>1, <2>2 DEF LoopLeaves, Released, LegsInv, Handling
    <2>4. Dialling' /\ (Known' => Known)
      BY <2>1 DEF LegsInv, Dialling, Known, StartFailed
    <2> QED  BY <2>1, <2>3, <2>4, NoNewLeg DEF CallsKept
  <1>5. CASE Teachers
    <2>1. ASSUME NEW p \in Phones, RequestAdd(p) \/ RequestRemove(p)
          PROVE  LegsInv'
      <3>1. CASE RequestAdd(p)
        <4>1. Enqueue("add", AddParticipant(p)) /\ task' = task
          BY <3>1 DEF RequestAdd
        <4> QED  BY <1>2, <4>1
      <3>2. CASE RequestRemove(p)
        <4>1. Enqueue("remove", RemoveParticipant(p)) /\ task' = task
          BY <3>2 DEF RequestRemove
        <4> QED  BY <1>2, <4>1
      <3> QED  BY <2>1, <3>1, <3>2
    <2>2. CASE RequestEnd
      <3>1. Enqueue("end", EndConference(FALSE)) /\ task' = task
        BY <2>2 DEF RequestEnd
      <3> QED  BY <1>2, <3>1
    <2>3. CASE RequestSink
      <3>1. /\ Enqueue("sink", SinkConference)
            /\ task' = task \/ (task = "none" /\ task' = "idle")
        BY <2>3 DEF RequestSink
      <3> QED  BY <1>2, <3>1
    <2> QED  BY <1>1, <1>5, <2>1, <2>2, <2>3 DEF Teachers
  <1> QED
    BY <1>3, <1>4, <1>5

LEMMA VoiceLegs ==
    ASSUME TypeOK, TypeOK', LegsInv, Voice
    PROVE  LegsInv'
  <1>1. calls \in [Phones -> Seq(LegState)]
    BY DEF TypeOK, VoiceOK
  <1>2. /\ UNCHANGED <<contended, recorded, dials, starts, registered, lost>> /\ LoopStays
    BY DEF Voice, LegAnswered, LegEnds, Deliver, startVars, confVars, loopVars, LoopStays
  <1>3. CallsKept
    <2>1. PICK p \in Phones :
             \/ \E i \in 1..Len(calls[p]) : LegAnswered(p, i) \/ LegEnds(p, i)
             \/ \E k \in 1..Len(hooks[p]) : Deliver(p, k)
      BY DEF Voice
    <2>2. ASSUME NEW i \in 1..Len(calls[p]), LegAnswered(p, i) \/ LegEnds(p, i)
          PROVE  CallsKept
      <3>1. PICK s \in LegState : calls' = [calls EXCEPT ![p][i] = s]
        BY <2>2 DEF LegAnswered, LegEnds, LegState
      <3>2. calls[p][i] # "over"
        BY <2>2 DEF LegAnswered, LegEnds
      <3> QED  BY <1>1, <3>1, <3>2 DEF CallsKept
    <2>3. ASSUME NEW k \in 1..Len(hooks[p]), Deliver(p, k)
          PROVE  CallsKept
      BY <2>3 DEF Deliver, CallsKept
    <2> QED  BY <2>1, <2>2, <2>3
  <1>4. Dialling' /\ (Known' => Known)
    BY <1>2 DEF LegsInv, Dialling, Known, StartFailed
  <1> QED  BY <1>2, <1>3, <1>4, NoNewLeg

LEMMA LegsStep ==
    ASSUME TypeOK, LegsInv, [Next]_vars
    PROVE  LegsInv'
  <1>1. TypeOK'
    BY NextType
  <1>2. CASE HandlerCut
    <2>1. /\ DropHandler("idle") /\ UNCHANGED <<recorded, dials, starts, registered>>
      BY <1>2 DEF HandlerCut, startVars, confVars
    <2>2. Dialling' /\ (Known' => Known)
      BY <2>1 DEF LegsInv, Dialling, Known, StartFailed, DropHandler
    <2> QED  BY <1>1, <2>1, <2>2, DroppedLegs
  <1>3. CASE UNCHANGED vars
    BY <1>1, <1>3, LoopGoesOn
       DEF vars, voiceVars, startVars, confVars, loopVars, LoopStays
  <1> QED
    BY <1>1, <1>2, <1>3, TakeEventLegs, ResumeHandlerLegs, StartStepLegs,
       StartFailureLegs, TeachersLegs, VoiceLegs DEF Next

LEMMA InitLegs == Init => LegsInv
  BY DEF Init, LegsInv, Bounded, Handling, Newest, Dialling, Released, Held, Has,
         OnlyNewestUp, NewestDialled, NewestHandled

(***************************************************************************)
(* Every leg that is up can be hung up, whatever add, remove, start, end,  *)
(* sink, cut handlers and failing requests do: it is in Redis or with the  *)
(* task that dialled it, but for the cases LegsReachable names.            *)
(***************************************************************************)
THEOREM LegsAlwaysReachable == Spec => []LegsReachable
  <1>1. Init => TypeOK /\ LegsInv
    BY InitType, InitLegs
  <1>2. TypeOK /\ LegsInv /\ [Next]_vars => TypeOK' /\ LegsInv'
    BY LegsStep, NextType
  <1>3. LegsInv => LegsReachable
    BY DEF LegsInv, Held, HeldLeg, Known, LegsReachable
  <1> QED  BY <1>1, <1>2, <1>3, PTL DEF Spec

-----------------------------------------------------------------------------
(* call_status says what the leg is. *)

(* The i-th event of the queue is the last that reports on p. *)
LastFor(p, i) ==
    /\ queue[i] \in StatusEvent /\ queue[i].phone = p
    /\ \A j \in i + 1..Len(queue) : ~(queue[j] \in StatusEvent /\ queue[j].phone = p)

(* The newest report about p, on its way or in the queue, is up to date. *)
LastHook(p) == hooks[p] # <<>> => hooks[p][Len(hooks[p])] = LegView(p)
LastQueued(p) ==
    registered /\ hooks[p] = <<>> =>
        \A i \in 1..Len(queue) : LastFor(p, i) => queue[i].status = LegView(p)

(* AddParticipantEvent enters the participant before the report about the *)
(* leg it has dialled is executed.                                        *)
Reported(p) ==
    registered /\ Has("add", "record") /\ ev.phone = p =>
        hooks[p] # <<>> \/ StatusQueued(p)

Agreed(p) ==
    registered /\ status[p] # Absent /\ hooks[p] = <<>> /\ ~StatusQueued(p) =>
        status[p] = LegView(p)

StatusInv == \A p \in Phones \ contended :
                 LastHook(p) /\ LastQueued(p) /\ Reported(p) /\ Agreed(p)

(* The queue changes, but not in what it reports on p. *)
QueueKeeps(p) ==
    \/ queue' = queue
    \/ \E e \in Event : /\ queue' = Append(queue, e)
                        /\ ~(e \in StatusEvent /\ e.phone = p)
    \/ /\ queue # <<>> /\ queue' = Tail(queue)
       /\ ~(Head(queue) \in StatusEvent /\ Head(queue).phone = p)

LEMMA KeptReports ==
    ASSUME TypeOK, TypeOK', NEW p \in Phones, QueueKeeps(p)
    PROVE  /\ StatusQueued(p)' = StatusQueued(p)
           /\ \A i \in 1..Len(queue') : LastFor(p, i)' =>
                 \E j \in 1..Len(queue) : LastFor(p, j) /\ queue'[i] = queue[j]
  <1>1. queue \in Seq(Event) /\ queue' \in Seq(Event) /\ Len(queue) \in Nat
    BY DEF TypeOK, ConferenceOK
  <1>2. CASE queue' = queue
    BY <1>1, <1>2 DEF StatusQueued, LastFor
  <1>3. ASSUME NEW e \in Event, queue' = Append(queue, e),
               ~(e \in StatusEvent /\ e.phone = p)
        PROVE  /\ StatusQueued(p)' = StatusQueued(p)
               /\ \A i \in 1..Len(queue') : LastFor(p, i)' =>
                     \E j \in 1..Len(queue) : LastFor(p, j) /\ queue'[i] = queue[j]
    <2>1. /\ Len(queue') = Len(queue) + 1 /\ queue'[Len(queue) + 1] = e
          /\ \A i \in 1..Len(queue) : queue'[i] = queue[i]
      BY <1>1, <1>3
    <2>2. \A i \in 1..Len(queue') : i \in 1..Len(queue) \/ queue'[i] = e
      BY <1>1, <2>1
    <2>3. StatusQueued(p)' = StatusQueued(p)
      BY <1>1, <1>3, <2>1, <2>2 DEF StatusQueued
    <2>4. ASSUME NEW i \in 1..Len(queue'), LastFor(p, i)'
          PROVE  i \in 1..Len(queue) /\ LastFor(p, i) /\ queue'[i] = queue[i]
      BY <1>1, <1>3, <2>1, <2>2, <2>4 DEF LastFor
    <2> QED  BY <2>3, <2>4
  <1>4. CASE /\ queue # <<>> /\ queue' = Tail(queue)
             /\ ~(Head(queue) \in StatusEvent /\ Head(queue).phone = p)
    <2>1. /\ Len(queue) = Len(queue') + 1 /\ Len(queue') \in Nat /\ queue[1] = Head(queue)
          /\ \A i \in 1..Len(queue') : queue'[i] = queue[i + 1]
      BY <1>1, <1>4
    <2>2. \A i \in 2..Len(queue) : i - 1 \in 1..Len(queue') /\ queue'[i - 1] = queue[i]
      BY <1>1, <2>1
    <2>3. StatusQueued(p)' = StatusQueued(p)
      <3>1. ASSUME StatusQueued(p)'
            PROVE  StatusQueued(p)
        BY <2>1, <3>1 DEF StatusQueued
      <3>2. ASSUME StatusQueued(p)
            PROVE  StatusQueued(p)'
        <4>1. PICK i \in 1..Len(queue) : queue[i] \in StatusEvent /\ queue[i].phone = p
          BY <3>2 DEF StatusQueued
        <4>2. i \in 2..Len(queue)
          BY <1>4, <2>1, <4>1
        <4> QED  BY <2>2, <4>1, <4>2 DEF StatusQueued
      <3> QED  BY <3>1, <3>2 DEF StatusQueued
    <2>4. ASSUME NEW i \in 1..Len(queue'), LastFor(p, i)'
          PROVE  i + 1 \in 1..Len(queue) /\ LastFor(p, i + 1) /\ queue'[i] = queue[i + 1]
      <3>1. i + 1 \in 1..Len(queue) /\ queue'[i] = queue[i + 1]
        BY <2>1
      <3>2. ASSUME NEW j \in i + 2..Len(queue)
            PROVE  ~(queue[j] \in StatusEvent /\ queue[j].phone = p)
        <4>1. j - 1 \in i + 1..Len(queue') /\ queue'[j - 1] = queue[j]
          BY <2>1, <2>2, <3>2
        <4> QED  BY <2>4, <4>1 DEF LastFor
      <3>3. (i + 1) + 1 = i + 2
        OBVIOUS
      <3> QED  BY <2>4, <3>1, <3>2, <3>3 DEF LastFor
    <2> QED  BY <2>3, <2>4
  <1> QED  BY <1>2, <1>3, <1>4 DEF QueueKeeps

(* A leg of p changes only together with a report about it. *)
Speaks(p) ==
    \/ UNCHANGED <<calls[p], hooks[p]>>
    \/ p \notin contended' => /\ hooks'[p] # <<>>
                              /\ hooks'[p][Len(hooks'[p])] = LegView(p)'

RecordWaits ==
    Has("add", "record")' => \/ Has("add", "record") /\ ev' = ev
                             \/ hooks'[ev'.phone] # <<>>

LEMMA ReportsKept ==
    ASSUME TypeOK, TypeOK', StatusInv, registered' => registered,
           contended \subseteq contended', RecordWaits,
           \A p \in Phones : QueueKeeps(p) /\ Speaks(p),
           \A p \in Phones : \/ status'[p] \in {status[p], Absent}
                             \/ Has("add", "record") /\ ev.phone = p
    PROVE  StatusInv'
  <1> SUFFICES ASSUME NEW p \in Phones, p \notin contended'
               PROVE  LastHook(p)' /\ LastQueued(p)' /\ Reported(p)' /\ Agreed(p)'
    BY DEF StatusInv
  <1>1. LastHook(p) /\ LastQueued(p) /\ Reported(p) /\ Agreed(p)
    BY DEF StatusInv
  <1>2. StatusQueued(p)' = StatusQueued(p)
    BY KeptReports
  <1>3. CASE UNCHANGED <<calls[p], hooks[p]>>
    <2>1. LegView(p)' = LegView(p)
      BY <1>3 DEF LegView
    <2>2. LastHook(p)'
      BY <1>1, <1>3, <2>1 DEF LastHook
    <2>3. LastQueued(p)'
      <3> SUFFICES ASSUME registered', hooks'[p] = <<>>,
                          NEW i \in 1..Len(queue'), LastFor(p, i)'
                   PROVE  queue'[i].status = LegView(p)'
        BY DEF LastQueued
      <3>1. PICK j \in 1..Len(queue) : LastFor(p, j) /\ queue'[i] = queue[j]
        BY KeptReports
      <3> QED  BY <1>1, <1>3, <2>1, <3>1 DEF LastQueued
    <2>4. Reported(p)'
      BY <1>1, <1>2, <1>3 DEF Reported, RecordWaits
    <2>5. Agreed(p)'
      <3>1. CASE Has("add", "record") /\ ev.phone = p
        BY <1>1, <1>2, <1>3, <3>1 DEF Reported, Agreed
      <3>2. CASE status'[p] \in {status[p], Absent}
        BY <1>1, <1>2, <1>3, <2>1, <3>2 DEF Agreed
      <3> QED  BY <3>1, <3>2
    <2> QED  BY <2>2, <2>3, <2>4, <2>5
  <1>4. CASE hooks'[p] # <<>> /\ hooks'[p][Len(hooks'[p])] = LegView(p)'
    BY <1>4 DEF LastHook, LastQueued, Reported, Agreed
  <1> QED  BY <1>3, <1>4 DEF Speaks

-----------------------------------------------------------------------------
(* The provider's reports. *)

LEMMA HooksType ==
    ASSUME TypeOK
    PROVE  /\ calls \in [Phones -> Seq(LegState)] /\ hooks \in [Phones -> Seq(Status)]
           /\ queue \in Seq(Event) /\ todo \in Legs /\ dials \in [Requests -> Legs]
           /\ recorded \in [Phones -> Nat]
  BY DEF TypeOK, ConferenceOK, LoopOK, StartsOK, VoiceOK, Legs

(* What becomes of a phone's newest leg is what its last webhook says. *)
LEMMA LegReports ==
    ASSUME TypeOK, LegsInv, NEW p \in Phones, NEW i \in 1..Len(calls[p]),
           calls[p][i] # "over", contended \subseteq contended',
           NEW s \in LegState, NEW h \in Status,
           calls' = [calls EXCEPT ![p][i] = s],
           hooks' = [hooks EXCEPT ![p] = Append(@, h)],
           <<s, h>> \in {<<"answered", "connected">>, <<"over", "disconnected">>}
    PROVE  \A q \in Phones : Speaks(q)
  <1> SUFFICES ASSUME NEW q \in Phones
               PROVE  Speaks(q)
    OBVIOUS
  <1>1. CASE q # p
    BY <1>1, HooksType DEF Speaks
  <1>2. CASE q = p
    <2> SUFFICES ASSUME p \notin contended'
                 PROVE  /\ hooks'[p] # <<>>
                        /\ hooks'[p][Len(hooks'[p])] = LegView(p)'
      BY <1>2 DEF Speaks
    <2>1. i = Len(calls[p])
      BY DEF LegsInv, Newest, OnlyNewestUp
    <2>2. hooks'[p] # <<>> /\ hooks'[p][Len(hooks'[p])] = h
      BY HooksType
    <2>3. /\ calls'[p] # <<>> /\ Len(calls'[p]) = i
          /\ calls'[p][Len(calls'[p])] = s
      BY <2>1, HooksType
    <2>4. LegView(p)' = h
      BY <2>3 DEF LegView
    <2> QED  BY <2>2, <2>4
  <1> QED  BY <1>1, <1>2

LEMMA DialSpeaks ==
    ASSUME TypeOK, NEW p \in Phones, Dial(p)
    PROVE  /\ \A q \in Phones : Speaks(q)
           /\ contended \subseteq contended' /\ hooks'[p] # <<>>
  <1>1. /\ calls' = [calls EXCEPT ![p] = Append(@, "ringing")]
        /\ hooks' = [hooks EXCEPT ![p] = Append(@, "connecting")]
        /\ contended \subseteq contended'
    BY DEF Dial
  <1>2. hooks'[p] # <<>> /\ hooks'[p][Len(hooks'[p])] = "connecting"
    <2>1. "connecting" \in Status /\ hooks[p] \in Seq(Status)
      BY HooksType DEF Status
    <2>2. hooks'[p] = Append(hooks[p], "connecting")
      BY <1>1, HooksType
    <2> QED  BY <2>1, <2>2
  <1>3. calls'[p] # <<>> /\ calls'[p][Len(calls'[p])] = "ringing"
    BY <1>1, HooksType DEF LegState
  <1>4. LegView(p)' = "connecting"
    BY <1>3 DEF LegView
  <1>5. \A q \in Phones \ {p} : UNCHANGED <<calls[q], hooks[q]>>
    BY <1>1, HooksType
  <1> QED  BY <1>1, <1>2, <1>4, <1>5 DEF Speaks

LEMMA HangUpSpeaks ==
    ASSUME TypeOK, LegsInv, NEW leg \in Phones \X Nat,
           NEW states \in SUBSET {"ringing", "answered"}, HangUp(leg, states),
           contended \subseteq contended'
    PROVE  \A q \in Phones : Speaks(q)
  <1>1. PICK p \in Phones, i \in Nat : leg = <<p, i>>
    OBVIOUS
  <1>2. CASE UNCHANGED <<calls, hooks>>
    BY <1>2 DEF Speaks
  <1>3. CASE /\ i \in 1..Len(calls[p]) /\ calls[p][i] \in states
             /\ calls' = [calls EXCEPT ![p][i] = "over"]
             /\ hooks' = [hooks EXCEPT ![p] = Append(@, "disconnected")]
    <2>1. calls[p][i] # "over"
      BY <1>3
    <2>2. "over" \in LegState /\ "disconnected" \in Status
      BY DEF LegState, Status
    <2> QED  BY <1>3, <2>1, <2>2, LegReports
  <1> QED  BY <1>1, <1>2, <1>3 DEF HangUp

LEMMA DroppedSpeaks ==
    ASSUME TypeOK, LegsInv, NEW next, DropHandler(next)
    PROVE  /\ \A q \in Phones : Speaks(q)
           /\ contended \subseteq contended' /\ RecordWaits
  <1>1. RecordWaits
    BY DEF DropHandler, RecordWaits, Has
  <1>2. CASE UNCHANGED voiceVars
    BY <1>1, <1>2 DEF voiceVars, Speaks
  <1>3. CASE Has("add", "call") /\ Dial(ev.phone)
    <2>1. ev.phone \in Phones
      BY <1>3, EventPhone DEF Has, TypeOK, LoopOK
    <2> QED  BY <1>1, <1>3, <2>1, DialSpeaks
  <1>4. CASE /\ \E leg \in todo : HangUp(leg, {"answered"})
             /\ UNCHANGED contended
    BY <1>1, <1>4, HangUpSpeaks, HooksType DEF Legs
  <1>5. CASE /\ Has("remove", "hangup")
             /\ HangUp(<<ev.phone, recorded[ev.phone]>>, {"ringing", "answered"})
             /\ UNCHANGED contended
    <2>1. <<ev.phone, recorded[ev.phone]>> \in Phones \X Nat
      BY <1>5, EventPhone DEF Has, TypeOK, LoopOK, VoiceOK
    <2> QED  BY <1>1, <1>5, <2>1, HangUpSpeaks
  <1> QED  BY <1>2, <1>3, <1>4, <1>5 DEF DropHandler, Leftover

(* dispatch_conference_event, with the webhooks of a phone in order *)
LEMMA DeliveredInOrder ==
    ASSUME TypeOK, TypeOK', StatusInv, NEW p \in Phones, NEW k \in 1..Len(hooks[p]),
           Deliver(p, k), "reorder" \notin Faults
    PROVE  StatusInv'
  <1> DEFINE h == hooks[p]
             e == StatusChange(p, h[1])
  <1>1. k = 1 /\ h \in Seq(Status) /\ Len(h) \in Nat \ {0}
    BY HooksType DEF Deliver
  <1>2. /\ hooks' = [hooks EXCEPT ![p] = SubSeq(h, 1, 0) \o SubSeq(h, 2, Len(h))]
        /\ queue' = IF registered THEN Append(queue, e) ELSE queue
        /\ UNCHANGED <<status, registered, calls, contended, task, ev, at, todo>>
    BY <1>1 DEF Deliver, confVars, loopVars
  <1>3. /\ Len(hooks'[p]) = Len(h) - 1
        /\ \A i \in 1..Len(hooks'[p]) : hooks'[p][i] = h[i + 1]
    <2>1. hooks'[p] = SubSeq(h, 1, 0) \o SubSeq(h, 2, Len(h))
      BY <1>2, HooksType
    <2>2. SubSeq(h, 1, 0) = <<>> /\ SubSeq(h, 2, Len(h)) \in Seq(Status)
      BY <1>1
    <2>3. hooks'[p] = SubSeq(h, 2, Len(h))
      BY <2>1, <2>2
    <2> QED  BY <1>1, <2>3
  <1>4. /\ e \in Event /\ e \in StatusEvent /\ e.phone = p /\ e.status = h[1]
    <2>1. h[1] \in Status
      BY <1>1
    <2> QED  BY <2>1, ConstructedEvents DEF StatusChange, StatusEvent
  <1> HIDE DEF h, e
  <1>5. queue \in Seq(Event) /\ Len(queue) \in Nat
    BY HooksType
  <1> SUFFICES ASSUME NEW q \in Phones, q \notin contended
               PROVE  LastHook(q)' /\ LastQueued(q)' /\ Reported(q)' /\ Agreed(q)'
    BY <1>2 DEF StatusInv
  <1>6. LastHook(q) /\ LastQueued(q) /\ Reported(q) /\ Agreed(q)
    BY DEF StatusInv
  <1>7. LegView(q)' = LegView(q)
    BY <1>2 DEF LegView
  <1>8. CASE q # p
    <2>1. hooks'[q] = hooks[q]
      BY <1>2, <1>8, HooksType
    <2>2. QueueKeeps(q)
      BY <1>2, <1>4, <1>8 DEF QueueKeeps
    <2>3. LastHook(q)'
      BY <1>6, <1>7, <2>1 DEF LastHook
    <2>4. LastQueued(q)'
      <3> SUFFICES ASSUME registered', hooks'[q] = <<>>,
                          NEW i \in 1..Len(queue'), LastFor(q, i)'
                   PROVE  queue'[i].status = LegView(q)'
        BY DEF LastQueued
      <3>1. PICK j \in 1..Len(queue) : LastFor(q, j) /\ queue'[i] = queue[j]
        BY <2>2, KeptReports
      <3> QED  BY <1>2, <1>6, <1>7, <2>1, <3>1 DEF LastQueued
    <2>5. StatusQueued(q)' = StatusQueued(q)
      BY <2>2, KeptReports
    <2> QED
      BY <1>2, <1>6, <1>7, <2>1, <2>3, <2>4, <2>5 DEF Reported, Agreed, Has
  <1>9. CASE q = p
    <2>1. LastHook(p)'
      <3> SUFFICES ASSUME hooks'[p] # <<>>
                   PROVE  hooks'[p][Len(hooks'[p])] = LegView(p)'
        BY DEF LastHook
      <3>1. hooks' \in [Phones -> Seq(Status)]
        BY DEF TypeOK, VoiceOK
      <3>2. Len(h) - 1 \in 1..Len(hooks'[p])
        BY <1>1, <1>3, <3>1
      <3>3. hooks'[p][Len(hooks'[p])] = h[Len(h)]
        BY <1>1, <1>3, <3>2
      <3> QED  BY <1>1, <1>6, <1>7, <1>9, <3>3 DEF LastHook, h
    <2>2. ASSUME hooks'[p] = <<>>
          PROVE  h[1] = LegView(p)
      <3>1. Len(h) = 1
        BY <1>1, <1>3, <2>2
      <3> QED  BY <1>1, <1>6, <1>9, <3>1 DEF LastHook, h
    <2>3. ASSUME registered
          PROVE  /\ Len(queue') = Len(queue) + 1 /\ queue'[Len(queue) + 1] = e
                 /\ StatusQueued(p)'
      <3>1. queue' = Append(queue, e)
        BY <1>2, <2>3
      <3>2. Len(queue') = Len(queue) + 1 /\ queue'[Len(queue) + 1] = e
        BY <1>4, <1>5, <3>1
      <3> QED  BY <1>4, <1>5, <3>2 DEF StatusQueued
    <2>4. LastQueued(p)'
      <3> SUFFICES ASSUME registered', hooks'[p] = <<>>,
                          NEW i \in 1..Len(queue'), LastFor(p, i)'
                   PROVE  queue'[i].status = LegView(p)'
        BY DEF LastQueued
      <3>1. i = Len(queue) + 1
        <4> SUFFICES ASSUME i \in 1..Len(queue)
                     PROVE  FALSE
          BY <1>2, <1>5, <2>3
        <4>1. Len(queue) + 1 \in i + 1..Len(queue')
          BY <1>2, <1>5, <2>3
        <4> QED  BY <1>2, <1>4, <2>3, <4>1 DEF LastFor
      <3> QED  BY <1>2, <1>4, <1>7, <1>9, <2>2, <2>3, <3>1
    <2> QED  BY <1>2, <1>9, <2>1, <2>3, <2>4 DEF Reported, Agreed
  <1> QED  BY <1>8, <1>9

(* CallStatusChangeEvent *)
LEMMA StatusExecuted ==
    ASSUME TypeOK, TypeOK', StatusInv, ExecuteStatus
    PROVE  StatusInv'
  <1> DEFINE e == Head(queue)
             p == e.phone
  <1>1. queue \in Seq(Event) /\ queue # <<>> /\ e \in Event /\ e.type = "status"
    BY HooksType DEF ExecuteStatus, Takes
  <1>2. e \in StatusEvent /\ p \in Phones
    BY <1>1, EventOfType, EventPhone
  <1>3. /\ queue' = Tail(queue)
        /\ UNCHANGED <<registered, calls, hooks, contended>>
        /\ ~Has("add", "record")'
    BY DEF ExecuteStatus, Return, Await, Has, voiceVars
  <1>4. \/ status' = status /\ status[p] \in {Absent, e.status}
        \/ status' = [status EXCEPT ![p] = e.status]
    BY DEF ExecuteStatus
  <1> HIDE DEF e, p
  <1> SUFFICES ASSUME NEW q \in Phones, q \notin contended
               PROVE  LastHook(q)' /\ LastQueued(q)' /\ Reported(q)' /\ Agreed(q)'
    BY <1>3 DEF StatusInv
  <1>5. LastHook(q) /\ LastQueued(q) /\ Agreed(q)
    BY DEF StatusInv
  <1>6. LegView(q)' = LegView(q)
    BY <1>3 DEF LegView
  <1>7. LastHook(q)' /\ Reported(q)'
    BY <1>3, <1>5, <1>6 DEF LastHook, Reported
  <1>8. /\ Len(queue) = Len(queue') + 1 /\ Len(queue') \in Nat /\ queue[1] = e
        /\ \A i \in 1..Len(queue') : queue'[i] = queue[i + 1]
    BY <1>1, <1>3 DEF e
  <1>9. \A i \in 1..Len(queue') : LastFor(q, i)' => LastFor(q, i + 1)
    <2> SUFFICES ASSUME NEW i \in 1..Len(queue'), LastFor(q, i)'
                 PROVE  LastFor(q, i + 1)
      OBVIOUS
    <2>1. ASSUME NEW j \in (i + 1) + 1..Len(queue)
          PROVE  ~(queue[j] \in StatusEvent /\ queue[j].phone = q)
      <3>1. j - 1 \in i + 1..Len(queue') /\ j - 1 \in 1..Len(queue') /\ (j - 1) + 1 = j
        BY <1>8, <2>1
      <3>2. queue'[j - 1] = queue[j]
        BY <1>8, <3>1
      <3> QED  BY <3>1, <3>2 DEF LastFor
    <2>2. queue'[i] = queue[i + 1]
      BY <1>8
    <2> QED  BY <2>1, <2>2 DEF LastFor
  <1>10. LastQueued(q)'
    <2> SUFFICES ASSUME registered', hooks'[q] = <<>>,
                        NEW i \in 1..Len(queue'), LastFor(q, i)'
                 PROVE  queue'[i].status = LegView(q)'
      BY DEF LastQueued
    <2>1. i + 1 \in 1..Len(queue) /\ queue'[i] = queue[i + 1] /\ LastFor(q, i + 1)
      BY <1>8, <1>9
    <2> QED  BY <1>3, <1>5, <1>6, <2>1 DEF LastQueued
  <1>11. Agreed(q)'
    <2> SUFFICES ASSUME registered', status'[q] # Absent, hooks'[q] = <<>>,
                        ~StatusQueued(q)'
                 PROVE  status'[q] = LegView(q)
      BY <1>6 DEF Agreed
    <2>1. \A j \in 2..Len(queue) : ~(queue[j] \in StatusEvent /\ queue[j].phone = q)
      <3> SUFFICES ASSUME NEW j \in 2..Len(queue)
                   PROVE  ~(queue[j] \in StatusEvent /\ queue[j].phone = q)
        OBVIOUS
      <3>1. j - 1 \in 1..Len(queue') /\ (j - 1) + 1 = j
        BY <1>8
      <3>2. queue'[j - 1] = queue[j]
        BY <1>8, <3>1
      <3> QED  BY <3>1, <3>2 DEF StatusQueued
    <2>2. CASE q = p
      <3>1. LastFor(q, 1) /\ 1 \in 1..Len(queue)
        BY <1>2, <1>8, <2>1, <2>2 DEF LastFor, p
      <3>2. e.status = LegView(q)
        BY <1>3, <1>5, <1>8, <3>1 DEF LastQueued
      <3>3. status \in [Phones -> Status \cup {Absent}]
        BY DEF TypeOK, ConferenceOK
      <3> QED  BY <1>2, <1>4, <2>2, <3>2, <3>3
    <2>3. CASE q # p
      <3>1. ~StatusQueued(q)
        <4> SUFFICES ASSUME NEW j \in 1..Len(queue), queue[j] \in StatusEvent,
                            queue[j].phone = q
                     PROVE  FALSE
          BY DEF StatusQueued
        <4>1. j = 1
          BY <1>8, <2>1
        <4> QED  BY <1>8, <2>3, <4>1 DEF p
      <3>2. status'[q] = status[q]
        BY <1>4, <2>3 DEF TypeOK, ConferenceOK
      <3> QED  BY <1>3, <1>5, <3>1, <3>2 DEF Agreed
    <2> QED  BY <2>2, <2>3
  <1> QED  BY <1>7, <1>10, <1>11

-----------------------------------------------------------------------------
(* Every action keeps the reports in order. *)

LEMMA VoiceKept ==
    ASSUME TypeOK, NEW p \in Phones, UNCHANGED <<calls, hooks>>
    PROVE  Speaks(p)
  BY DEF Speaks

LEMMA NoStatusQueued ==
    ASSUME TypeOK, NEW p \in Phones,
           \/ queue' = queue
           \/ \E e \in Event : e.type # "status" /\ queue' = Append(queue, e)
           \/ queue # <<>> /\ Head(queue).type # "status" /\ queue' = Tail(queue)
    PROVE  QueueKeeps(p)
  BY DEF QueueKeeps, StatusEvent

LEMMA TakeEventReports ==
    ASSUME TypeOK, TypeOK', StatusInv, TakeEvent
    PROVE  StatusInv'
  <1>1. CASE ExecuteStatus
    BY <1>1, StatusExecuted
  <1>2. CASE \/ ExecuteStartTimer \/ ExecuteExpired \/ ExecuteCancelTimer \/ ExecuteEnd
             \/ ExecuteSink \/ ExecuteAdd \/ ExecuteRemove
    <2>1. /\ UNCHANGED <<calls, hooks, contended, status, registered>>
          /\ queue # <<>> /\ Head(queue).type # "status" /\ queue' = Tail(queue)
      BY <1>2 DEF ExecuteStartTimer, ExecuteExpired, ExecuteCancelTimer, ExecuteEnd,
                  ExecuteSink, ExecuteAdd, ExecuteRemove, Takes, voiceVars, confVars
    <2>2. Return \/ \E e : \E stage \in Stage \ {"record"} : Await(e, stage, {})
      <3>1. CASE ExecuteStartTimer
        BY <3>1 DEF ExecuteStartTimer, Stage
      <3>2. CASE ExecuteExpired
        BY <3>2 DEF ExecuteExpired, Stage
      <3>3. CASE ExecuteCancelTimer
        BY <3>3 DEF ExecuteCancelTimer, Stage
      <3>4. CASE ExecuteEnd
        BY <3>4 DEF ExecuteEnd, Stage
      <3>5. CASE ExecuteSink
        BY <3>5 DEF ExecuteSink, Stage
      <3>6. CASE ExecuteAdd
        BY <3>6 DEF ExecuteAdd, Stage
      <3>7. CASE ExecuteRemove
        BY <3>7 DEF ExecuteRemove, Stage
      <3> QED  BY <1>2, <3>1, <3>2, <3>3, <3>4, <3>5, <3>6, <3>7
    <2>3. RecordWaits
      BY <2>2, AwaitsAt, ReturnsAt DEF RecordWaits, Has
    <2> QED  BY <2>1, <2>3, VoiceKept, NoStatusQueued, ReportsKept
  <1> QED  BY <1>1, <1>2 DEF TakeEvent

LEMMA ResumeReports ==
    ASSUME TypeOK, TypeOK', LegsInv, StatusInv, ResumeHandler
    PROVE  StatusInv'
  <1>1. ASSUME \/ HandlerSaved \/ StatusAnnounced \/ TimerStarted \/ ExpirySaved
               \/ EndLooksUp \/ EndHungUp \/ RemoveAnnounced \/ RemoveForgets
               \/ SinkSaved \/ AddRecords
        PROVE  StatusInv'
    <2>1. UNCHANGED <<calls, hooks, contended>> /\ (registered' => registered)
      <3>1. CASE SinkSaved
        BY <3>1 DEF SinkSaved, voiceVars
      <3>2. CASE RemoveForgets \/ AddRecords
        BY <3>2 DEF RemoveForgets, AddRecords, voiceVars
      <3>3. CASE \/ HandlerSaved \/ StatusAnnounced \/ TimerStarted \/ ExpirySaved
                 \/ EndLooksUp \/ EndHungUp \/ RemoveAnnounced
        <4>1. UNCHANGED <<confVars, voiceVars>>
          BY <3>3 DEF HandlerSaved, StatusAnnounced, TimerStarted, ExpirySaved, EndLooksUp,
                      EndHungUp, RemoveAnnounced
        <4> QED  BY <4>1 DEF voiceVars, confVars
      <3> QED  BY <1>1, <3>1, <3>2, <3>3
    <2>2. queue' = queue \/ \E e \in Event : e.type # "status" /\ queue' = Append(queue, e)
      <3>1. CancelTimer \in Event /\ StartTimer \in Event /\ EndConference(TRUE) \in Event
        BY ConstructedEvents
      <3>4. /\ CancelTimer.type # "status" /\ StartTimer.type # "status"
            /\ EndConference(TRUE).type # "status"
        BY DEF CancelTimer, StartTimer, EndConference
      <3>2. CASE StatusAnnounced
        BY <3>1, <3>2, <3>4 DEF StatusAnnounced
      <3>3. CASE ExpirySaved
        BY <3>1, <3>3, <3>4 DEF ExpirySaved
      <3> QED
        BY <1>1, <3>2, <3>3 DEF HandlerSaved, TimerStarted, EndLooksUp, EndHungUp,
           RemoveAnnounced, RemoveForgets, SinkSaved, AddRecords
    <2>3. RecordWaits
      BY <1>1 DEF HandlerSaved, StatusAnnounced, TimerStarted, ExpirySaved, EndLooksUp,
                  EndHungUp, RemoveAnnounced, RemoveForgets, SinkSaved, AddRecords,
                  Return, Await, RecordWaits, Has
    <2>4. \A p \in Phones : \/ status'[p] \in {status[p], Absent}
                            \/ Has("add", "record") /\ ev.phone = p
      BY <1>1 DEF HandlerSaved, StatusAnnounced, TimerStarted, ExpirySaved, EndLooksUp,
                  EndHungUp, RemoveAnnounced, RemoveForgets, SinkSaved, AddRecords,
                  confVars, TypeOK, ConferenceOK
    <2> QED  BY <2>1, <2>2, <2>3, <2>4, VoiceKept, NoStatusQueued, ReportsKept
  <1>2. CASE EndHangsUp
    <2>1. PICK leg \in todo : HangUp(leg, {"answered"}) \/ UNCHANGED <<calls, hooks>>
      BY <1>2 DEF EndHangsUp
    <2>2. /\ UNCHANGED <<queue, contended, status, registered>>
          /\ ~Has("add", "record")'
      BY <1>2 DEF EndHangsUp, Has, Await, confVars
    <2>3. \A p \in Phones : Speaks(p)
      BY <2>1, <2>2, HangUpSpeaks, HooksType, VoiceKept DEF Legs
    <2> QED  BY <2>2, <2>3, NoStatusQueued, ReportsKept DEF RecordWaits
  <1>3. CASE AddCalls
    <2>1. ev.phone \in Phones
      BY <1>3, EventPhone DEF AddCalls, Has, TypeOK, LoopOK
    <2>2. Dial(ev.phone) /\ ev' = ev /\ UNCHANGED <<queue, status, registered>>
      BY <1>3 DEF AddCalls, Has, Await, confVars
    <2>3. /\ \A p \in Phones : Speaks(p)
          /\ contended \subseteq contended' /\ hooks'[ev'.phone] # <<>>
      BY <2>1, <2>2, DialSpeaks
    <2> QED  BY <2>2, <2>3, NoStatusQueued, ReportsKept DEF RecordWaits
  <1>4. CASE RemoveHangsUp
    <2>1. <<ev.phone, recorded[ev.phone]>> \in Phones \X Nat
      BY <1>4, EventPhone DEF RemoveHangsUp, Has, TypeOK, LoopOK, VoiceOK
    <2>2. /\ UNCHANGED <<queue, registered>> /\ ~Has("add", "record")'
          /\ contended \subseteq contended'
          /\ \A p \in Phones : status'[p] \in {status[p], Absent}
      BY <1>4 DEF RemoveHangsUp, Has, Await, TypeOK, ConferenceOK
    <2>3. \/ UNCHANGED <<calls, hooks>>
          \/ HangUp(<<ev.phone, recorded[ev.phone]>>, {"ringing", "answered"})
      BY <1>4 DEF RemoveHangsUp
    <2>4. \A p \in Phones : Speaks(p)
      BY <2>1, <2>2, <2>3, HangUpSpeaks, VoiceKept
    <2> QED  BY <2>2, <2>4, NoStatusQueued, ReportsKept DEF RecordWaits
  <1> QED  BY <1>1, <1>2, <1>3, <1>4 DEF ResumeHandler

LEMMA LoopStaysReports ==
    ASSUME TypeOK, TypeOK', StatusInv, UNCHANGED <<registered, status>>,
           \/ queue' = queue
           \/ \E e \in Event : e.type # "status" /\ queue' = Append(queue, e),
           contended \subseteq contended', \A p \in Phones : Speaks(p),
           RecordWaits \/ LoopStays
    PROVE  StatusInv'
  BY NoStatusQueued, ReportsKept DEF RecordWaits, LoopStays, Has

LEMMA StartReports ==
    ASSUME TypeOK, TypeOK', LegsInv, StatusInv, NEW r \in Requests,
           StartStep(r) \/ StartFailure(r)
    PROVE  StatusInv'
  <1>1. UNCHANGED <<registered, status, queue>>
    <2>1. CASE StartStep(r)
      BY <2>1 DEF StartStep, StartPersisted, StartBatch, StartRuns, StartSaved,
                  StartCalls, StartRecords, confVars
    <2>2. CASE StartFailure(r)
      BY <2>2 DEF StartFailure, StartSaveFails, StartCallFails, confVars
    <2> QED  BY <2>1, <2>2
  <1>2. \/ UNCHANGED <<calls, hooks, contended>> /\ LoopStays
        \/ \E p \in Phones : Dial(p) /\ LoopStays
        \/ DropHandler("none")
    <2>1. CASE StartStep(r)
      BY <2>1 DEF StartStep, StartPersisted, StartBatch, StartRuns, StartSaved,
                  StartCalls, StartRecords, loopVars, voiceVars, LoopStays
    <2>2. CASE StartFailure(r)
      BY <2>2 DEF StartFailure, StartSaveFails, StartCallFails, FailStart, loopVars,
                  voiceVars, LoopStays
    <2> QED  BY <2>1, <2>2
  <1>3. CASE UNCHANGED <<calls, hooks, contended>> /\ LoopStays
    BY <1>1, <1>3, VoiceKept, LoopStaysReports
  <1>4. CASE \E p \in Phones : Dial(p) /\ LoopStays
    BY <1>1, <1>4, DialSpeaks, LoopStaysReports
  <1>5. CASE DropHandler("none")
    BY <1>1, <1>5, DroppedSpeaks, LoopStaysReports
  <1> QED  BY <1>2, <1>3, <1>4, <1>5

LEMMA TeachersReports ==
    ASSUME TypeOK, TypeOK', LegsInv, StatusInv,
           Teachers \/ Monitor \/ LoopStops \/ HandlerCut
    PROVE  StatusInv'
  <1>1. \/ DropHandler("idle")
        \/ UNCHANGED <<calls, hooks, contended>> /\ RecordWaits
    <2>1. CASE Teachers
      BY <2>1 DEF Teachers, RequestStart, RequestAdd, RequestRemove, RequestEnd,
                  RequestSink, Enqueue, voiceVars, RecordWaits, Has
    <2>2. CASE Monitor \/ LoopStops \/ HandlerCut
      BY <2>2 DEF Monitor, MonitorExpires, MonitorStops, LoopStops, HandlerCut,
                  voiceVars, loopVars, RecordWaits, Has
    <2> QED  BY <2>1, <2>2
  <1>2. UNCHANGED <<registered, status>>
    <2>1. CASE Teachers
      BY <2>1 DEF Teachers, RequestStart, RequestAdd, RequestRemove, RequestEnd,
                  RequestSink, Enqueue, confVars
    <2>2. CASE Monitor \/ LoopStops \/ HandlerCut
      BY <2>2 DEF Monitor, MonitorExpires, MonitorStops, LoopStops, HandlerCut, confVars
    <2> QED  BY <2>1, <2>2
  <1>3. queue' = queue \/ \E e \in Event : e.type # "status" /\ queue' = Append(queue, e)
    <2>1. /\ \A p \in Phones : AddParticipant(p) \in Event /\ RemoveParticipant(p) \in Event
          /\ EndConference(FALSE) \in Event /\ SinkConference \in Event
          /\ TimerExpired \in Event
      BY ConstructedEvents
    <2>4. /\ \A p \in Phones : /\ AddParticipant(p).type # "status"
                               /\ RemoveParticipant(p).type # "status"
          /\ EndConference(FALSE).type # "status" /\ SinkConference.type # "status"
          /\ TimerExpired.type # "status"
      BY DEF AddParticipant, RemoveParticipant, EndConference, SinkConference, TimerExpired
    <2>2. CASE Teachers
      BY <2>1, <2>2, <2>4 DEF Teachers, RequestStart, RequestAdd, RequestRemove,
                              RequestEnd, RequestSink, Enqueue
    <2>3. CASE Monitor \/ LoopStops \/ HandlerCut
      BY <2>1, <2>3, <2>4 DEF Monitor, MonitorExpires, MonitorStops, LoopStops, HandlerCut
    <2> QED  BY <2>2, <2>3
  <1> QED  BY <1>1, <1>2, <1>3, DroppedSpeaks, VoiceKept, LoopStaysReports

LEMMA VoiceReports ==
    ASSUME TypeOK, TypeOK', LegsInv, StatusInv, Voice, "reorder" \notin Faults
    PROVE  StatusInv'
  <1>1. PICK p \in Phones :
           \/ \E i \in 1..Len(calls[p]) : LegAnswered(p, i) \/ LegEnds(p, i)
           \/ \E k \in 1..Len(hooks[p]) : Deliver(p, k)
    BY DEF Voice
  <1>2. ASSUME NEW i \in 1..Len(calls[p]), LegAnswered(p, i) \/ LegEnds(p, i)
        PROVE  StatusInv'
    <2>1. UNCHANGED <<registered, status, queue, contended>> /\ LoopStays
      BY <1>2 DEF LegAnswered, LegEnds, confVars, loopVars, LoopStays
    <2>2. calls[p][i] # "over"
      BY <1>2 DEF LegAnswered, LegEnds
    <2>3. PICK s \in LegState, h \in Status :
             /\ calls' = [calls EXCEPT ![p][i] = s]
             /\ hooks' = [hooks EXCEPT ![p] = Append(@, h)]
             /\ <<s, h>> \in {<<"answered", "connected">>, <<"over", "disconnected">>}
      <3>1. CASE LegAnswered(p, i)
        <4>1. "answered" \in LegState /\ "connected" \in Status
          BY DEF LegState, Status
        <4> QED  BY <3>1, <4>1 DEF LegAnswered
      <3>2. CASE LegEnds(p, i)
        <4>1. "over" \in LegState /\ "disconnected" \in Status
          BY DEF LegState, Status
        <4> QED  BY <3>2, <4>1 DEF LegEnds
      <3> QED  BY <1>2, <3>1, <3>2
    <2>4. \A q \in Phones : Speaks(q)
      BY <2>1, <2>2, <2>3, LegReports
    <2> QED  BY <2>1, <2>4, LoopStaysReports
  <1> QED  BY <1>1, <1>2, DeliveredInOrder

(***************************************************************************)
(* With the webhooks of a phone in order, call_status is what the newest   *)
(* leg is once all of them have been executed, for every number of phones, *)
(* dials, start requests and queued events: cut handlers, failing starts,  *)
(* removals and sinks do not leave it stale.                               *)
(***************************************************************************)
THEOREM StatusFollowsTheLeg ==
    ASSUME "reorder" \notin Faults
    PROVE  Spec => []StatusAgreement
  <1>1. Init => TypeOK /\ LegsInv /\ StatusInv
    <2>1. Init => StatusInv
      BY DEF Init, StatusInv, LastHook, LastQueued, Reported, Agreed, Has, LegView
    <2> QED  BY <2>1, InitLegs, InitType
  <1>2. TypeOK /\ LegsInv /\ StatusInv /\ [Next]_vars
            => TypeOK' /\ LegsInv' /\ StatusInv'
    <2> SUFFICES ASSUME TypeOK, LegsInv, StatusInv, [Next]_vars
                 PROVE  TypeOK' /\ LegsInv' /\ StatusInv'
      OBVIOUS
    <2>1. TypeOK' /\ LegsInv'
      BY NextType, LegsStep
    <2>2. CASE UNCHANGED vars
      BY <2>1, <2>2, VoiceKept, LoopStaysReports
         DEF vars, voiceVars, confVars, loopVars, LoopStays
    <2> QED
      BY <2>1, <2>2, TakeEventReports, ResumeReports, StartReports, TeachersReports,
         VoiceReports DEF Next
  <1>3. StatusInv => StatusAgreement
    BY DEF StatusInv, Agreed, StatusAgreement
  <1> QED  BY <1>1, <1>2, <1>3, PTL DEF Spec
=============================================================================
