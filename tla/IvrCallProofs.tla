--------------------------- MODULE IvrCallProofs ---------------------------
(***************************************************************************)
(* Theorems about IvrCall, for any presses, any number of repeated         *)
(* requests and deliveries, and any mix of faults.                         *)
(***************************************************************************)
EXTENDS IvrCall, TLAPS

-----------------------------------------------------------------------------
(* Types of the pieces the actions are made of. *)

LEMMA NotNone ==
    /\ None \notin Document
    /\ None \notin Marker
    /\ None \notin Ncco
    /\ None \notin Presses
  BY IvrAssumption

LEMMA MenuAppend ==
    ASSUME NEW m \in Menu, NEW p \in Presses
    PROVE  Append(m, p) \in Menu
  BY DEF Menu

LEMMA EmptyMenu == <<>> \in Menu
  BY DEF Menu

LEMMA MenuIsNcco == Menu \subseteq Ncco /\ Bye \in Ncco
  BY DEF Ncco

LEMMA IdleType == Idle \in Work
  BY EmptyMenu DEF Idle, Work

(* What a press does to one field of the document, or of a consumer. *)
LEMMA DocumentWith ==
    ASSUME NEW d \in Document
    PROVE  /\ \A m \in Marker \cup {None} : [d EXCEPT !.pending = m] \in Document
           /\ \A m \in Menu : [d EXCEPT !.menu = m] \in Document
           /\ \A p \in Presses : [d EXCEPT !.last = p] \in Document
           /\ \A m \in Menu, k \in Menu, v \in Nat :
                [d EXCEPT !.menu = m, !.keys = k, !.version = v] \in Document
  BY DEF Document

LEMMA DocumentClaimed ==
    ASSUME NEW d \in Document, d.pending # None, NEW n \in Ncco \cup {None}
    PROVE  [d EXCEPT !.pending.waiting = FALSE, !.pending.ncco = n] \in Document
<1>1. d.pending \in Marker
  BY DEF Document
<1>2. [d.pending EXCEPT !.waiting = FALSE, !.ncco = n] \in Marker
  BY <1>1 DEF Marker
<1>3. QED
  BY <1>1, <1>2 DEF Document, Marker

LEMMA NewDocument ==
    ASSUME NEW m \in Menu, NEW k \in Menu, NEW v \in Nat
    PROVE  [menu |-> m, keys |-> k, version |-> v, pending |-> None,
            last |-> None] \in Document
  BY DEF Document

LEMMA MarkerArmed ==
    ASSUME NEW p \in Presses
    PROVE  [press |-> p, waiting |-> TRUE, ncco |-> None] \in Marker
  BY DEF Marker

LEMMA GoesType ==
    ASSUME NEW p \in Presses, NEW w \in [Presses -> Work],
           NEW s \in {"idle", "check", "load", "save", "claim", "push",
                      "record", "complete"}
    PROVE  [w EXCEPT ![p].at = s] \in [Presses -> Work]
  BY DEF Work

LEMMA HookWith ==
    ASSUME HookOK, NEW p \in Presses, NEW k \in Tries,
           NEW s \in {"idle", "arm", "send", "send_unarmed", "wait", "done"}
    PROVE  [hook EXCEPT ![<<p, k>>] = s] \in
             [Hook -> {"idle", "arm", "send", "send_unarmed", "wait", "done"}]
  BY DEF HookOK, Hook

LEMMA UnclaimedType ==
    ASSUME DocOK
    PROVE  Unclaimed \in SUBSET Presses
  BY NotNone DEF DocOK, Unclaimed, Claimed, Document, Marker

LEMMA GiveType ==
    ASSUME CallOK, NEW p \in Presses, NEW n \in Ncco, Give(p, n)
    PROVE  CallOK'
  BY DEF CallOK, Give, callVars

LEMMA AnswerType ==
    ASSUME CallOK, NEW p \in Presses, NEW k \in Tries, NEW n \in Ncco \cup {None},
           Answer(p, k, n)
    PROVE  CallOK'
<1>1. CASE UNCHANGED callVars
  BY <1>1 DEF CallOK, callVars
<1>2. CASE n # None /\ Give(p, n)
  BY <1>2, GiveType
<1>3. CASE listening' = (leg = "up") /\ UNCHANGED <<leg, heard, given>>
  BY <1>3 DEF CallOK
<1>4. QED
  BY <1>1, <1>2, <1>3 DEF Answer

-----------------------------------------------------------------------------
(* A consumer that is about to claim or to push has an NCCO. *)
NccoReady ==
    \A p \in Presses :
        work[p].at \in {"save", "claim", "push"} => work[p].ncco \in Ncco

Typed == TypeOK /\ NccoReady

LEMMA InitTyped == Init => Typed
<1> SUFFICES ASSUME Init PROVE Typed
  OBVIOUS
<1>1. CallOK
  BY EmptyMenu, MenuIsNcco DEF Init, CallOK
<1>2. DocOK /\ BusOK
  BY DEF Init, DocOK, BusOK
<1>3. HookOK
  BY DEF Init, HookOK
<1>4. WorkOK
  BY IdleType DEF Init, WorkOK
<1>5. EventOK
  BY EmptyMenu, IvrAssumption DEF Init, EventOK, EventWork, CallEvent
<1>6. NccoReady
  BY DEF Init, NccoReady, Idle
<1>7. QED
  BY <1>1, <1>2, <1>3, <1>4, <1>5, <1>6 DEF Typed, TypeOK

(* The parts that a step leaves alone keep their types. *)
LEMMA KeepsTypes ==
    ASSUME Typed
    PROVE  /\ UNCHANGED callVars => CallOK'
           /\ UNCHANGED docVars => DocOK'
           /\ UNCHANGED busVars => BusOK'
           /\ UNCHANGED hook => HookOK'
           /\ UNCHANGED workVars => WorkOK' /\ NccoReady'
           /\ UNCHANGED eventVars => EventOK'
<1>1. UNCHANGED callVars => CallOK'
  BY DEF Typed, TypeOK, CallOK, callVars
<1>2. UNCHANGED docVars => DocOK'
  BY DEF Typed, TypeOK, DocOK, docVars
<1>3. UNCHANGED busVars => BusOK'
  BY DEF Typed, TypeOK, BusOK, busVars
<1>4. UNCHANGED hook => HookOK'
  BY DEF Typed, TypeOK, HookOK
<1>5. UNCHANGED workVars => WorkOK' /\ NccoReady'
  BY DEF Typed, TypeOK, WorkOK, NccoReady, workVars
<1>6. UNCHANGED eventVars => EventOK'
  BY DEF Typed, TypeOK, EventOK, eventVars
<1>7. QED
  BY <1>1, <1>2, <1>3, <1>4, <1>5, <1>6

-----------------------------------------------------------------------------
(* Every action keeps the types: the caller and the webhooks. *)

LEMMA CallerTyped ==
    ASSUME Typed,
           \/ StartSaves \/ HangsUp
           \/ \E p \in Presses : Press(p) \/ \E k \in Tries : Retry(p, k)
    PROVE  Typed'
<1> USE KeepsTypes
<1>1. CASE StartSaves
  <2>1. doc' \in Document
    BY <1>1, EmptyMenu, NewDocument DEF StartSaves
  <2>2. DocOK'
    BY <1>1, <2>1 DEF StartSaves, Typed, TypeOK, DocOK
  <2>3. QED
    BY <1>1, <2>2 DEF StartSaves, Typed, TypeOK
<1>2. CASE HangsUp
  <2>1. CallOK' /\ EventOK'
    BY <1>2, IvrAssumption
       DEF HangsUp, Typed, TypeOK, CallOK, EventOK
  <2>2. QED
    BY <1>2, <2>1 DEF HangsUp, Typed, TypeOK
<1>3. ASSUME NEW p \in Presses, Press(p)
      PROVE  Typed'
  <2>1. HookOK'
    BY <1>3, HookWith, IvrAssumption DEF Press, Typed, TypeOK, HookOK, Tries
  <2>2. CallOK'
    BY <1>3 DEF Press, Typed, TypeOK, CallOK
  <2>3. QED
    BY <1>3, <2>1, <2>2 DEF Press, Typed, TypeOK
<1>4. ASSUME NEW p \in Presses, NEW k \in Tries, Retry(p, k)
      PROVE  Typed'
  <2>1. HookOK'
    BY <1>4, HookWith DEF Retry, Typed, TypeOK, HookOK
  <2>2. QED
    BY <1>4, <2>1 DEF Retry, Typed, TypeOK
<1>5. QED
  BY <1>1, <1>2, <1>3, <1>4

LEMMA WebhookTyped ==
    ASSUME Typed, NEW p \in Presses, NEW k \in Tries, Webhook(p, k)
    PROVE  Typed'
<1> USE KeepsTypes
<1>1. CASE Arm(p, k)
  <2>1. HookOK'
    BY <1>1, HookWith DEF Arm, Typed, TypeOK, HookOK
  <2>2. doc \in Document
    BY <1>1 DEF Arm, Typed, TypeOK, DocOK
  <2>3. doc' \in Document
    BY <1>1, <2>2, MarkerArmed, DocumentWith DEF Arm
  <2>4. DocOK'
    BY <1>1, <2>3, UnclaimedType DEF Arm, Typed, TypeOK, DocOK
  <2>5. QED
    BY <1>1, <2>1, <2>4 DEF Arm, Typed, TypeOK
<1>2. CASE ArmFails(p, k)
  <2>1. HookOK'
    BY <1>2, HookWith DEF ArmFails, Typed, TypeOK, HookOK
  <2>2. QED
    BY <1>2, <2>1 DEF ArmFails, Typed, TypeOK
<1>3. CASE Send(p, k)
  <2>1. HookOK'
    BY <1>3, HookWith DEF Send, Typed, TypeOK, HookOK
  <2>2. BusOK'
    BY <1>3 DEF Send, Typed, TypeOK, BusOK
  <2>3. CallOK'
    BY <1>3, AnswerType DEF Send, Typed, TypeOK
  <2>4. QED
    BY <1>3, <2>1, <2>2, <2>3 DEF Send, Typed, TypeOK
<1>4. CASE Pop(p, k)
  <2>1. HookOK'
    BY <1>4, HookWith DEF Pop, Typed, TypeOK, HookOK
  <2>2. CASE doc # None /\ doc.pending # None /\ doc.pending.press = p
    <3>1. doc \in Document
      BY <2>2 DEF Typed, TypeOK, DocOK
    <3>2. doc.pending \in Marker /\ doc.pending.ncco \in Ncco \cup {None}
      BY <2>2, <3>1 DEF Document, Marker
    <3>3. doc' \in Document
      BY <1>4, <2>2, <3>1, DocumentWith DEF Pop
    <3>4. DocOK'
      BY <1>4, <2>2, <3>3, UnclaimedType DEF Pop, Typed, TypeOK, DocOK
    <3>5. CallOK'
      BY <1>4, <2>2, <3>2, AnswerType DEF Pop, Typed, TypeOK
    <3>6. QED
      BY <1>4, <2>1, <3>4, <3>5 DEF Pop, Typed, TypeOK
  <2>3. CASE ~(doc # None /\ doc.pending # None /\ doc.pending.press = p)
    <3>1. CallOK'
      BY <1>4, <2>3, AnswerType DEF Pop, Typed, TypeOK
    <3>2. UNCHANGED docVars
      BY <1>4, <2>3 DEF Pop, docVars
    <3>3. QED
      BY <1>4, <2>1, <3>1, <3>2 DEF Pop, Typed, TypeOK
  <2>4. QED
    BY <2>2, <2>3
<1>5. QED
  BY <1>1, <1>2, <1>3, <1>4 DEF Webhook

-----------------------------------------------------------------------------
(* Every action keeps the types: the consumers. *)

(* A consumer goes on to another access, with what it has in memory. *)
LEMMA GoesTyped ==
    ASSUME Typed, NEW p \in Presses,
           NEW s \in {"idle", "check", "load", "save", "claim", "push",
                      "record", "complete"},
           Goes(p, s),
           s \in {"save", "claim", "push"} =>
              work[p].at \in {"save", "claim", "push"}
    PROVE  work' \in [Presses -> Work] /\ NccoReady'
<1>1. work \in [Presses -> Work]
  BY DEF Typed, TypeOK, WorkOK
<1>2. work' = [work EXCEPT ![p].at = s]
  BY DEF Goes
<1>3. work' \in [Presses -> Work]
  BY <1>1, <1>2, GoesType
<1>4. ASSUME NEW q \in Presses
      PROVE  /\ work'[q].ncco = work[q].ncco
             /\ work'[q].at = IF q = p THEN s ELSE work[q].at
  BY <1>1, <1>2 DEF Work
<1>5. NccoReady'
  BY <1>4 DEF Typed, NccoReady
<1>6. QED
  BY <1>3, <1>5

(* A consumer starts on a message, or is done with it. *)
LEMMA ResetTyped ==
    ASSUME Typed, NEW p \in Presses, NEW w \in Work,
           w.at \in {"save", "claim", "push"} => w.ncco \in Ncco,
           work' = [work EXCEPT ![p] = w]
    PROVE  work' \in [Presses -> Work] /\ NccoReady'
<1>1. work \in [Presses -> Work]
  BY DEF Typed, TypeOK, WorkOK
<1>2. work' \in [Presses -> Work]
  BY <1>1
<1>3. NccoReady'
  BY <1>1 DEF Typed, NccoReady
<1>4. QED
  BY <1>2, <1>3

LEMMA ConsumerTyped ==
    ASSUME Typed, NEW p \in Presses, Consumer(p) \/ ConsumerCut(p)
    PROVE  Typed'
<1> USE KeepsTypes
<1>1. work \in [Presses -> Work] /\ work[p] \in Work
  BY DEF Typed, TypeOK, WorkOK
<1>2. doc # None => doc \in Document
  BY DEF Typed, TypeOK, DocOK
<1>3. CASE Receive(p)
  <2>1. [Idle EXCEPT !.at = "check"] \in Work
    BY IdleType DEF Work
  <2>2. WorkOK' /\ NccoReady'
    BY <1>3, <2>1, ResetTyped DEF Receive, Idle, Typed, TypeOK, WorkOK
  <2>3. BusOK'
    BY <1>3 DEF Receive, Locked, Typed, TypeOK, BusOK
  <2>4. QED
    BY <1>3, <2>2, <2>3 DEF Receive, Typed, TypeOK
<1>4. CASE Check(p)
  <2>1. WorkOK' /\ NccoReady'
    BY <1>4, GoesTyped DEF Check, Working, Typed, TypeOK, WorkOK
  <2>2. QED
    BY <1>4, <2>1 DEF Check, Typed, TypeOK
<1>5. CASE Load(p)
  <2>1. doc \in Document
    BY <1>2, <1>5 DEF Load
  <2>2. doc.menu \in Menu /\ doc.keys \in Menu /\ doc.version \in Nat
    BY <2>1 DEF Document
  <2>3. /\ Append(doc.menu, p) \in Menu
        /\ Append(doc.keys, p) \in Menu
        /\ Append(doc.menu, p) \in Ncco
    BY <2>2, MenuAppend, MenuIsNcco
  <2>4. [at |-> "save", menu |-> Append(doc.menu, p),
         keys |-> Append(doc.keys, p), version |-> doc.version,
         ncco |-> Append(doc.menu, p)] \in Work
    BY <2>2, <2>3 DEF Work
  <2>5. WorkOK' /\ NccoReady'
    BY <1>5, <2>3, <2>4, ResetTyped DEF Load, Typed, TypeOK, WorkOK
  <2>6. QED
    BY <1>5, <2>5 DEF Load, Typed, TypeOK
<1>6. CASE LoadFails(p)
  <2>1. [Idle EXCEPT !.at = "claim", !.ncco = Bye] \in Work
    BY IdleType, MenuIsNcco DEF Work
  <2>2. WorkOK' /\ NccoReady'
    BY <1>6, <2>1, ResetTyped, MenuIsNcco
       DEF LoadFails, Idle, Typed, TypeOK, WorkOK
  <2>3. QED
    BY <1>6, <2>2 DEF LoadFails, Typed, TypeOK
<1>7. CASE Save(p)
  <2>1. WorkOK' /\ NccoReady'
    BY <1>7, GoesTyped DEF Save, Working, Typed, TypeOK, WorkOK
  <2>2. /\ work[p].menu \in Menu /\ work[p].keys \in Menu
        /\ work[p].version + 1 \in Nat
    BY <1>1 DEF Work
  <2>3. \/ doc' = [doc EXCEPT !.menu = work[p].menu, !.keys = work[p].keys,
                              !.version = work[p].version + 1]
           /\ doc # None
        \/ doc' = [menu |-> work[p].menu, keys |-> work[p].keys,
                   version |-> work[p].version + 1,
                   pending |-> None, last |-> None]
        \/ doc' = doc /\ doc # None
    BY <1>7 DEF Save
  <2>4. doc' \in Document
    <3>1. CASE doc # None
      <4>1. doc \in Document
        BY <1>2, <3>1
      <4>2. [doc EXCEPT !.menu = work[p].menu, !.keys = work[p].keys,
                        !.version = work[p].version + 1] \in Document
        BY <2>2, <4>1, DocumentWith
      <4>3. QED
        BY <2>2, <2>3, <4>1, <4>2, NewDocument
    <3>2. CASE doc = None
      BY <2>2, <2>3, <3>2, NewDocument
    <3>3. QED
      BY <3>1, <3>2
  <2>5. DocOK'
    BY <1>7, <2>4 DEF Save, Typed, TypeOK, DocOK
  <2>6. QED
    BY <1>7, <2>1, <2>5 DEF Save, Typed, TypeOK
<1>8. CASE Claim(p)
  <2>1. WorkOK' /\ NccoReady'
    BY <1>8, GoesTyped DEF Claim, Working, Typed, TypeOK, WorkOK
  <2>2. doc # None /\ doc.pending # None =>
          [doc EXCEPT !.pending.waiting = FALSE,
                      !.pending.ncco = work[p].ncco] \in Document
    BY <1>1, <1>2, DocumentClaimed DEF Work
  <2>3. DocOK'
    BY <1>8, <2>2 DEF Claim, Typed, TypeOK, DocOK
  <2>4. QED
    BY <1>8, <2>1, <2>3 DEF Claim, Typed, TypeOK
<1>9. CASE Push(p)
  <2>1. WorkOK' /\ NccoReady'
    BY <1>9, GoesTyped DEF Push, Working, Typed, TypeOK, WorkOK
  <2>2. work[p].ncco \in Ncco
    BY <1>9 DEF Push, Working, Typed, NccoReady
  <2>3. CallOK'
    BY <1>9, <2>2, GiveType DEF Push, Typed, TypeOK
  <2>4. QED
    BY <1>9, <2>1, <2>3 DEF Push, Typed, TypeOK
<1>10. CASE PushFails(p)
  <2>1. WorkOK' /\ NccoReady'
    BY <1>10, GoesTyped DEF PushFails, Typed, TypeOK, WorkOK
  <2>2. QED
    BY <1>10, <2>1 DEF PushFails, Typed, TypeOK
<1>11. CASE Record(p)
  <2>1. WorkOK' /\ NccoReady'
    BY <1>11, GoesTyped DEF Record, Typed, TypeOK, WorkOK
  <2>2. doc # None => [doc EXCEPT !.last = p] \in Document
    BY <1>2, DocumentWith
  <2>3. DocOK'
    BY <1>11, <2>2 DEF Record, Typed, TypeOK, DocOK
  <2>4. QED
    BY <1>11, <2>1, <2>3 DEF Record, Typed, TypeOK
<1>12. CASE Complete(p)
  <2>1. WorkOK' /\ NccoReady'
    BY <1>12, IdleType, ResetTyped DEF Complete, Idle, Typed, TypeOK, WorkOK
  <2>2. QED
    BY <1>12, <2>1 DEF Complete, Typed, TypeOK
<1>13. CASE ConsumerCut(p)
  <2>1. WorkOK' /\ NccoReady'
    BY <1>13, IdleType, ResetTyped DEF ConsumerCut, Idle, Typed, TypeOK, WorkOK
  <2>2. BusOK'
    BY <1>13 DEF ConsumerCut, Abandoned, Typed, TypeOK, BusOK
  <2>3. QED
    BY <1>13, <2>1, <2>2 DEF ConsumerCut, Typed, TypeOK
<1>14. QED
  BY <1>3, <1>4, <1>5, <1>6, <1>7, <1>8, <1>9, <1>10, <1>11, <1>12, <1>13
     DEF Consumer

LEMMA EventConsumerTyped ==
    ASSUME Typed, NEW e \in CallEvent, EventConsumer(e) \/ EventCut(e)
    PROVE  Typed'
<1> USE KeepsTypes
<1>1. eventWork \in [CallEvent -> EventWork] /\ eventWork[e] \in EventWork
  BY DEF Typed, TypeOK, EventOK
<1>2. doc # None => doc \in Document /\ doc.menu \in Menu
  BY DEF Typed, TypeOK, DocOK, Document
<1>3. ASSUME NEW s \in {"idle", "find", "write", "archive", "delete"},
             EventGoes(e, s)
      PROVE  eventWork' \in [CallEvent -> EventWork]
  BY <1>1, <1>3 DEF EventGoes, EventWork
<1>4. CASE ReceiveEvent(e)
  <2>1. EventOK'
    BY <1>3, <1>4 DEF ReceiveEvent, Typed, TypeOK, EventOK
  <2>2. QED
    BY <1>4, <2>1 DEF ReceiveEvent, Typed, TypeOK
<1>5. CASE FindForEvent(e)
  <2>1. CASE doc = None
    <3>1. EventOK'
      BY <1>3, <1>5, <2>1 DEF FindForEvent, Typed, TypeOK, EventOK
    <3>2. QED
      BY <1>5, <3>1 DEF FindForEvent, Typed, TypeOK
  <2>2. CASE doc # None
    <3>1. [at |-> IF e = "completed" THEN "archive" ELSE "write",
           menu |-> doc.menu] \in EventWork
      BY <1>2, <2>2 DEF EventWork
    <3>2. EventOK'
      BY <1>1, <1>5, <2>2, <3>1 DEF FindForEvent, Typed, TypeOK, EventOK
    <3>3. QED
      BY <1>5, <3>2 DEF FindForEvent, Typed, TypeOK
  <2>3. QED
    BY <2>1, <2>2
<1>6. CASE WriteEvent(e)
  <2>1. eventWork[e].menu \in Menu
    BY <1>1 DEF EventWork
  <2>2. doc # None => [doc EXCEPT !.menu = eventWork[e].menu] \in Document
    BY <1>2, <2>1, DocumentWith
  <2>3. DocOK'
    BY <1>6, <2>2 DEF WriteEvent, Typed, TypeOK, DocOK
  <2>4. EventOK'
    BY <1>3, <1>6 DEF WriteEvent, Typed, TypeOK, EventOK
  <2>5. QED
    BY <1>6, <2>3, <2>4 DEF WriteEvent, Typed, TypeOK
<1>7. CASE Archive(e)
  <2>1. EventOK'
    BY <1>3, <1>7 DEF Archive, Typed, TypeOK, EventOK
  <2>2. QED
    BY <1>7, <2>1 DEF Archive, Typed, TypeOK
<1>8. CASE Delete(e)
  <2>1. DocOK'
    BY <1>8, UnclaimedType DEF Delete, Typed, TypeOK, DocOK
  <2>2. EventOK'
    BY <1>3, <1>8 DEF Delete, Typed, TypeOK, EventOK
  <2>3. QED
    BY <1>8, <2>1, <2>2 DEF Delete, Typed, TypeOK
<1>9. CASE EventCut(e)
  <2>1. EventOK'
    BY <1>3, <1>9 DEF EventCut, Typed, TypeOK, EventOK
  <2>2. QED
    BY <1>9, <2>1 DEF EventCut, Typed, TypeOK
<1>10. QED
  BY <1>4, <1>5, <1>6, <1>7, <1>8, <1>9 DEF EventConsumer

LEMMA NextTyped == Typed /\ [Next]_vars => Typed'
<1> SUFFICES ASSUME Typed, [Next]_vars PROVE Typed'
  OBVIOUS
<1>1. CASE UNCHANGED vars
  BY <1>1, KeepsTypes DEF Typed, TypeOK, vars
<1>2. CASE Next
  BY <1>2, CallerTyped, WebhookTyped, ConsumerTyped, EventConsumerTyped
     DEF Next
<1>3. QED
  BY <1>1, <1>2

LEMMA TypedAlways == Spec => []Typed
<1>1. QED
  BY InitTyped, NextTyped, PTL DEF Spec

(***************************************************************************)
(* Type correctness: in particular what the caller is given is always an   *)
(* NCCO; the None of a stale write is never delivered.                     *)
(***************************************************************************)
THEOREM TypeCorrect == Spec => []TypeOK
<1>1. Typed => TypeOK
  BY DEF Typed
<1>2. QED
  BY <1>1, TypedAlways, PTL

-----------------------------------------------------------------------------
(* The presses in the document, and the states the consumers have loaded. *)

Fresh == ~started => doc = None /\ \A p \in Presses : work[p].at # "save"

(* A state in memory is no newer than the document, and of the same version *)
(* only if it is the document and one press.                                *)
Loaded ==
    ~ended => \A p \in Presses : work[p].at = "save" =>
        /\ doc # None
        /\ work[p].version <= doc.version
        /\ work[p].version = doc.version => work[p].keys = Append(doc.keys, p)

Versioned == Typed /\ Fresh /\ Loaded

LEMMA InitVersioned == Init => Versioned
  BY InitTyped DEF Versioned, Init, Fresh, Loaded, Idle

(* A step that neither loads nor saves. *)
SameDocument ==
    /\ (doc' = None) <=> (doc = None)
    /\ doc # None => /\ doc'.keys = doc.keys
                     /\ doc'.version = doc.version

Quiet ==
    /\ SameDocument
    /\ started' = started /\ ended' = ended
    /\ \A p \in Presses : work'[p].at = "save" => work'[p] = work[p]

LEMMA QuietVersioned == Fresh /\ Loaded /\ Quiet => Fresh' /\ Loaded'
<1> SUFFICES ASSUME Fresh, Loaded, Quiet PROVE Fresh' /\ Loaded'
  OBVIOUS
<1>1. Fresh'
  BY DEF Fresh, Quiet, SameDocument
<1>2. Loaded'
  BY DEF Loaded, Quiet, SameDocument
<1>3. QED
  BY <1>1, <1>2

(* What Goes and a reset do to the consumers. *)
LEMMA GoesQuiet ==
    ASSUME Typed, NEW p \in Presses,
           \/ \E s \in {"idle", "check", "load", "claim", "push", "record",
                         "complete"} : Goes(p, s)
           \/ \E w \in Work : w.at # "save" /\ work' = [work EXCEPT ![p] = w]
    PROVE  \A q \in Presses : work'[q].at = "save" => work'[q] = work[q]
<1>1. work \in [Presses -> Work]
  BY DEF Typed, TypeOK, WorkOK
<1>2. ASSUME NEW s \in {"idle", "check", "load", "claim", "push", "record",
                        "complete"},
             Goes(p, s), NEW q \in Presses
      PROVE  work'[q].at = "save" => work'[q] = work[q]
  BY <1>1, <1>2 DEF Goes, Work
<1>3. ASSUME NEW w \in Work, w.at # "save", work' = [work EXCEPT ![p] = w],
             NEW q \in Presses
      PROVE  work'[q].at = "save" => work'[q] = work[q]
  BY <1>1, <1>3
<1>4. QED
  BY <1>2, <1>3

(* The marker, the menu and the record are not what is versioned. *)
LEMMA WithSame ==
    ASSUME NEW d \in Document
    PROVE  /\ \A m : /\ [d EXCEPT !.pending = m].keys = d.keys
                     /\ [d EXCEPT !.pending = m].version = d.version
           /\ \A m : /\ [d EXCEPT !.menu = m].keys = d.keys
                     /\ [d EXCEPT !.menu = m].version = d.version
           /\ \A p : /\ [d EXCEPT !.last = p].keys = d.keys
                     /\ [d EXCEPT !.last = p].version = d.version
           /\ \A n : /\ [d EXCEPT !.pending.waiting = FALSE,
                                   !.pending.ncco = n].keys = d.keys
                     /\ [d EXCEPT !.pending.waiting = FALSE,
                                   !.pending.ncco = n].version = d.version
  BY DEF Document

LEMMA CallerQuiet ==
    ASSUME Typed,
           \/ HangsUp
           \/ \E p \in Presses : Press(p) \/ \E k \in Tries : Retry(p, k)
           \/ \E e \in CallEvent : \/ ReceiveEvent(e) \/ FindForEvent(e)
                                   \/ Archive(e) \/ EventCut(e)
           \/ UNCHANGED vars
    PROVE  Quiet
<1>1. UNCHANGED <<started, doc, work, ended>>
  BY DEF HangsUp, Press, Retry, ReceiveEvent, FindForEvent, Archive, EventCut,
         vars, docVars, workVars, eventVars
<1>2. QED
  BY <1>1 DEF Quiet, SameDocument

LEMMA WebhookQuiet ==
    ASSUME Typed, NEW p \in Presses, NEW k \in Tries, Webhook(p, k)
    PROVE  Quiet
<1>1. started' = started /\ ended' = ended /\ work' = work
  BY DEF Webhook, Arm, ArmFails, Send, Pop, docVars, workVars, eventVars
<1>2. doc # None => doc \in Document
  BY DEF Typed, TypeOK, DocOK
<1>3. \/ doc' = doc
      \/ doc # None /\ \E m \in Marker \cup {None} :
                          doc' = [doc EXCEPT !.pending = m]
  <2>1. CASE Arm(p, k)
    BY <2>1, MarkerArmed DEF Arm
  <2>2. CASE Pop(p, k)
    BY <2>2 DEF Pop
  <2>3. CASE ArmFails(p, k) \/ Send(p, k)
    BY <2>3 DEF ArmFails, Send, docVars
  <2>4. QED
    BY <2>1, <2>2, <2>3 DEF Webhook
<1>4. SameDocument
  <2>1. CASE doc' = doc
    BY <2>1 DEF SameDocument
  <2>2. ASSUME doc # None, NEW m \in Marker \cup {None},
               doc' = [doc EXCEPT !.pending = m]
        PROVE  SameDocument
    <3>1. doc \in Document /\ doc' \in Document
      BY <1>2, <2>2, DocumentWith
    <3>2. doc'.keys = doc.keys /\ doc'.version = doc.version
      BY <2>2, <3>1, WithSame
    <3>3. QED
      BY <2>2, <3>1, <3>2, NotNone DEF SameDocument
  <2>3. QED
    BY <1>3, <2>1, <2>2
<1>5. QED
  BY <1>1, <1>4 DEF Quiet

LEMMA ConsumerQuiet ==
    ASSUME Typed, NEW p \in Presses,
           \/ Receive(p) \/ Check(p) \/ LoadFails(p) \/ Claim(p) \/ Push(p)
           \/ PushFails(p) \/ Record(p) \/ Complete(p) \/ ConsumerCut(p)
    PROVE  Quiet
<1>1. started' = started /\ ended' = ended
  BY DEF Receive, Check, LoadFails, Claim, Push, PushFails, Record, Complete,
         ConsumerCut, docVars, eventVars
<1>2. doc # None => doc \in Document
  BY DEF Typed, TypeOK, DocOK
<1>3. \A q \in Presses : work'[q].at = "save" => work'[q] = work[q]
  <2>1. CASE Receive(p)
    <3>1. [Idle EXCEPT !.at = "check"] \in Work
      BY IdleType DEF Work
    <3>2. QED
      BY <2>1, <3>1, GoesQuiet DEF Receive, Idle
  <2>2. CASE LoadFails(p)
    <3>1. [Idle EXCEPT !.at = "claim", !.ncco = Bye] \in Work
      BY IdleType, MenuIsNcco DEF Work
    <3>2. QED
      BY <2>2, <3>1, GoesQuiet DEF LoadFails, Idle
  <2>3. CASE Complete(p) \/ ConsumerCut(p)
    BY <2>3, IdleType, GoesQuiet DEF Complete, ConsumerCut, Idle
  <2>4. CASE \/ Check(p) \/ Claim(p) \/ Push(p) \/ PushFails(p) \/ Record(p)
    BY <2>4, GoesQuiet DEF Check, Claim, Push, PushFails, Record
  <2>5. QED
    BY <2>1, <2>2, <2>3, <2>4
<1>4. SameDocument
  <2>1. CASE doc' = doc
    BY <2>1 DEF SameDocument
  <2>2. ASSUME doc # None, doc' # doc, Claim(p)
        PROVE  SameDocument
    <3>1. doc \in Document /\ work[p].ncco \in Ncco \cup {None}
      BY <1>2, <2>2 DEF Typed, TypeOK, WorkOK, Work
    <3>2. /\ doc.pending # None
          /\ doc' = [doc EXCEPT !.pending.waiting = FALSE,
                                !.pending.ncco = work[p].ncco]
      BY <2>2 DEF Claim
    <3>3. doc' # None
      BY <3>1, <3>2, DocumentClaimed, NotNone
    <3>4. QED
      BY <2>2, <3>1, <3>2, <3>3, WithSame DEF SameDocument
  <2>3. ASSUME doc # None, Record(p)
        PROVE  SameDocument
    <3>1. doc \in Document /\ doc' = [doc EXCEPT !.last = p]
      BY <1>2, <2>3 DEF Record
    <3>2. doc' # None
      BY <3>1, DocumentWith, NotNone
    <3>3. QED
      BY <2>3, <3>1, <3>2, WithSame DEF SameDocument
  <2>4. \/ doc' = doc
        \/ doc # None /\ (Claim(p) \/ Record(p))
    BY DEF Receive, Check, LoadFails, Claim, Push, PushFails, Record, Complete,
           ConsumerCut, docVars
  <2>5. QED
    BY <2>1, <2>2, <2>3, <2>4
<1>5. QED
  BY <1>1, <1>3, <1>4 DEF Quiet

LEMMA WriteEventQuiet ==
    ASSUME Typed, NEW e \in CallEvent, WriteEvent(e)
    PROVE  Quiet
<1>1. started' = started /\ ended' = ended /\ work' = work
  BY DEF WriteEvent, workVars
<1>2. CASE doc = None
  BY <1>1, <1>2 DEF WriteEvent, Quiet, SameDocument
<1>3. CASE doc # None
  <2>1. doc \in Document /\ eventWork[e].menu \in Menu
    BY <1>3 DEF Typed, TypeOK, DocOK, EventOK, EventWork
  <2>2. doc' = [doc EXCEPT !.menu = eventWork[e].menu]
    BY <1>3 DEF WriteEvent
  <2>3. doc' # None
    BY <2>1, <2>2, DocumentWith, NotNone
  <2>4. QED
    BY <1>1, <1>3, <2>1, <2>2, <2>3, WithSame DEF Quiet, SameDocument
<1>4. QED
  BY <1>2, <1>3

(* The four steps that do load, save, create or delete. *)

LEMMA StartVersioned ==
    ASSUME Versioned, StartSaves
    PROVE  Fresh' /\ Loaded'
<1>1. work' = work /\ started' = TRUE
  BY DEF StartSaves, workVars
<1>2. \A p \in Presses : work[p].at # "save"
  BY DEF StartSaves, Versioned, Fresh
<1>3. QED
  BY <1>1, <1>2 DEF Fresh, Loaded

LEMMA LoadVersioned ==
    ASSUME Versioned, NEW p \in Presses, Load(p)
    PROVE  Fresh' /\ Loaded' /\ doc' = doc
<1>1. doc # None /\ doc' = doc /\ started' = started /\ ended' = ended
  BY DEF Load, docVars, eventVars
<1>2. doc.version \in Nat
  BY <1>1 DEF Versioned, Typed, TypeOK, DocOK, Document
<1>3. work \in [Presses -> Work]
  BY DEF Versioned, Typed, TypeOK, WorkOK
<1>4. /\ work'[p].version = doc.version
      /\ work'[p].keys = Append(doc.keys, p)
  BY <1>3 DEF Load
<1>5. \A q \in Presses \ {p} : work'[q] = work[q]
  BY <1>3 DEF Load
<1>6. Fresh'
  BY <1>1 DEF Versioned, Fresh
<1>7. Loaded'
  <2> SUFFICES ASSUME ~ended, NEW q \in Presses, work'[q].at = "save"
               PROVE  /\ work'[q].version <= doc.version
                      /\ work'[q].version = doc.version =>
                            work'[q].keys = Append(doc.keys, q)
    BY <1>1 DEF Loaded
  <2>1. CASE q = p
    BY <1>2, <1>4, <2>1
  <2>2. CASE q # p
    BY <1>5, <2>2 DEF Versioned, Loaded
  <2>3. QED
    BY <2>1, <2>2
<1>8. QED
  BY <1>1, <1>6, <1>7

(* A save that succeeds before the end adds the press to the document. *)
LEMMA SaveVersioned ==
    ASSUME Versioned, NEW p \in Presses, Save(p)
    PROVE  /\ Fresh' /\ Loaded'
           /\ started' = started /\ ended' = ended
           /\ ~ended => /\ doc' # None
                        /\ doc'.keys = doc.keys \/ Applies(p)
                        /\ doc'.last = doc.last
<1>1. started' = started /\ ended' = ended /\ work[p].at = "save"
  BY DEF Save, Working, eventVars
<1>2. work \in [Presses -> Work] /\ work[p] \in Work
  BY DEF Versioned, Typed, TypeOK, WorkOK
<1>3. \A q \in Presses \ {p} : work'[q] = work[q]
  BY <1>2 DEF Save, Goes
<1>4. work'[p].at # "save"
  BY <1>2 DEF Save, Goes, Work
<1>5. started
  BY <1>1 DEF Versioned, Fresh
<1>6. Fresh'
  BY <1>1, <1>5 DEF Fresh
<1>7. CASE ended
  BY <1>1, <1>6, <1>7 DEF Loaded
<1>8. CASE ~ended
  <2>1. /\ doc # None
        /\ work[p].version = doc.version => work[p].keys = Append(doc.keys, p)
    BY <1>1, <1>8 DEF Versioned, Loaded
  <2>2. doc \in Document
    BY <2>1 DEF Versioned, Typed, TypeOK, DocOK
  <2>3. doc.version \in Nat /\ \A q \in Presses : work[q].version \in Nat
    BY <1>2, <2>2 DEF Document, Work
  <2>4. CASE doc.version # work[p].version
    <3>1. doc' = doc
      BY <2>1, <2>4 DEF Save
    <3>2. Loaded'
      BY <1>1, <1>3, <1>4, <3>1 DEF Versioned, Loaded
    <3>3. QED
      BY <1>1, <1>6, <2>1, <3>1, <3>2
  <2>5. CASE doc.version = work[p].version
    <3>1. doc' = [doc EXCEPT !.menu = work[p].menu, !.keys = work[p].keys,
                             !.version = work[p].version + 1]
      BY <2>1, <2>5 DEF Save
    <3>2. work[p].menu \in Menu /\ work[p].keys \in Menu
      BY <1>2 DEF Work
    <3>3. doc' # None
      <4>1. work[p].version + 1 \in Nat
        BY <2>3
      <4>2. [doc EXCEPT !.menu = work[p].menu, !.keys = work[p].keys,
                        !.version = work[p].version + 1] \in Document
        BY <2>2, <3>2, <4>1, DocumentWith
      <4>3. QED
        BY <3>1, <4>2, NotNone
    <3>4. /\ doc'.version = doc.version + 1
          /\ doc'.keys = Append(doc.keys, p)
          /\ doc'.last = doc.last
      BY <2>1, <2>2, <2>5, <3>1 DEF Document
    <3>5. Loaded'
      <4> SUFFICES ASSUME NEW q \in Presses, work'[q].at = "save"
                   PROVE  /\ work'[q].version <= doc'.version
                          /\ work'[q].version # doc'.version
        BY <3>3 DEF Loaded
      <4>1. q # p
        BY <1>4
      <4>2. work'[q] = work[q] /\ work[q].version <= doc.version
        BY <1>3, <1>8, <4>1 DEF Versioned, Loaded
      <4>3. QED
        BY <2>3, <3>4, <4>2
    <3>6. QED
      BY <1>1, <1>6, <2>1, <3>3, <3>4, <3>5 DEF Applies
  <2>6. QED
    BY <2>4, <2>5
<1>9. QED
  BY <1>7, <1>8

LEMMA DeleteVersioned ==
    ASSUME Versioned, NEW e \in CallEvent, Delete(e)
    PROVE  Fresh' /\ Loaded'
  BY DEF Versioned, Delete, Fresh, Loaded, workVars

(* What a step is, as far as the presses in the document are concerned. *)
LEMMA StepCases ==
    ASSUME Typed, [Next]_vars
    PROVE  \/ Quiet
           \/ StartSaves
           \/ \E p \in Presses : Load(p) \/ Save(p)
           \/ \E e \in CallEvent : Delete(e)
<1>1. CASE UNCHANGED vars
  BY <1>1, CallerQuiet
<1>2. ASSUME NEW p \in Presses, Consumer(p) \/ ConsumerCut(p)
      PROVE  Quiet \/ Load(p) \/ Save(p)
  BY <1>2, ConsumerQuiet DEF Consumer
<1>3. ASSUME NEW e \in CallEvent, EventConsumer(e) \/ EventCut(e)
      PROVE  Quiet \/ Delete(e)
  BY <1>3, CallerQuiet, WriteEventQuiet DEF EventConsumer
<1>4. ASSUME NEW p \in Presses, NEW k \in Tries, Webhook(p, k) \/ Retry(p, k)
      PROVE  Quiet
  BY <1>4, CallerQuiet, WebhookQuiet
<1>5. ASSUME HangsUp \/ \E p \in Presses : Press(p)
      PROVE  Quiet
  BY <1>5, CallerQuiet
<1>6. QED
  BY <1>1, <1>2, <1>3, <1>4, <1>5 DEF Next

LEMMA NextVersioned == Versioned /\ [Next]_vars => Versioned'
<1> SUFFICES ASSUME Versioned, [Next]_vars PROVE Versioned'
  OBVIOUS
<1>1. Typed /\ Typed'
  BY NextTyped DEF Versioned
<1>2. Fresh' /\ Loaded'
  BY <1>1, StepCases, QuietVersioned, StartVersioned, LoadVersioned,
     SaveVersioned, DeleteVersioned DEF Versioned
<1>3. QED
  BY <1>1, <1>2 DEF Versioned

LEMMA VersionedKeeps == Versioned /\ [Next]_vars => KeepsKeys
<1> SUFFICES ASSUME Versioned, [Next]_vars, doc # None, ~ended
             PROVE  /\ doc' # None \/ ended'
                    /\ doc' # None => \/ doc'.keys = doc.keys
                                      \/ \E p \in Presses : Applies(p)
  BY DEF KeepsKeys
<1>1. CASE Quiet
  BY <1>1 DEF Quiet, SameDocument
<1>2. CASE StartSaves
  BY <1>2 DEF StartSaves, Versioned, Fresh
<1>3. ASSUME NEW p \in Presses, Load(p) \/ Save(p)
      PROVE  /\ doc' # None
             /\ doc'.keys = doc.keys \/ Applies(p)
  BY <1>3, LoadVersioned, SaveVersioned
<1>4. ASSUME NEW e \in CallEvent, Delete(e)
      PROVE  ended' /\ doc' = None
  BY <1>4 DEF Delete
<1>5. QED
  BY <1>1, <1>2, <1>3, <1>4, StepCases DEF Versioned

(***************************************************************************)
(* Optimistic locking: whatever consumers interleave, are cut or work on a *)
(* message again, no press that was saved is taken back or overwritten     *)
(* before the call is archived.                                            *)
(***************************************************************************)
THEOREM PressesKept == Spec => KeysKept
<1>1. Spec => []Versioned
  BY InitVersioned, NextVersioned, PTL DEF Spec
<1>2. QED
  BY <1>1, VersionedKeeps, PTL DEF Spec, KeysKept

-----------------------------------------------------------------------------
(* The bridge between the webhook and the consumer. *)

MarkerNow == IF doc = None THEN None ELSE doc.pending

Waiting(p) == \E k \in Tries : hook[<<p, k>>] \in {"send", "wait"}

(* A marker belongs to a request that waits, and holds an NCCO if claimed. *)
MarkerAwaited ==
    MarkerNow # None =>
        /\ Waiting(MarkerNow.press)
        /\ ~MarkerNow.waiting => MarkerNow.ncco \in Ncco

Bridged == Versioned /\ MarkerAwaited /\ BridgeHandsOver

LEMMA MarkerType ==
    ASSUME Typed
    PROVE  MarkerNow \in Marker \cup {None}
  BY DEF Typed, TypeOK, DocOK, MarkerNow, Document

LEMMA UnclaimedIs ==
    /\ Unclaimed = IF MarkerNow # None /\ ~MarkerNow.waiting
                   THEN {MarkerNow.press} ELSE {}
    /\ Unclaimed' = IF MarkerNow' # None /\ ~MarkerNow'.waiting
                    THEN {MarkerNow'.press} ELSE {}
  BY DEF Unclaimed, Claimed, MarkerNow

LEMMA InitBridged == Init => Bridged
  BY InitVersioned DEF Bridged, Init, MarkerAwaited, MarkerNow, BridgeHandsOver

(* A step that leaves the marker and the requests that wait alone. *)
BridgeQuiet ==
    /\ MarkerNow' = MarkerNow
    /\ \A p \in Presses : Waiting(p) => Waiting(p)'
    /\ claimed' = claimed
    /\ erased \subseteq erased'
    /\ given \subseteq given'
    /\ leg' = "up" => leg = "up"

LEMMA QuietBridged ==
    ASSUME Typed, MarkerAwaited, BridgeHandsOver, BridgeQuiet
    PROVE  MarkerAwaited' /\ BridgeHandsOver'
<1>1. MarkerNow # None => MarkerNow.press \in Presses
  BY MarkerType, NotNone DEF Marker
<1>2. MarkerAwaited'
  BY <1>1 DEF MarkerAwaited, BridgeQuiet
<1>3. Unclaimed' = Unclaimed
  BY UnclaimedIs DEF BridgeQuiet
<1>4. ASSUME NEW p \in claimed' \ erased', leg' = "up"
      PROVE  p \in given' \/ AwaitedInMarker(p)'
  <2>1. p \in Presses
    BY <1>4 DEF BridgeQuiet, Typed, TypeOK, WorkOK
  <2>2. p \in given \/ AwaitedInMarker(p)
    BY <1>4 DEF BridgeQuiet, BridgeHandsOver
  <2>3. AwaitedInMarker(p) => AwaitedInMarker(p)'
    BY <1>3, <2>1 DEF AwaitedInMarker, BridgeQuiet, Waiting
  <2>4. QED
    BY <2>2, <2>3 DEF BridgeQuiet
<1>5. QED
  BY <1>2, <1>4 DEF BridgeHandsOver

LEMMA HookSet ==
    ASSUME HookOK, NEW p \in Presses, NEW k \in Tries, NEW s,
           hook' = [hook EXCEPT ![<<p, k>>] = s]
    PROVE  \A q \in Presses, j \in Tries :
              hook'[<<q, j>>] = IF q = p /\ j = k THEN s ELSE hook[<<q, j>>]
  BY DEF HookOK, Hook

LEMMA AnswerGrows ==
    ASSUME NEW p \in Presses, NEW k \in Tries, NEW n, Answer(p, k, n)
    PROVE  given \subseteq given' /\ leg' = leg
  BY DEF Answer, Give, callVars

(* The steps that touch neither the marker nor a waiting request. *)
LEMMA CallerBridgeQuiet ==
    ASSUME Versioned,
           \/ StartSaves \/ HangsUp
           \/ \E p \in Presses : Press(p) \/ \E k \in Tries : Retry(p, k)
    PROVE  BridgeQuiet
<1>1. HookOK
  BY DEF Versioned, Typed, TypeOK
<1>2. CASE StartSaves
  BY <1>2 DEF StartSaves, Versioned, Fresh, BridgeQuiet, MarkerNow, Waiting,
              callVars, workVars
<1>3. CASE HangsUp
  BY <1>3 DEF HangsUp, BridgeQuiet, MarkerNow, Waiting, docVars, workVars
<1>4. ASSUME NEW p \in Presses, Press(p)
      PROVE  BridgeQuiet
  <2>1. 1 \in Tries
    BY IvrAssumption DEF Tries
  <2>2. \A q \in Presses : Waiting(q) => Waiting(q)'
    BY <1>1, <1>4, <2>1, HookSet DEF Press, Waiting
  <2>3. QED
    BY <1>4, <2>2 DEF Press, BridgeQuiet, MarkerNow, docVars, workVars
<1>5. ASSUME NEW p \in Presses, NEW k \in Tries, Retry(p, k)
      PROVE  BridgeQuiet
  <2>1. \A q \in Presses : Waiting(q) => Waiting(q)'
    BY <1>1, <1>5, HookSet DEF Retry, Waiting
  <2>2. QED
    BY <1>5, <2>1 DEF Retry, BridgeQuiet, MarkerNow, callVars, docVars, workVars
<1>6. QED
  BY <1>2, <1>3, <1>4, <1>5

LEMMA SendBridgeQuiet ==
    ASSUME Versioned, NEW p \in Presses, NEW k \in Tries,
           ArmFails(p, k) \/ Send(p, k)
    PROVE  BridgeQuiet
<1>1. HookOK
  BY DEF Versioned, Typed, TypeOK
<1>2. CASE ArmFails(p, k)
  <2>1. \A q \in Presses : Waiting(q) => Waiting(q)'
    BY <1>1, <1>2, HookSet DEF ArmFails, Waiting
  <2>2. QED
    BY <1>2, <2>1 DEF ArmFails, BridgeQuiet, MarkerNow, callVars, docVars,
                      workVars
<1>3. CASE Send(p, k)
  <2>1. \A q \in Presses : Waiting(q) => Waiting(q)'
    BY <1>1, <1>3, HookSet DEF Send, Waiting
  <2>2. given \subseteq given' /\ leg' = leg
    BY <1>3, AnswerGrows DEF Send, callVars
  <2>3. QED
    BY <1>3, <2>1, <2>2 DEF Send, BridgeQuiet, MarkerNow, docVars, workVars
<1>4. QED
  BY <1>2, <1>3

LEMMA ConsumerBridgeQuiet ==
    ASSUME Versioned, NEW p \in Presses,
           \/ Receive(p) \/ Check(p) \/ Load(p) \/ LoadFails(p) \/ Save(p)
           \/ Push(p) \/ PushFails(p) \/ Record(p) \/ Complete(p)
           \/ ConsumerCut(p)
    PROVE  BridgeQuiet
<1>1. /\ hook' = hook /\ claimed' = claimed /\ erased' = erased
      /\ leg' = leg /\ given \subseteq given'
  BY DEF Receive, Check, Load, LoadFails, Save, Push, PushFails, Record,
         Complete, ConsumerCut, Give, callVars, docVars
<1>2. doc # None => doc \in Document
  BY DEF Versioned, Typed, TypeOK, DocOK
<1>3. MarkerNow' = MarkerNow
  <2>1. CASE doc' = doc
    BY <2>1 DEF MarkerNow
  <2>2. CASE Save(p) /\ doc' # doc
    <3>1. work[p].menu \in Menu /\ work[p].keys \in Menu
          /\ work[p].version + 1 \in Nat
      BY DEF Versioned, Typed, TypeOK, WorkOK, Work
    <3>2. CASE doc = None
      <4>1. doc' = [menu |-> work[p].menu, keys |-> work[p].keys,
                    version |-> work[p].version + 1,
                    pending |-> None, last |-> None]
        BY <2>2, <3>2 DEF Save
      <4>2. QED
        BY <3>2, <4>1 DEF MarkerNow
    <3>3. CASE doc # None
      <4>1. doc' = [doc EXCEPT !.menu = work[p].menu, !.keys = work[p].keys,
                               !.version = work[p].version + 1]
        BY <2>2, <3>3 DEF Save
      <4>2. [doc EXCEPT !.menu = work[p].menu, !.keys = work[p].keys,
                        !.version = work[p].version + 1] \in Document
        BY <1>2, <3>1, <3>3, DocumentWith
      <4>3. doc' # None
        BY <4>1, <4>2, NotNone
      <4>4. doc'.pending = doc.pending
        BY <1>2, <3>3, <4>1 DEF Document
      <4>5. QED
        BY <3>3, <4>3, <4>4 DEF MarkerNow
    <3>4. QED
      BY <3>2, <3>3
  <2>3. CASE Record(p) /\ doc' # doc
    <3>1. doc \in Document /\ doc # None /\ doc' = [doc EXCEPT !.last = p]
      BY <1>2, <2>3 DEF Record
    <3>2. [doc EXCEPT !.last = p] \in Document
      BY <3>1, DocumentWith
    <3>3. doc' # None /\ doc'.pending = doc.pending
      BY <3>1, <3>2, NotNone DEF Document
    <3>4. QED
      BY <3>1, <3>3 DEF MarkerNow
  <2>4. doc' = doc \/ Save(p) \/ Record(p)
    BY DEF Receive, Check, Load, LoadFails, Push, PushFails, Complete,
           ConsumerCut, docVars
  <2>5. QED
    BY <2>1, <2>2, <2>3, <2>4
<1>4. QED
  BY <1>1, <1>3 DEF BridgeQuiet, Waiting

LEMMA EventBridgeQuiet ==
    ASSUME Versioned, NEW e \in CallEvent,
           \/ ReceiveEvent(e) \/ FindForEvent(e) \/ WriteEvent(e)
           \/ Archive(e) \/ EventCut(e)
    PROVE  BridgeQuiet
<1>1. /\ hook' = hook /\ claimed' = claimed /\ erased' = erased
      /\ leg' = leg /\ given' = given
  BY DEF ReceiveEvent, FindForEvent, WriteEvent, Archive, EventCut, callVars,
         docVars, workVars
<1>2. MarkerNow' = MarkerNow
  <2>1. CASE doc' = doc
    BY <2>1 DEF MarkerNow
  <2>2. CASE WriteEvent(e) /\ doc # None
    <3>1. doc \in Document /\ eventWork[e].menu \in Menu
      BY <2>2 DEF Versioned, Typed, TypeOK, DocOK, EventOK, EventWork
    <3>2. doc' = [doc EXCEPT !.menu = eventWork[e].menu]
      BY <2>2 DEF WriteEvent
    <3>3. [doc EXCEPT !.menu = eventWork[e].menu] \in Document
      BY <3>1, DocumentWith
    <3>4. doc' # None /\ doc'.pending = doc.pending
      BY <3>1, <3>2, <3>3, NotNone DEF Document
    <3>5. QED
      BY <2>2, <3>4 DEF MarkerNow
  <2>3. CASE WriteEvent(e) /\ doc = None
    BY <2>1, <2>3 DEF WriteEvent
  <2>4. CASE ReceiveEvent(e) \/ FindForEvent(e) \/ Archive(e) \/ EventCut(e)
    BY <2>1, <2>4 DEF ReceiveEvent, FindForEvent, Archive, EventCut, docVars
  <2>5. QED
    BY <2>2, <2>3, <2>4
<1>3. QED
  BY <1>1, <1>2 DEF BridgeQuiet, Waiting

(* The steps at the two ends of the bridge. *)

LEMMA ArmBridged ==
    ASSUME Bridged, NEW p \in Presses, NEW k \in Tries, Arm(p, k)
    PROVE  MarkerAwaited' /\ BridgeHandsOver'
<1>1. HookOK /\ doc \in Document /\ doc # None
  BY DEF Bridged, Versioned, Typed, TypeOK, DocOK, Arm
<1>2. doc' = [doc EXCEPT !.pending = [press |-> p, waiting |-> TRUE,
                                      ncco |-> None]]
  BY DEF Arm
<1>3. [doc EXCEPT !.pending = [press |-> p, waiting |-> TRUE,
                               ncco |-> None]] \in Document
  BY <1>1, MarkerArmed, DocumentWith
<1>4. MarkerNow' = [press |-> p, waiting |-> TRUE, ncco |-> None]
  BY <1>1, <1>2, <1>3, NotNone DEF MarkerNow, Document
<1>5. Waiting(p)'
  BY <1>1, HookSet DEF Arm, Waiting
<1>6. MarkerAwaited'
  BY <1>4, <1>5 DEF MarkerAwaited
<1>7. /\ claimed' = claimed /\ given' = given /\ leg' = leg
      /\ erased' = erased \cup Unclaimed
  BY DEF Arm, callVars, workVars
<1>8. BridgeHandsOver'
  BY <1>7 DEF Bridged, BridgeHandsOver, AwaitedInMarker
<1>9. QED
  BY <1>6, <1>8

LEMMA PopBridged ==
    ASSUME Bridged, NEW p \in Presses, NEW k \in Tries, Pop(p, k)
    PROVE  MarkerAwaited' /\ BridgeHandsOver'
<1>1. HookOK /\ (doc # None => doc \in Document)
  BY DEF Bridged, Versioned, Typed, TypeOK, DocOK
<1>2. \A q \in Presses \ {p} : Waiting(q) => Waiting(q)'
  BY <1>1, HookSet DEF Pop, Waiting
<1>3. given \subseteq given' /\ leg' = leg /\ claimed' = claimed
  BY AnswerGrows DEF Pop, workVars
<1>4. CASE doc # None /\ doc.pending # None /\ doc.pending.press = p
  <2>1. doc' = [doc EXCEPT !.pending = None]
    BY <1>4 DEF Pop
  <2>2. MarkerNow' = None
    BY <1>1, <1>4, <2>1 DEF MarkerNow, Document
  <2>3. MarkerAwaited'
    BY <2>2 DEF MarkerAwaited
  <2>4. Unclaimed \subseteq {p}
    BY <1>4 DEF Unclaimed
  <2>5. p \in Unclaimed /\ leg = "up" => p \in given' \/ p \in erased'
    <3>1. SUFFICES ASSUME p \in Unclaimed, leg = "up", Latest(p, k)
                   PROVE  p \in given'
      BY <1>4 DEF Pop
    <3>2. doc.pending.ncco \in Ncco
      BY <1>4, <3>1 DEF Bridged, MarkerAwaited, MarkerNow, Unclaimed, Claimed
    <3>3. QED
      BY <1>4, <3>1, <3>2, NotNone DEF Pop, Answer, Give
  <2>6. erased \subseteq erased'
    BY <1>4 DEF Pop
  <2>7. BridgeHandsOver'
    BY <1>3, <2>4, <2>5, <2>6 DEF Bridged, BridgeHandsOver, AwaitedInMarker
  <2>8. QED
    BY <2>3, <2>7
<1>5. CASE ~(doc # None /\ doc.pending # None /\ doc.pending.press = p)
  <2>1. doc' = doc /\ erased' = erased
    BY <1>5 DEF Pop
  <2>2. MarkerNow' = MarkerNow /\ (MarkerNow # None => MarkerNow.press # p)
    BY <1>5, <2>1 DEF MarkerNow
  <2>3. MarkerNow # None => MarkerNow.press \in Presses
    BY MarkerType, NotNone DEF Bridged, Versioned, Marker
  <2>4. MarkerAwaited'
    BY <1>2, <2>2, <2>3 DEF Bridged, MarkerAwaited
  <2>5. Unclaimed' = Unclaimed /\ p \notin Unclaimed
    BY <2>2, UnclaimedIs
  <2>6. ASSUME NEW q \in claimed' \ erased', leg' = "up"
        PROVE  q \in given' \/ AwaitedInMarker(q)'
    <3>1. q \in Presses /\ (q \in given \/ AwaitedInMarker(q))
      BY <1>3, <2>1, <2>6
         DEF Bridged, BridgeHandsOver, Versioned, Typed, TypeOK, WorkOK
    <3>2. AwaitedInMarker(q) => AwaitedInMarker(q)'
      BY <1>2, <2>5, <3>1 DEF AwaitedInMarker, Waiting
    <3>3. QED
      BY <1>3, <3>1, <3>2
  <2>7. QED
    BY <2>4, <2>6 DEF BridgeHandsOver
<1>6. QED
  BY <1>4, <1>5

LEMMA ClaimBridged ==
    ASSUME Bridged, NEW p \in Presses, Claim(p)
    PROVE  MarkerAwaited' /\ BridgeHandsOver'
<1>1. doc # None => doc \in Document
  BY DEF Bridged, Versioned, Typed, TypeOK, DocOK
<1>2. work[p].ncco \in Ncco
  BY DEF Claim, Working, Bridged, Versioned, Typed, NccoReady
<1>3. /\ hook' = hook /\ erased' = erased /\ given' = given /\ leg' = leg
  BY DEF Claim, callVars
<1>4. CASE /\ doc # None /\ doc.pending # None
           /\ doc.pending.press = p /\ doc.pending.waiting
  <2>1. doc \in Document /\ doc.pending \in Marker
    BY <1>1, <1>4 DEF Document
  <2>2. /\ doc' = [doc EXCEPT !.pending.waiting = FALSE,
                              !.pending.ncco = work[p].ncco]
        /\ claimed' = claimed \cup {p}
    BY <1>4 DEF Claim
  <2>3. [doc EXCEPT !.pending.waiting = FALSE,
                    !.pending.ncco = work[p].ncco] \in Document
    BY <1>2, <1>4, <2>1, DocumentClaimed
  <2>4. doc' # None
    BY <2>2, <2>3, NotNone
  <2>5. /\ doc'.pending # None
        /\ doc'.pending.press = p /\ ~doc'.pending.waiting
        /\ doc'.pending.ncco = work[p].ncco
    <3>1. doc'.pending = [doc.pending EXCEPT !.waiting = FALSE,
                                             !.ncco = work[p].ncco]
      BY <2>1, <2>2 DEF Document
    <3>2. [doc.pending EXCEPT !.waiting = FALSE, !.ncco = work[p].ncco]
             \in Marker
      BY <1>2, <2>1 DEF Marker
    <3>3. QED
      BY <1>4, <2>1, <3>1, <3>2, NotNone DEF Marker
  <2>6. Waiting(p) /\ Waiting(p)'
    BY <1>3, <1>4 DEF Bridged, MarkerAwaited, MarkerNow, Waiting
  <2>7. MarkerAwaited'
    BY <1>2, <2>4, <2>5, <2>6 DEF MarkerAwaited, MarkerNow
  <2>8. AwaitedInMarker(p)'
    BY <2>4, <2>5, <2>6 DEF AwaitedInMarker, Unclaimed, Claimed, Waiting
  <2>9. Unclaimed = {}
    BY <1>4 DEF Unclaimed, Claimed
  <2>10. BridgeHandsOver'
    BY <1>3, <2>2, <2>8, <2>9 DEF Bridged, BridgeHandsOver, AwaitedInMarker
  <2>11. QED
    BY <2>7, <2>10
<1>5. CASE ~(/\ doc # None /\ doc.pending # None
             /\ doc.pending.press = p /\ doc.pending.waiting)
  <2>1. doc' = doc /\ claimed' = claimed
    BY <1>5 DEF Claim
  <2>2. BridgeQuiet
    BY <1>3, <2>1 DEF BridgeQuiet, MarkerNow, Waiting
  <2>3. QED
    BY <2>2, QuietBridged DEF Bridged, Versioned
<1>6. QED
  BY <1>4, <1>5

LEMMA DeleteBridged ==
    ASSUME Bridged, NEW e \in CallEvent, Delete(e)
    PROVE  MarkerAwaited' /\ BridgeHandsOver'
<1>1. MarkerAwaited'
  BY DEF Delete, MarkerAwaited, MarkerNow
<1>2. /\ claimed' = claimed /\ given' = given /\ leg' = leg
      /\ erased' = erased \cup Unclaimed
  BY DEF Delete, callVars, workVars
<1>3. BridgeHandsOver'
  BY <1>2 DEF Bridged, BridgeHandsOver, AwaitedInMarker
<1>4. QED
  BY <1>1, <1>3

LEMMA NextBridged == Bridged /\ [Next]_vars => Bridged'
<1> SUFFICES ASSUME Bridged, [Next]_vars PROVE MarkerAwaited' /\ BridgeHandsOver'
  BY NextVersioned DEF Bridged
<1> USE QuietBridged DEF Bridged, Versioned
<1>1. CASE UNCHANGED vars
  <2>1. BridgeQuiet
    BY <1>1 DEF BridgeQuiet, MarkerNow, Waiting, vars, callVars, docVars,
                workVars
  <2>2. QED
    BY <2>1
<1>2. CASE \/ StartSaves \/ HangsUp
           \/ \E p \in Presses : Press(p) \/ \E k \in Tries : Retry(p, k)
  BY <1>2, CallerBridgeQuiet
<1>3. ASSUME NEW p \in Presses, NEW k \in Tries, Webhook(p, k)
      PROVE  MarkerAwaited' /\ BridgeHandsOver'
  BY <1>3, SendBridgeQuiet, ArmBridged, PopBridged DEF Webhook
<1>4. ASSUME NEW p \in Presses, Consumer(p) \/ ConsumerCut(p)
      PROVE  MarkerAwaited' /\ BridgeHandsOver'
  BY <1>4, ConsumerBridgeQuiet, ClaimBridged DEF Consumer
<1>5. ASSUME NEW e \in CallEvent, EventConsumer(e) \/ EventCut(e)
      PROVE  MarkerAwaited' /\ BridgeHandsOver'
  BY <1>5, EventBridgeQuiet, DeleteBridged DEF EventConsumer
<1>6. QED
  BY <1>1, <1>2, <1>3, <1>4, <1>5 DEF Next

(***************************************************************************)
(* The bridge: of a webhook that gives up and a consumer that delivers at  *)
(* that moment, neither leaves the other's result in the marker, for any   *)
(* number of presses, repeated requests and processes.                     *)
(***************************************************************************)
THEOREM BridgeCorrect == Spec => []BridgeHandsOver
<1>1. Spec => []Bridged
  BY InitBridged, NextBridged, PTL DEF Spec
<1>2. Bridged => BridgeHandsOver
  BY DEF Bridged
<1>3. QED
  BY <1>1, <1>2, PTL

-----------------------------------------------------------------------------
(* A message that is delivered again. *)

Applied(p) == ~ended /\ doc # None /\ p \in Pressed(doc.keys)

(* The bus has accepted what it holds, what is worked on and what is applied, *)
(* and holds no message that is being worked on.                              *)
OneMessage ==
    \A p \in Presses :
        /\ p \in bus => p \in sent /\ Working(p, "idle")
        /\ ~Working(p, "idle") => p \in sent
        /\ Applied(p) => p \in sent

(* How a press that is applied will be recognised where its message is now. *)
Recognised(p) ==
    \/ p \in unsure
    \/ work[p].at \in {"claim", "push", "record", "complete"}
    \/ Working(p, "idle") /\ p \notin bus
    \/ work[p].at \in {"idle", "check"} /\ p \in recorded
    \/ work[p].at \in {"load", "save"} /\ p \in recorded /\ doc.last # p

AppliedRecognised == \A p \in Presses : Applied(p) => Recognised(p)

Once == Versioned /\ OneMessage /\ AppliedRecognised

LEMMA InitOnce == Init => Once
  BY InitVersioned
     DEF Once, Init, OneMessage, AppliedRecognised, Applied, Working, Idle

LEMMA PressedAppend ==
    ASSUME NEW s \in Menu, NEW p \in Presses
    PROVE  Pressed(Append(s, p)) = Pressed(s) \cup {p}
  BY DEF Menu, Pressed

LEMMA AppendInjective ==
    ASSUME NEW s \in Menu, NEW p \in Presses, NEW q \in Presses
    PROVE  /\ Append(s, p) # s
           /\ Append(s, p) = Append(s, q) => p = q
<1>1. Len(Append(s, p)) # Len(s)
  BY DEF Menu
<1>2. Append(s, p)[Len(s) + 1] = p /\ Append(s, q)[Len(s) + 1] = q
  BY DEF Menu
<1>3. QED
  BY <1>1, <1>2

(* Only Record changes which press was recorded last. *)
LastKept ==
    doc # None /\ doc' # None =>
        \/ doc'.last = doc.last
        \/ \E p \in Presses : Record(p) /\ doc'.last = p

LEMMA StepKeepsLast ==
    ASSUME Versioned, [Next]_vars
    PROVE  LastKept
<1> SUFFICES ASSUME doc # None, doc' # None
             PROVE  \/ doc'.last = doc.last
                    \/ \E p \in Presses : Record(p) /\ doc'.last = p
  BY DEF LastKept
<1>1. doc \in Document
  BY DEF Versioned, Typed, TypeOK, DocOK
<1>2. CASE UNCHANGED vars
  BY <1>2 DEF vars, docVars
<1>3. CASE StartSaves
  BY <1>3 DEF StartSaves, Versioned, Fresh
<1>5. ASSUME NEW p \in Presses, NEW k \in Tries, Webhook(p, k) \/ Retry(p, k)
      PROVE  doc'.last = doc.last
  <2>1. CASE Arm(p, k)
    BY <1>1, <2>1 DEF Arm, Document
  <2>2. CASE Pop(p, k)
    <3>1. doc' = doc \/ doc' = [doc EXCEPT !.pending = None]
      BY <2>2 DEF Pop
    <3>2. QED
      BY <1>1, <3>1 DEF Document
  <2>3. CASE ArmFails(p, k) \/ Send(p, k) \/ Retry(p, k)
    BY <2>3 DEF ArmFails, Send, Retry, docVars
  <2>4. QED
    BY <1>5, <2>1, <2>2, <2>3 DEF Webhook
<1>6. ASSUME NEW p \in Presses, Consumer(p) \/ ConsumerCut(p)
      PROVE  \/ doc'.last = doc.last
             \/ Record(p) /\ doc'.last = p
  <2>1. CASE Save(p)
    <3>1. \/ doc' = doc
          \/ doc' = [doc EXCEPT !.menu = work[p].menu, !.keys = work[p].keys,
                                !.version = work[p].version + 1]
      BY <2>1 DEF Save
    <3>2. QED
      BY <1>1, <3>1 DEF Document
  <2>2. CASE Claim(p)
    <3>1. \/ doc' = doc
          \/ doc' = [doc EXCEPT !.pending.waiting = FALSE,
                                !.pending.ncco = work[p].ncco]
      BY <2>2 DEF Claim
    <3>2. QED
      BY <1>1, <3>1 DEF Document
  <2>3. CASE Record(p)
    <3>1. doc' = [doc EXCEPT !.last = p]
      BY <2>3 DEF Record
    <3>2. QED
      BY <1>1, <2>3, <3>1 DEF Document
  <2>4. CASE \/ Receive(p) \/ Check(p) \/ Load(p) \/ LoadFails(p) \/ Push(p)
             \/ PushFails(p) \/ Complete(p) \/ ConsumerCut(p)
    BY <2>4 DEF Receive, Check, Load, LoadFails, Push, PushFails, Complete,
                ConsumerCut, docVars
  <2>5. QED
    BY <1>6, <2>1, <2>2, <2>3, <2>4 DEF Consumer
<1>7. ASSUME NEW e \in CallEvent, EventConsumer(e) \/ EventCut(e)
      PROVE  doc'.last = doc.last
  <2>1. CASE WriteEvent(e)
    BY <1>1, <2>1 DEF WriteEvent, Document
  <2>2. CASE ReceiveEvent(e) \/ FindForEvent(e) \/ Archive(e) \/ EventCut(e)
    BY <2>2 DEF ReceiveEvent, FindForEvent, Archive, EventCut, docVars
  <2>3. CASE Delete(e)
    BY <2>3 DEF Delete
  <2>4. QED
    BY <1>7, <2>1, <2>2, <2>3 DEF EventConsumer
<1>8. CASE Next
  <2>1. CASE HangsUp
    BY <2>1 DEF HangsUp, docVars
  <2>2. CASE \E p \in Presses : Press(p)
    BY <2>2 DEF Press, docVars
  <2>3. CASE \E p \in Presses : Consumer(p) \/ ConsumerCut(p)
    BY <1>6, <2>3
  <2>4. CASE \E p \in Presses, k \in Tries : Webhook(p, k) \/ Retry(p, k)
    BY <1>5, <2>4
  <2>5. CASE \E e \in CallEvent : EventConsumer(e) \/ EventCut(e)
    BY <1>7, <2>5
  <2>6. QED
    BY <1>3, <1>8, <2>1, <2>2, <2>3, <2>4, <2>5 DEF Next
<1>9. QED
  BY <1>2, <1>8

(* A press becomes applied by its own save only. *)
LEMMA AppliedBySave ==
    ASSUME Versioned, [Next]_vars, NEW p \in Presses, Applied(p)'
    PROVE  Applied(p) \/ Save(p)
<1>1. CASE Quiet
  BY <1>1 DEF Quiet, SameDocument, Applied, Pressed
<1>2. CASE StartSaves
  BY <1>2 DEF StartSaves, Applied, Pressed
<1>3. ASSUME NEW q \in Presses, Load(q)
      PROVE  Applied(p)
  BY <1>3 DEF Load, Applied, Pressed, docVars, eventVars
<1>4. ASSUME NEW q \in Presses, Save(q)
      PROVE  Applied(p) \/ p = q
  <2>1. ~ended /\ work[q].at = "save"
    BY <1>4 DEF Save, Working, Applied, eventVars
  <2>2. doc # None
    BY <2>1 DEF Versioned, Loaded
  <2>3. doc.keys \in Menu
    BY <2>2 DEF Versioned, Typed, TypeOK, DocOK, Document
  <2>4. doc'.keys = doc.keys \/ doc'.keys = Append(doc.keys, q)
    BY <1>4, <2>1, SaveVersioned DEF Applies
  <2>5. Pressed(doc'.keys) \subseteq Pressed(doc.keys) \cup {q}
    BY <2>3, <2>4, PressedAppend
  <2>6. QED
    BY <2>1, <2>2, <2>5 DEF Applied
<1>5. ASSUME NEW e \in CallEvent, Delete(e)
      PROVE  FALSE
  BY <1>5 DEF Delete, Applied
<1>6. QED
  BY <1>1, <1>2, <1>3, <1>4, <1>5, StepCases DEF Versioned

LEMMA SavesAndRecordsGoOn ==
    ASSUME Typed, NEW p \in Presses, work'[p].at = work[p].at
    PROVE  ~Save(p) /\ ~Record(p)
  BY DEF Save, Record, Goes, Working, Typed, TypeOK, WorkOK, Work

(* A step that is about another press, or about none. *)
Elsewhere(p) ==
    /\ work'[p].at = work[p].at
    /\ p \in bus' => p \in bus
    /\ sent \subseteq sent'
    /\ unsure \subseteq unsure'
    /\ recorded \subseteq recorded'

OnceFor(p) ==
    /\ p \in bus => p \in sent /\ Working(p, "idle")
    /\ ~Working(p, "idle") => p \in sent
    /\ Applied(p) => p \in sent /\ Recognised(p)

LEMMA ElsewhereOnce ==
    ASSUME Versioned, [Next]_vars, NEW p \in Presses, OnceFor(p), Elsewhere(p)
    PROVE  OnceFor(p)'
<1>1. ~Save(p) /\ ~Record(p)
  BY SavesAndRecordsGoOn DEF Elsewhere, Versioned
<1>2. Applied(p)' => Applied(p)
  BY <1>1, AppliedBySave
<1>3. ASSUME Applied(p)' PROVE doc'.last = doc.last \/ doc'.last # p
  BY <1>1, <1>2, <1>3, StepKeepsLast DEF LastKept, Applied
<1>4. Applied(p)' => Recognised(p)'
  BY <1>2, <1>3 DEF OnceFor, Elsewhere, Recognised, Working
<1>5. QED
  BY <1>2, <1>4 DEF OnceFor, Elsewhere, Working

LEMMA OutsideElsewhere ==
    ASSUME NEW p \in Presses, UNCHANGED <<bus, sent, work, unsure, recorded>>
    PROVE  Elsewhere(p)
  BY DEF Elsewhere

LEMMA OtherConsumerElsewhere ==
    ASSUME Typed, NEW p \in Presses, NEW q \in Presses, p # q,
           Consumer(q) \/ ConsumerCut(q)
    PROVE  Elsewhere(p)
<1>1. work \in [Presses -> Work]
  BY DEF Typed, TypeOK, WorkOK
<1>2. work'[p] = work[p]
  BY <1>1 DEF Consumer, Receive, Check, Load, LoadFails, Save, Claim, Push,
              PushFails, Record, Complete, ConsumerCut, Goes
<1>3. sent' = sent /\ bus' \subseteq bus \cup {q}
  BY DEF Consumer, Receive, Check, Load, LoadFails, Save, Claim, Push,
         PushFails, Record, Complete, ConsumerCut, busVars, Locked,
         Abandoned
<1>4. unsure \subseteq unsure' /\ recorded \subseteq recorded'
  BY DEF Consumer, Receive, Check, Load, LoadFails, Save, Claim, Push,
         PushFails, Record, Complete, ConsumerCut, workVars
<1>5. QED
  BY <1>2, <1>3, <1>4 DEF Elsewhere

(* A press that is sent for the first time has not been applied. *)
LEMMA SendOnce ==
    ASSUME Versioned, [Next]_vars, NEW p \in Presses, OnceFor(p),
           NEW q \in Presses, NEW k \in Tries, Send(q, k)
    PROVE  OnceFor(p)'
<1>1. work' = work /\ unsure' = unsure /\ recorded' = recorded
  BY DEF Send, workVars
<1>2. \/ sent' = sent /\ bus' = bus
      \/ sent' = sent \cup {q} /\ bus' = IF q \in sent THEN bus ELSE bus \cup {q}
  BY DEF Send
<1>3. CASE q # p \/ p \in sent
  <2>1. Elsewhere(p)
    BY <1>1, <1>2, <1>3 DEF Elsewhere
  <2>2. QED
    BY <2>1, ElsewhereOnce
<1>4. CASE q = p /\ p \notin sent
  <2>1. Working(p, "idle") /\ ~Applied(p)
    BY <1>4 DEF OnceFor
  <2>2. ~Applied(p)'
    <3>1. ~Save(p)
      BY <2>1 DEF Save, Working
    <3>2. QED
      BY <2>1, <3>1, AppliedBySave
  <2>3. p \in bus' => p \in sent'
    BY <1>2, <1>4 DEF OnceFor
  <2>4. QED
    BY <1>1, <2>1, <2>2, <2>3 DEF OnceFor, Working
<1>5. QED
  BY <1>3, <1>4

(* The consumer recognises a press that has been applied, or is on the way *)
(* to a record of it.                                                      *)
LEMMA OwnStepOnce ==
    ASSUME Versioned, [Next]_vars, NEW p \in Presses, OnceFor(p),
           Consumer(p) \/ ConsumerCut(p)
    PROVE  OnceFor(p)'
<1>1. work \in [Presses -> Work]
  BY DEF Versioned, Typed, TypeOK, WorkOK
<1>2. sent' = sent
  BY DEF Consumer, Receive, Check, Load, LoadFails, Save, Claim, Push,
         PushFails, Record, Complete, ConsumerCut, busVars
<1>3. ASSUME bus' = bus, ~Working(p, "idle"),
             work'[p].at \in {"claim", "push", "record", "complete"}
      PROVE  OnceFor(p)'
  BY <1>2, <1>3 DEF OnceFor, Recognised, Working
<1>4. CASE Save(p)
  BY <1>1, <1>3, <1>4 DEF Save, Goes, Working, busVars, Work
<1>5. CASE LoadFails(p)
  <2>1. work'[p].at = "claim"
    BY <1>1, <1>5 DEF LoadFails, Idle
  <2>2. QED
    BY <1>3, <1>5, <2>1 DEF LoadFails, Working, busVars
<1>6. CASE Claim(p) \/ Push(p) \/ PushFails(p) \/ Record(p)
  <2>1. work'[p].at \in {"push", "record", "complete"}
    BY <1>1, <1>6 DEF Claim, Push, PushFails, Record, Goes, Work
  <2>2. QED
    BY <1>3, <1>6, <2>1 DEF Claim, Push, PushFails, Record, Working, busVars
<1>7. CASE Receive(p)
  <2>1. work'[p].at = "check" /\ p \notin bus'
    BY <1>1, <1>7 DEF Receive, Locked, Idle
  <2>2. p \in bus /\ p \in sent /\ Working(p, "idle")
    BY <1>7 DEF Receive, OnceFor
  <2>3. Applied(p)' => Applied(p)
    <3>1. ~Save(p)
      BY <2>2 DEF Save, Working
    <3>2. QED
      BY <3>1, AppliedBySave
  <2>4. unsure' = unsure /\ recorded' = recorded
    BY <1>7 DEF Receive
  <2>5. Applied(p) => p \in unsure \/ p \in recorded
    BY <2>2 DEF OnceFor, Recognised, Working
  <2>6. QED
    BY <1>2, <2>1, <2>2, <2>3, <2>4, <2>5 DEF OnceFor, Recognised, Working
<1>8. CASE Check(p)
  <2>1. /\ work[p].at = "check" /\ bus' = bus /\ doc' = doc /\ ended' = ended
        /\ unsure' = unsure /\ recorded' = recorded
    BY <1>8 DEF Check, Working, busVars, docVars, eventVars
  <2>2. work'[p].at = IF Duplicate(p) THEN "complete" ELSE "load"
    BY <1>1, <1>8 DEF Check, Goes, Work
  <2>3. p \in sent /\ p \notin bus
    BY <2>1 DEF OnceFor, Working
  <2>4. ASSUME Applied(p)' PROVE Recognised(p)'
    <3>1. doc # None /\ (p \in unsure \/ p \in recorded)
      BY <2>1, <2>4 DEF Applied, OnceFor, Recognised, Working
    <3>2. work'[p].at = "load" => doc.last # p
      BY <2>2, <3>1 DEF Duplicate
    <3>3. QED
      BY <2>1, <2>2, <3>1, <3>2 DEF Recognised
  <2>5. QED
    BY <1>2, <2>1, <2>2, <2>3, <2>4 DEF OnceFor, Working
<1>9. CASE Load(p)
  <2>1. /\ work[p].at = "load" /\ bus' = bus /\ doc' = doc /\ ended' = ended
        /\ unsure' = unsure /\ recorded' = recorded
    BY <1>9 DEF Load, Working, busVars, docVars, eventVars
  <2>2. work'[p].at = "save"
    BY <1>1, <1>9 DEF Load
  <2>3. p \in sent /\ p \notin bus
    BY <2>1 DEF OnceFor, Working
  <2>4. Applied(p)' => Applied(p)
    BY <2>1 DEF Applied
  <2>5. Applied(p) => Recognised(p)'
    BY <2>1, <2>2 DEF OnceFor, Recognised, Working
  <2>6. QED
    BY <1>2, <2>1, <2>2, <2>3, <2>4, <2>5 DEF OnceFor, Working
<1>10. CASE Complete(p)
  <2>1. work[p].at = "complete" /\ bus' = bus
    BY <1>10 DEF Complete, Working, busVars
  <2>2. work'[p].at = "idle"
    BY <1>1, <1>10 DEF Complete, Idle
  <2>3. p \in sent /\ p \notin bus
    BY <2>1 DEF OnceFor, Working
  <2>4. QED
    BY <1>2, <2>1, <2>2, <2>3 DEF OnceFor, Recognised, Working
<1>11. CASE ConsumerCut(p)
  <2>1. /\ work[p].at # "idle" /\ recorded' = recorded
        /\ unsure \subseteq unsure'
    BY <1>11 DEF ConsumerCut, Working
  <2>2. work'[p].at = "idle" /\ p \in sent
    BY <1>1, <1>11, <2>1 DEF ConsumerCut, Idle, OnceFor, Working
  <2>3. Applied(p)' => Applied(p)
    BY <1>11 DEF ConsumerCut, Applied, docVars, eventVars
  <2>4. \/ work[p].at \in {"claim", "push", "record"}
        \/ work[p].at = "complete" /\ p \notin recorded
        => p \in unsure'
    BY <1>11 DEF ConsumerCut, Working
  <2>5. Applied(p) => p \in unsure' \/ p \in recorded
    BY <2>1, <2>4 DEF OnceFor, Recognised, Working
  <2>6. QED
    BY <1>2, <2>1, <2>2, <2>3, <2>5 DEF OnceFor, Recognised, Working
<1>12. QED
  BY <1>4, <1>5, <1>6, <1>7, <1>8, <1>9, <1>10, <1>11 DEF Consumer

LEMMA NextOnceFor ==
    ASSUME Versioned, [Next]_vars, NEW p \in Presses, OnceFor(p)
    PROVE  OnceFor(p)'
<1>1. Typed
  BY DEF Versioned
<1>2. ASSUME UNCHANGED <<bus, sent, work, unsure, recorded>>
      PROVE  OnceFor(p)'
  BY <1>2, OutsideElsewhere, ElsewhereOnce
<1>3. CASE UNCHANGED vars
  BY <1>2, <1>3 DEF vars, busVars, workVars
<1>4. CASE StartSaves \/ HangsUp
  BY <1>2, <1>4 DEF StartSaves, HangsUp, busVars, workVars
<1>5. ASSUME NEW q \in Presses, Consumer(q) \/ ConsumerCut(q)
      PROVE  OnceFor(p)'
  BY <1>1, <1>5, OwnStepOnce, OtherConsumerElsewhere, ElsewhereOnce
<1>6. ASSUME NEW q \in Presses, Press(q)
      PROVE  OnceFor(p)'
  BY <1>2, <1>6 DEF Press, busVars, workVars
<1>7. ASSUME NEW q \in Presses, NEW k \in Tries, Webhook(q, k) \/ Retry(q, k)
      PROVE  OnceFor(p)'
  <2>1. CASE Send(q, k)
    BY <2>1, SendOnce
  <2>2. CASE Arm(q, k) \/ ArmFails(q, k) \/ Pop(q, k) \/ Retry(q, k)
    BY <1>2, <2>2 DEF Arm, ArmFails, Pop, Retry, busVars, workVars
  <2>3. QED
    BY <1>7, <2>1, <2>2 DEF Webhook
<1>8. ASSUME NEW e \in CallEvent, EventConsumer(e) \/ EventCut(e)
      PROVE  OnceFor(p)'
  BY <1>2, <1>8 DEF EventConsumer, ReceiveEvent, FindForEvent, WriteEvent,
                    Archive, Delete, EventCut, busVars, workVars
<1>9. QED
  BY <1>3, <1>4, <1>5, <1>6, <1>7, <1>8 DEF Next

LEMMA NextOnce == Once /\ [Next]_vars => Once'
<1> SUFFICES ASSUME Once, [Next]_vars PROVE Once'
  OBVIOUS
<1>1. Versioned /\ Versioned'
  BY NextVersioned DEF Once
<1>2. \A p \in Presses : OnceFor(p)
  BY DEF Once, OneMessage, AppliedRecognised, OnceFor
<1>3. \A p \in Presses : OnceFor(p)'
  BY <1>1, <1>2, NextOnceFor
<1>4. QED
  BY <1>1, <1>3 DEF Once, OneMessage, AppliedRecognised, OnceFor

(* The save that adds a press finds it recognised, and at "save" that leaves *)
(* the two exceptions only.                                                  *)
LEMMA OnceApplies == Once /\ [Next]_vars => AppliesOnce
<1> SUFFICES ASSUME Once, [Next]_vars, NEW p \in Presses, Applies(p), ~ended,
                    p \in Pressed(doc.keys)
             PROVE  p \in unsure \/ (p \in recorded /\ doc.last # p)
  BY DEF AppliesOnce
<1>1. Versioned /\ doc # None /\ doc' # None
      /\ doc'.keys = Append(doc.keys, p)
  BY DEF Once, Applies
<1>2. doc.keys \in Menu
  BY <1>1 DEF Versioned, Typed, TypeOK, DocOK, Document
<1>3. doc'.keys # doc.keys
  BY <1>1, <1>2, AppendInjective
<1>4. ~SameDocument
  BY <1>1, <1>3 DEF SameDocument
<1>5. ~StartSaves /\ ~\E e \in CallEvent : Delete(e)
  BY <1>1 DEF StartSaves, Delete, Versioned, Fresh
<1>6. ~\E q \in Presses : Load(q)
  BY <1>3 DEF Load, docVars
<1>7. PICK q \in Presses : Save(q)
  BY <1>1, <1>4, <1>5, <1>6, StepCases DEF Versioned, Quiet
<1>8. doc'.keys = Append(doc.keys, q)
  BY <1>1, <1>3, <1>7, SaveVersioned DEF Applies
<1>9. Save(p)
  BY <1>1, <1>2, <1>7, <1>8, AppendInjective
<1>10. Recognised(p)
  BY <1>1 DEF Once, AppliedRecognised, Applied
<1>11. QED
  BY <1>9, <1>10 DEF Save, Recognised, Working

(***************************************************************************)
(* However often the bus delivers a message, and wherever its consumer was *)
(* cut, dtmf_consumer advances the menu once for it, but for the two       *)
(* exceptions that AppliedOnce states.                                     *)
(***************************************************************************)
THEOREM PressesAppliedOnce == Spec => AppliedOnce
<1>1. Init => Once
  BY InitOnce
<1>2. Once /\ [Next]_vars => Once'
  BY NextOnce
<1>3. Once /\ [Next]_vars => AppliesOnce
  BY OnceApplies
<1>4. Once /\ [Next]_vars => [AppliesOnce]_vars
  BY <1>3
<1>5. QED
  BY <1>1, <1>2, <1>4, PTL DEF Spec, AppliedOnce
=============================================================================
