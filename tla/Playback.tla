------------------------------ MODULE Playback ------------------------------
(***************************************************************************)
(* What a conference plays to its participants, in three processes: the    *)
(* event loop of the conference, which the teacher's application and the   *)
(* leader's keys command; the websocket-service, which streams a recording *)
(* into the audio leg of the conference and reports what it does; and the  *)
(* control channel between them, which may break and comes back.           *)
(*                                                                         *)
(* Two branches of the code no run of it takes are left out: a system      *)
(* message is sent by its file name, which the service cannot read as a    *)
(* URL, so none ever holds the channel; and the service asks for a new leg *)
(* with "RECONNECT", which the platform, that knows "reconnect", ignores.  *)
(***************************************************************************)
EXTENDS Missing, Naturals, Sequences, FiniteSets, Bags

CONSTANTS
    Urls,                       \* recordings
    Slowest, Normal, Fastest,   \* speeds, in steps of a key
    PlayAsks,                   \* what the teacher, leader and provider may do
    PlayStarted,                \* ... and have done when the model begins
    MaxPlayAsks,                \* bound: of these, of broken lines and lost downloads
    MaxPlayInbox,               \* bound: of these, waiting at one time
    MaxLegs                     \* bound: audio legs the provider is told to open

(* What is asked of the conference; what a leg is to play. *)
Happenings ==
    [type : {"play"}, value : Urls]
        \cup [type : {"key"}, value : {"6", "7", "9", "*", "#"}]
        \cup [type : {"pause", "resume", "seek", "system", "disconnect", "transfer"},
              value : {None}]
LegContents ==
    [url : Urls, data : Urls \cup {None}, playing : BOOLEAN, speed : Slowest .. Fastest]

ASSUME PlaybackAssumption ==
    /\ Slowest \in Nat /\ Fastest \in Nat /\ Normal \in Slowest .. Fastest
    /\ None \notin Urls /\ None \notin LegContents
    /\ PlayAsks \subseteq Happenings /\ PlayStarted \subseteq Seq(Happenings)

AudioEvent(type, value) == [type |-> type, value |-> value]
Commands == {"play", "pause", "resume", "seek", "speed", "system", "disconnect"}

VARIABLES
    shown,          \* state.audio_content_state: [status, url, speed]
    playInbox,          \* event_queue
    sending,        \* the command whose send waits for the channel, or None
    attached,       \* communication_api.is_websocket_connected
    ordered,        \* legs the provider has still to open
    link,           \* the channel as the platform sees it; "cut" is unnoticed
    control,        \* the service holds a control connection
    toService, toPlatform,
    legs,           \* audio legs, in the order in which they were opened
    here,           \* the one the service has registered, or 0
    loads,          \* downloads under way: [leg, url, play]
    loops           \* streams: a bag of [leg, url, play]

(* Bounds, and the ways in which what is shown may differ from what is heard. *)
VARIABLES playAsks, playDoubt

platformVars == <<shown, playInbox, sending, attached, ordered>>
lineVars == <<link, control, toService, toPlatform>>
serviceVars == <<legs, here, loads, loops>>
playbackVars == <<platformVars, lineVars, serviceVars, playAsks, playDoubt>>

AudioContentState ==
    [status : {"Starting", "Playing", "Paused", "Stopped"},
     url : Urls \union {None}, speed : Slowest .. Fastest]

----------------------------------------------------------------------------
(* The control channel                                                     *)

\* initialize: the channel is connected before the platform serves requests.
Initialized ==
    /\ link = "up" /\ control = TRUE
    /\ toService = <<>> /\ toPlatform = <<>>

PlayDoubt(why) == playDoubt' = playDoubt \union why
When(condition, why) == IF condition THEN {why} ELSE {}
PlayFault == playAsks < MaxPlayAsks /\ playAsks' = playAsks + 1

Break ==
    /\ link = "up" /\ PlayFault /\ link' = "cut"
    /\ toService' = <<>> /\ toPlatform' = <<>>
    /\ PlayDoubt(When(toService # <<>>, "unsent") \union When(toPlatform # <<>>, "unheard"))
    /\ UNCHANGED <<platformVars, control, serviceVars>>

\* The close event of the control connection.
Forget ==
    /\ link # "up" /\ control /\ control' = FALSE
    /\ UNCHANGED <<platformVars, link, toService, toPlatform, serviceVars, playAsks, playDoubt>>

\* The listener, or the heartbeat, finds out.
Notice ==
    /\ link = "cut" /\ link' = "down"
    /\ UNCHANGED <<platformVars, control, toService, toPlatform, serviceVars, playAsks, playDoubt>>

HandleControlConnection == control' = TRUE

Connect ==
    /\ link = "down" /\ link' = "up" /\ HandleControlConnection
    /\ UNCHANGED <<platformVars, toService, toPlatform, serviceVars, playAsks, playDoubt>>

----------------------------------------------------------------------------
(* The conference                                                          *)

AskPlayback(e) ==
    /\ playAsks < MaxPlayAsks /\ Len(playInbox) < MaxPlayInbox
    /\ playAsks' = playAsks + 1
    /\ playInbox' = Append(playInbox, e)
    /\ UNCHANGED <<shown, sending, attached, ordered, lineVars, serviceVars, playDoubt>>

Active == {"Playing", "Starting", "Paused"}

\* What a key of the leader does, by what is shown when it is handled.
Meaning(key) ==
    IF shown.status \notin Active THEN AudioEvent("nothing", None)
    ELSE CASE key = "6" -> AudioEvent(IF shown.status = "Paused" THEN "resume" ELSE "pause", None)
           [] key \in {"7", "9"} -> AudioEvent("seek", None)
           [] key = "*" -> AudioEvent("speed", IF shown.speed = Slowest THEN Slowest ELSE shown.speed - 1)
           [] key = "#" -> AudioEvent("speed", IF shown.speed = Fastest THEN Fastest ELSE shown.speed + 1)

\* Before and after the send.
Begun(e) ==
    CASE e.type = "play" -> [shown EXCEPT !.status = "Starting", !.url = e.value]
      [] e.type = "resume" -> [shown EXCEPT !.status = "Starting"]
      [] OTHER -> shown
Done(e) ==
    IF e.type = "speed" THEN [shown EXCEPT !.speed = e.value] ELSE Begun(e)

Promises(e) == e.type \in {"play", "resume"}

\* send_message: a broken line takes the frame, or the send fails and waits
\* for a new line, only to raise then; without a line it raises at once.
Send(e) ==
    \/ /\ link = "up" /\ shown' = Done(e)
       /\ toService' = Append(toService, e)
       /\ UNCHANGED <<sending, link, playDoubt>>
    \/ /\ link = "cut" /\ shown' = Done(e)
       /\ PlayDoubt(When(Done(e) # shown \/ Promises(e), "unsent"))
       /\ UNCHANGED <<sending, link, toService>>
    \/ /\ link # "up" /\ shown' = Begun(e)
       /\ sending' = IF link = "cut" THEN e ELSE None
       /\ link' = "down"
       /\ PlayDoubt(When(Promises(e), "unsent"))
       /\ UNCHANGED toService

\* The send is over: the new line is there, or wait_for cancels the handler.
GiveUp ==
    /\ sending # None /\ sending' = None
    /\ UNCHANGED <<shown, playInbox, attached, ordered, lineVars, serviceVars, playAsks, playDoubt>>

\* Commands of the teacher and the leader.
ContentCommand(e) ==
    /\ e.type \in Commands \ {"system", "disconnect"}
    /\ Send(e) /\ UNCHANGED <<attached, ordered>>

StreamSystemMessage(e) ==
    /\ e.type = "system" /\ attached
    /\ Send(e) /\ UNCHANGED <<attached, ordered>>

\* The end of the conference, as far as it is heard.
EndConference(e) ==
    /\ e.type = "disconnect" /\ attached' = FALSE
    /\ Send(e) /\ UNCHANGED ordered

PlaybackStateUpdate(e) ==
    /\ e.type = "report"
    /\ shown' = [shown EXCEPT !.status = e.value.status, !.speed = e.value.speed]
    /\ UNCHANGED <<sending, attached, ordered, link, toService, playDoubt>>

Disregard(e) ==
    /\ \/ e.type = "nothing"
       \/ e.type = "system" /\ ~ attached
       \/ e.type = "transfer" /\ attached
    /\ UNCHANGED <<shown, sending, attached, ordered, link, toService, playDoubt>>

\* The provider is told to open a leg.
OrderLeg == Len(legs) + ordered < MaxLegs /\ ordered' = ordered + 1

\* handle_call_transfer_event orders one for the first of these events.  The limit
\* of the event loop may cut the handler after that and before it is noted.
Attach(e) ==
    /\ e.type = "transfer" /\ ~ attached
    /\ attached' \in BOOLEAN
    /\ \/ ~ attached' /\ UNCHANGED ordered
       \/ OrderLeg
    /\ UNCHANGED <<shown, sending, link, toService, playDoubt>>

\* One event of the queue.
ProcessAudio ==
    /\ sending = None /\ playInbox # <<>>
    /\ playInbox' = Tail(playInbox)
    /\ LET first == Head(playInbox)
           e == IF first.type = "key" THEN Meaning(first.value) ELSE first
       IN  \/ ContentCommand(e) \/ StreamSystemMessage(e) \/ EndConference(e)
           \/ PlaybackStateUpdate(e) \/ Attach(e) \/ Disregard(e)
    /\ UNCHANGED <<control, toPlatform, serviceVars, playAsks>>

\* _dispatch_message queues a report for the conference.
Receive ==
    /\ toPlatform # <<>> /\ toPlatform' = Tail(toPlatform)
    /\ playInbox' = Append(playInbox, AudioEvent("report", Head(toPlatform)))
    /\ UNCHANGED <<shown, sending, attached, ordered, link, control, toService,
                   serviceVars, playAsks, playDoubt>>

----------------------------------------------------------------------------
(* The websocket-service                                                   *)

NewLeg == [open |-> TRUE, ours |-> FALSE, channel |-> FALSE, content |-> None, play |-> 0]
Leg == legs[here]
Loaded(leg) == leg.content # None /\ leg.content.data # None

\* A stream goes on while nothing has taken its place.
Alive(l) ==
    /\ legs[l.leg].open /\ legs[l.leg].channel
    /\ legs[l.leg].play = l.play /\ legs[l.leg].content.playing

\* sendPlaybackStatus: it reads the registered leg, whichever it is told of.
Report(status, why) ==
    /\ toPlatform' = IF link # "up" THEN toPlatform
         ELSE Append(toPlatform,
                [status |-> status,
                 speed |-> IF here = 0 \/ legs'[here].content = None THEN Normal
                           ELSE legs'[here].content.speed])
    /\ PlayDoubt(why \union When(link # "up", "unheard"))
    /\ UNCHANGED <<platformVars, link, control>>

RestartSameStream(leg) ==  \* mutant: the stream that was there goes on
    /\ legs' = [legs EXCEPT ![here] = [leg EXCEPT !.channel = TRUE, !.content.playing = TRUE]]
    /\ loops' = loops (+) SetToBag({[leg |-> here, url |-> leg.content.data,
                                     play |-> leg.play]})
    /\ Report("Playing", When(~ leg.open, "leg_gone"))

\* A new playbackId, so that every earlier stream of the leg stops.
RestartStream(leg) ==
    /\ legs' = [legs EXCEPT ![here] =
                  [leg EXCEPT !.play = @ + 1, !.channel = TRUE, !.content.playing = TRUE]]
    /\ loops' = loops (+) SetToBag({[leg |-> here, url |-> leg.content.data,
                                     play |-> leg.play + 1]})
    /\ Report("Playing", When(~ leg.open, "leg_gone"))

\* The command fails: there is no leg, none that is open, or nothing loaded.
Refuse(c) ==
    /\ PlayDoubt(When(Promises(c) \/ c.type = "speed", "refused"))
    /\ UNCHANGED <<platformVars, link, control, toPlatform, serviceVars>>

Play(c) ==
    /\ legs' = [legs EXCEPT ![here].play = @ + 1, ![here].content =
                  [url |-> c.value, data |-> None, playing |-> TRUE, speed |-> Normal]]
    /\ loads' = loads \union {[leg |-> here, url |-> c.value, play |-> Leg.play + 1]}
    /\ PlayDoubt(When(\E l \in loads : l.leg = here, "overlap"))
    /\ UNCHANGED <<platformVars, link, control, toPlatform, here, loops>>

\* A pause, or a system message, which fails as soon as it has the channel.
StopStream(c) ==
    LET playing == Leg.channel /\ Leg.content.playing
        quiet == [legs EXCEPT ![here].channel = IF c.type = "system" THEN FALSE ELSE @]
    IN  /\ UNCHANGED <<here, loads, loops>>
        /\ IF playing
           THEN /\ legs' = [quiet EXCEPT ![here].content.playing = FALSE]
                /\ Report("Paused", When(loads # {}, "paused"))
           ELSE /\ legs' = quiet
                /\ UNCHANGED <<platformVars, link, control, toPlatform, playDoubt>>

SetSpeed(c) ==
    LET leg == [Leg EXCEPT !.content.speed = c.value]
    IN  /\ UNCHANGED <<here, loads>>
        /\ IF leg.channel /\ leg.content.playing
           THEN RestartStream(leg)
           ELSE /\ legs' = [legs EXCEPT ![here] = leg]
                /\ Report(IF leg.content.playing THEN "Playing" ELSE "Paused", {})
                /\ UNCHANGED loops

Disconnect ==
    /\ legs' = [legs EXCEPT ![here].open = FALSE, ![here].ours = TRUE]
    /\ Report("Stopped", When(loads # {}, "leg_gone"))
    /\ UNCHANGED <<here, loads, loops>>

\* handleControlMessage: one message of the platform.
Handle ==
    /\ toService # <<>> /\ toService' = Tail(toService)
    /\ LET c == Head(toService)
           opened == here # 0 /\ Leg.open
           ready == here # 0 /\ Loaded(Leg)
       IN  CASE c.type = "play" -> IF opened THEN Play(c) ELSE Refuse(c)
             [] c.type = "system" -> IF opened THEN StopStream(c) ELSE Refuse(c)
             [] c.type = "pause" -> IF here # 0 THEN StopStream(c) ELSE Refuse(c)
             [] c.type \in {"resume", "seek"} ->
                  IF ready THEN RestartStream(Leg) /\ UNCHANGED <<here, loads>> ELSE Refuse(c)
             [] c.type = "speed" -> IF ready THEN SetSpeed(c) ELSE Refuse(c)
             [] c.type = "disconnect" -> IF here # 0 THEN Disconnect ELSE Refuse(c)
    /\ UNCHANGED playAsks

\* The rest of playAudioContent, after the download.  It writes to whatever
\* the leg is to play by now.
Downloaded(l) ==
    /\ loads' = loads \ {l}
    /\ legs' = [legs EXCEPT ![l.leg].channel = TRUE, ![l.leg].content.data = l.url]
    /\ loops' = loops (+) SetToBag({l})
    /\ Report("Playing", When(l.leg # here \/ ~ legs[l.leg].open, "leg_gone"))
    /\ UNCHANGED <<here, toService, playAsks>>

DownloadFails(l) ==
    /\ PlayFault
    /\ loads' = loads \ {l}
    /\ PlayDoubt({"unloaded"})
    /\ UNCHANGED <<platformVars, lineVars, legs, here, loops>>

\* sendNextChunk: it reports now and then, and it ends.  Bound: it reports
\* while no other report is under way.
StreamReports(l) ==
    /\ Alive(l) /\ toPlatform = <<>> /\ playInbox = <<>>
    /\ UNCHANGED <<toService, serviceVars, playAsks>>
    /\ Report("Playing", {})

StreamEnds(l) ==
    /\ loops' = loops (-) SetToBag({l})
    /\ IF Alive(l)
       THEN /\ legs' = [legs EXCEPT ![l.leg].channel = FALSE, ![l.leg].content.playing = FALSE]
            /\ Report("Stopped", {})
       ELSE UNCHANGED <<platformVars, link, control, toPlatform, legs, playDoubt>>
    /\ UNCHANGED <<here, loads, toService, playAsks>>

\* The send of a chunk fails, which closes the leg.
StreamBreaks(l) ==
    /\ Alive(l) /\ PlayFault
    /\ loops' = loops (-) SetToBag({l})
    /\ legs' = [legs EXCEPT ![l.leg].open = FALSE]
    /\ Report("Stopped", When(loads # {}, "leg_gone"))
    /\ UNCHANGED <<here, loads, toService>>

Stream == \E l \in BagToSet(loops) : StreamReports(l) \/ StreamEnds(l) \/ StreamBreaks(l)

----------------------------------------------------------------------------
(* Audio legs                                                              *)

\* connections[conf_id]: one leg for each conference.
RegisterLeg(leg) == legs' = Append(legs, leg) /\ here' = Len(legs')

\* A leg of the same conference takes the place of the one before it, which
\* stays open.
OpenLeg ==
    /\ ordered > 0 /\ ordered' = ordered - 1
    /\ RegisterLeg(NewLeg)
    /\ PlayDoubt(When(here # 0, "two_legs"))
    /\ UNCHANGED <<shown, playInbox, sending, attached, lineVars, loads, loops, playAsks>>

\* Vonage hangs up, or the leg is an hour old.
Drop(i) ==
    /\ legs[i].open /\ PlayFault
    /\ legs' = [legs EXCEPT ![i].open = FALSE]
    /\ PlayDoubt(When(legs[i].content # None, "leg_gone"))
    /\ UNCHANGED <<platformVars, lineVars, here, loads, loops>>

\* The close event.  Without a control connection the message to it raises
\* where nothing catches, and the process ends with every leg.
LegCloses ==
    /\ here # 0 /\ ~ Leg.open /\ here' = 0
    /\ IF Leg.ours \/ control
       THEN UNCHANGED <<legs, loads, loops, playDoubt>>
       ELSE /\ legs' = [i \in DOMAIN legs |-> [legs[i] EXCEPT !.open = FALSE]]
            /\ loads' = {} /\ loops' = EmptyBag
            /\ PlayDoubt({"leg_gone"})
    /\ UNCHANGED <<platformVars, lineVars, playAsks>>

----------------------------------------------------------------------------

PlaybackInit ==
    /\ shown = [status |-> "Stopped", url |-> None, speed |-> Normal]
    /\ playInbox \in PlayStarted /\ sending = None
    /\ attached = FALSE /\ ordered = 0
    /\ Initialized
    /\ legs = <<>> /\ here = 0 /\ loads = {} /\ loops = EmptyBag
    /\ playAsks = 0 /\ playDoubt = {}

PlaybackNext ==
    \/ Break \/ Forget \/ Notice \/ Connect
    \/ (\E e \in PlayAsks : AskPlayback(e))
    \/ ProcessAudio \/ GiveUp \/ Receive
    \/ Handle
    \/ (\E l \in loads : Downloaded(l) \/ DownloadFails(l))
    \/ Stream
    \/ OpenLeg \/ LegCloses \/ (\E i \in DOMAIN legs : Drop(i))

PlaybackSpec == PlaybackInit /\ [][PlaybackNext]_playbackVars

----------------------------------------------------------------------------
(* Properties                                                              *)

LiveStreams == {l \in BagToSet(loops) : Alive(l)}

PlaybackTypeOK ==
    /\ shown \in AudioContentState
    /\ sending = None \/ sending.type \in Commands
    /\ attached \in BOOLEAN /\ ordered \in Nat
    /\ link \in {"up", "cut", "down"} /\ control \in BOOLEAN
    /\ here \in 0 .. Len(legs)
    /\ \A l \in loads \union BagToSet(loops) : l.leg \in DOMAIN legs
    /\ link = "up" => control

\* playbackId: a leg never carries two streams at once, however play, pause,
\* resume, seek and speed follow each other while chunks are under way and
\* downloads end; and a conference carries one unless two legs were opened.
OneStream ==
    /\ \A l \in LiveStreams : loops[l] = 1
    /\ \A l, m \in LiveStreams : l = m \/ l.leg # m.leg
    /\ "two_legs" \notin playDoubt => Cardinality(LiveStreams) <= 1

\* What should be playing is being sent.
NoDeadAir ==
    \A i \in DOMAIN legs :
        legs[i].open /\ legs[i].channel /\ Loaded(legs[i]) /\ legs[i].content.playing
            /\ loads = {} /\ playDoubt \intersect {"overlap", "unloaded"} = {}
        => \E l \in LiveStreams : l.leg = i

Settled ==
    /\ playInbox = <<>> /\ sending = None /\ toService = <<>> /\ toPlatform = <<>>
    /\ loads = {}

\* Once everything is handled, the teacher's application shows what the
\* participants hear, unless a command or report was lost or refused, a
\* download failed, was paused or overlapped another, or a leg went away.
ShownIsHeard ==
    Settled /\ playDoubt = {} =>
        /\ shown.status # "Starting"
        /\ (shown.status = "Playing") = (LiveStreams # {})
        /\ \A l \in LiveStreams : l.url = shown.url
        /\ here # 0 /\ Leg.content # None => Leg.content.speed = shown.speed

PlaybackConsistent == PlaybackTypeOK /\ OneStream /\ NoDeadAir /\ ShownIsHeard
=============================================================================
