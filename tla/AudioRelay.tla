----------------------------- MODULE AudioRelay -----------------------------
(***************************************************************************)
(* What the platform does with the audio a conference sends it: a task per *)
(* start of the conference consumes a queue, writes a recording, has       *)
(* segments transcribed and looks for the words of a telephone on hold.    *)
(* Transcriber says how segments are cut; here a chunk may complete one.   *)
(***************************************************************************)
EXTENDS Missing, Naturals, Sequences

CONSTANTS
    Chunks,         \* [segment: none, talk or hold]: what completes with a chunk
    Analysis,       \* audio_analysis_enabled: of what to choose at the start
    MaxQueue,       \* audio_relay_max_queue
    Window,         \* TRANSCRIPT_WINDOW_SIZE
    MaxUploads,     \* upload_max_retries
    MaxChunks, MaxStarts, MaxRelayFaults    \* bounds

Texts == {"talk", "hold"}

ASSUME RelayAssumption ==
    /\ None \notin Nat /\ None \notin Seq(Chunks)
    /\ Chunks \subseteq [segment : Texts \cup {None}]
    /\ Analysis \subseteq BOOLEAN /\ Window \in Nat \ {0}

VARIABLES
    dialling,       \* starts whose calls are being made
    looping,        \* the event loop runs
    sunk,           \* the conference was deleted
    analysis,
    task,           \* none, new, loading, waiting, transcribing, detecting
    inHand,         \* the text the task works on
    detector,       \* transcriber and hold_detector are there
    relayed,        \* _remote_audio_queue, or None
    session,        \* _capture_session: a recording, or None
    recordings,     \* [chunks, file], in their order; file: open, closed, stored
    upload,         \* _capture_finalize_task: [of, attempt], or None
    texts,          \* _hold_transcript_window
    held,           \* state.hold_detected
    chunks, starts, relayFaults,
    onHold,         \* the starts in which a text spoke of being on hold
    relayDoubt           \* why a recording may stay open, or the flag be wrong

conferenceVars == <<dialling, looping, sunk, analysis>>
taskVars == <<task, inHand, detector, relayed>>
captureVars == <<session, recordings, upload>>
holdVars == <<texts, held, onHold>>
countVars == <<chunks, starts, relayFaults>>
relayVars == <<conferenceVars, taskVars, captureVars, holdVars, countVars, relayDoubt>>

RelayFault == relayFaults < MaxRelayFaults /\ relayFaults' = relayFaults + 1
RelayDoubt(condition, why) == relayDoubt' = IF condition THEN relayDoubt \union {why} ELSE relayDoubt

NewRecording == [chunks |-> 0, file |-> "open"]

----------------------------------------------------------------------------
(* The conference                                                          *)

\* start_conference_call: another start takes the place of the task.
StartRelay ==
    /\ ~ sunk /\ starts < MaxStarts /\ starts' = starts + 1
    /\ dialling' = dialling + 1 /\ looping' = TRUE
    /\ task' = "new" /\ relayed' = <<>> /\ inHand' = None /\ detector' = FALSE
    /\ UNCHANGED <<sunk, analysis, captureVars, holdVars, chunks, relayFaults, relayDoubt>>

\* The calls are made, and the flag is reset only then.
StartDone ==
    /\ dialling > 0 /\ dialling' = dialling - 1
    /\ held' = FALSE
    /\ RelayDoubt(starts \in onHold, "reset")
    /\ UNCHANGED <<looping, sunk, analysis, taskVars, captureVars, texts, onHold, countVars>>

\* stop_remote_audio_relay
StopRelay == task' = "none" /\ relayed' = None /\ inHand' = None /\ detector' = FALSE

\* A start that fails stops the task and the loop, and leaves the recording to
\* the next start.
StartFails ==
    /\ dialling > 0 /\ dialling' = dialling - 1 /\ RelayFault
    /\ looping' = FALSE /\ StopRelay
    /\ RelayDoubt(held, "earlier")
    /\ UNCHANGED <<sunk, analysis, captureVars, holdVars, chunks, starts>>

FinalizeKeeps ==  \* mutant: the task goes on writing what is uploaded
    IF upload # None \/ session = None
    THEN /\ UNCHANGED <<session, recordings, upload>>
         /\ RelayDoubt(session # None, "left_open")
    ELSE /\ recordings' = [recordings EXCEPT ![session].file = "closed"]
         /\ upload' = [of |-> session, attempt |-> 1]
         /\ UNCHANGED <<session, relayDoubt>>

\* schedule_capture_finalize: while an earlier upload goes on, nothing begins.
Finalize ==
    IF upload # None \/ session = None
    THEN /\ UNCHANGED <<session, recordings, upload>>
         /\ RelayDoubt(session # None, "left_open")
    ELSE LET some == recordings[session].chunks > 0
         IN  /\ session' = None
             /\ recordings' = [recordings EXCEPT ![session].file =
                                 IF some THEN "closed" ELSE "removed"]
             /\ upload' = IF some THEN [of |-> session, attempt |-> 1] ELSE None
             /\ UNCHANGED relayDoubt

\* The event that ends the conference.
End ==
    /\ looping /\ StopRelay /\ Finalize
    /\ UNCHANGED <<conferenceVars, holdVars, countVars>>

\* The event that sinks it, for which the loop is started when it is not.
Sink ==
    /\ ~ sunk /\ sunk' = TRUE /\ looping' = FALSE
    /\ StopRelay /\ Finalize
    /\ UNCHANGED <<dialling, analysis, holdVars, countVars>>

----------------------------------------------------------------------------
(* _consume_remote_audio                                                   *)

\* The recording is opened, unless one is still there.
BeginTask ==
    /\ task = "new"
    /\ \/ /\ session = None /\ RelayFault
          /\ UNCHANGED <<session, recordings>>
       \/ /\ session = None /\ session' = Len(recordings) + 1
          /\ recordings' = Append(recordings, NewRecording)
          /\ UNCHANGED relayFaults
       \/ /\ session # None
          /\ UNCHANGED <<session, recordings, relayFaults>>
    /\ IF analysis \/ session' # None
       THEN task' = (IF analysis THEN "loading" ELSE "waiting") /\ UNCHANGED relayed
       ELSE task' = "none" /\ relayed' = None
    /\ UNCHANGED <<conferenceVars, inHand, detector, upload, holdVars, chunks, starts, relayDoubt>>

\* The embeddings are there, or the detector fails to initialise.
Load ==
    /\ task = "loading"
    /\ \/ detector' = TRUE /\ UNCHANGED relayFaults
       \/ detector' = FALSE /\ RelayFault
    /\ IF detector' \/ session # None
       THEN task' = "waiting" /\ UNCHANGED relayed
       ELSE task' = "none" /\ relayed' = None
    /\ UNCHANGED <<conferenceVars, inHand, captureVars, holdVars, chunks, starts, relayDoubt>>

\* write_chunk, while there is a recording.
WriteChunk ==
    recordings' = IF session = None THEN recordings
                  ELSE [recordings EXCEPT ![session].chunks = @ + 1]

Consume ==
    /\ task = "waiting" /\ relayed # <<>>
    /\ relayed' = Tail(relayed)
    /\ WriteChunk
    /\ IF detector /\ Head(relayed).segment # None
       THEN task' = "transcribing" /\ inHand' = Head(relayed).segment
       ELSE UNCHANGED <<task, inHand>>
    /\ UNCHANGED <<conferenceVars, detector, session, upload, holdVars, countVars, relayDoubt>>

\* The text is remembered, or there is none.
Transcribe ==
    /\ task = "transcribing"
    /\ \/ /\ task' = "detecting"
          /\ texts' = IF Len(texts) < Window THEN Append(texts, [text |-> inHand, of |-> starts])
                      ELSE Append(Tail(texts), [text |-> inHand, of |-> starts])
          /\ onHold' = IF inHand = "hold" THEN onHold \union {starts} ELSE onHold
          /\ UNCHANGED <<inHand, relayFaults>>
       \/ /\ task' = "waiting" /\ inHand' = None /\ RelayFault
          /\ UNCHANGED <<texts, onHold>>
    /\ UNCHANGED <<conferenceVars, detector, relayed, captureVars, held, chunks, starts, relayDoubt>>

\* The words may come from any text of the window.
HoldTexts == {i \in DOMAIN texts : texts[i].text = "hold"}

Detect ==
    /\ task = "detecting" /\ task' = "waiting" /\ inHand' = None
    /\ held' = (held \/ HoldTexts # {})
    /\ RelayDoubt(HoldTexts # {} /\ \A i \in HoldTexts : texts[i].of # starts, "earlier")
    /\ UNCHANGED <<conferenceVars, detector, relayed, captureVars, texts, onHold, countVars>>

----------------------------------------------------------------------------
(* Around it                                                               *)

\* The control channel delivers a chunk; a full queue drops it.
Deliver(c) ==
    /\ relayed # None /\ chunks < MaxChunks /\ chunks' = chunks + 1
    /\ relayed' = IF Len(relayed) < MaxQueue THEN Append(relayed, c) ELSE relayed
    /\ UNCHANGED <<conferenceVars, task, inHand, detector, captureVars, holdVars, starts, relayFaults,
                   relayDoubt>>

\* _upload_to_azure: what is not stored stays a local file.
Upload ==
    /\ upload # None
    /\ \/ /\ upload' = None
          /\ recordings' = [recordings EXCEPT ![upload.of].file = "stored"]
          /\ UNCHANGED relayFaults
       \/ /\ RelayFault /\ UNCHANGED recordings
          /\ upload' = IF upload.attempt < MaxUploads
                       THEN [upload EXCEPT !.attempt = @ + 1] ELSE None
    /\ UNCHANGED <<conferenceVars, taskVars, session, holdVars, chunks, starts, relayDoubt>>

RelayInit ==
    /\ dialling = 0 /\ looping = FALSE /\ sunk = FALSE /\ analysis \in Analysis
    /\ task = "none" /\ inHand = None /\ detector = FALSE /\ relayed = None
    /\ session = None /\ recordings = <<>> /\ upload = None
    /\ texts = <<>> /\ held = FALSE
    /\ onHold = {} /\ chunks = 0 /\ starts = 0 /\ relayFaults = 0 /\ relayDoubt = {}

RelayNext ==
    \/ StartRelay \/ StartDone \/ StartFails \/ End \/ Sink
    \/ BeginTask \/ Load \/ Consume \/ Transcribe \/ Detect
    \/ (\E c \in Chunks : Deliver(c))
    \/ Upload

RelaySpec == RelayInit /\ [][RelayNext]_relayVars

----------------------------------------------------------------------------
(* Properties                                                              *)

RelayTypeOK ==
    /\ task # "none" => relayed # None
    /\ session \in DOMAIN recordings \union {None}
    /\ \A i \in DOMAIN recordings : recordings[i].file \in {"open", "closed", "removed", "stored"}

\* No recording is open that a later end would not close, and what is closed
\* was heard; two uploads never share a recording.
RecordingsClosed ==
    /\ \A i \in DOMAIN recordings :
         /\ (recordings[i].file = "open") = (session = i)
         /\ recordings[i].file \in {"closed", "stored"} => recordings[i].chunks > 0
    /\ upload # None => recordings[upload.of].file = "closed" /\ session # upload.of

\* Once it is sunk, nothing of a conference is left: no task that listens and
\* no open recording, unless its predecessor was still being uploaded.
SunkIsSilent ==
    sunk =>
        /\ task = "none" /\ relayed = None
        /\ "left_open" \notin relayDoubt => session = None

\* The flag says that these calls are on hold exactly if a text said so, once
\* they are made; unless it said so while they were being made, or the words
\* are those of calls before, which a start that fails leaves as they were.
HeldIsHeard ==
    dialling = 0 /\ starts > 0 /\ task # "detecting" =>
        /\ held => starts \in onHold \/ "earlier" \in relayDoubt
        /\ starts \in onHold => held \/ "reset" \in relayDoubt \/ task = "none"

RelayConsistent == RelayTypeOK /\ RecordingsClosed /\ SunkIsSilent /\ HeldIsHeard
=============================================================================
