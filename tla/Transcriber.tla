----------------------------- MODULE Transcriber -----------------------------
(***************************************************************************)
(* How the audio of a conference is cut into the segments that are sent to *)
(* be transcribed.  A frame is known by its number and by whether the      *)
(* detector finds a voice in it; chunks, which only arrive in other sizes, *)
(* are frames.                                                             *)
(***************************************************************************)
EXTENDS Naturals, Sequences, FiniteSets

CONSTANTS
    StartFrames,    \* voiced frames in a row that begin a segment
    PreFrames,      \* frames kept before it
    MinSpeech,      \* voiced frames below which a segment is dropped
    EndSilence,     \* silent frames in a row that end it
    MaxSegment,     \* frames after which it ends anyway
    Overlap,        \* frames of a segment that begin the next one
    MaxFrames       \* bound: frames that arrive

\* The frames kept before a segment hold those that begin it, a segment ends
\* later than it begins, and its end is longer than the overlap.
ASSUME SegmentsAssumption ==
    /\ {StartFrames, PreFrames, MinSpeech, EndSilence, MaxSegment, Overlap, MaxFrames}
         \subseteq Nat
    /\ 0 < StartFrames /\ StartFrames <= PreFrames /\ 0 < EndSilence
    /\ Overlap + PreFrames < MaxSegment /\ 2 * Overlap <= MaxSegment
    /\ Overlap <= StartFrames + EndSilence

VARIABLES
    voiced,         \* for each frame that arrived, whether it is
    pre,            \* pre_speech_buffer
    segment, active,
    tail,           \* prev_tail_overlap
    streak, speech, silence,
    emitted, dropped

segmentVars == <<voiced, pre, segment, active, tail, streak, speech, silence,
                 emitted, dropped>>

Smaller(a, b) == IF a < b THEN a ELSE b
LastFramesShort(s, n) ==  \* mutant: one frame less
    SubSeq(s, Len(s) - Smaller(n, Len(s)) + 2, Len(s))
LastFrames(s, n) == SubSeq(s, Len(s) - Smaller(n, Len(s)) + 1, Len(s))

\* Before a segment, until enough voiced frames in a row begin one.
Wait(n, isVoiced) ==
    LET kept == LastFrames(Append(pre, n), PreFrames)
        row == IF isVoiced THEN streak + 1 ELSE 0
    IN  /\ ~ active /\ streak' = row
        /\ active' = (row >= StartFrames)
        /\ IF active'
           THEN pre' = <<>> /\ segment' = tail \o kept /\ speech' = row /\ silence' = 0
           ELSE pre' = kept /\ UNCHANGED <<segment, speech, silence>>
        /\ UNCHANGED <<tail, emitted, dropped>>

\* The segment is sent to be transcribed, or dropped for want of speech.
TranscribeSegment(frames, spoken) ==
    IF spoken < MinSpeech
    THEN dropped' = Append(dropped, frames) /\ UNCHANGED emitted
    ELSE emitted' = Append(emitted, frames) /\ UNCHANGED dropped

\* Within a segment, until silence or its length ends it.
Extend(n, isVoiced) ==
    LET grown == Append(segment, n)
        spoken == IF isVoiced THEN speech + 1 ELSE speech
        quiet == IF isVoiced THEN 0 ELSE silence + 1
    IN  /\ active /\ UNCHANGED pre
        /\ IF quiet >= EndSilence \/ Len(grown) >= MaxSegment
           THEN /\ tail' = LastFrames(grown, Overlap)
                /\ active' = FALSE /\ segment' = <<>>
                /\ streak' = 0 /\ speech' = 0 /\ silence' = 0
                /\ TranscribeSegment(grown, spoken)
           ELSE /\ segment' = grown /\ speech' = spoken /\ silence' = quiet
                /\ UNCHANGED <<active, tail, streak, emitted, dropped>>

\* _consume_frame
ConsumeFrame(isVoiced) ==
    /\ Len(voiced) < MaxFrames
    /\ voiced' = Append(voiced, isVoiced)
    /\ Wait(Len(voiced'), isVoiced) \/ Extend(Len(voiced'), isVoiced)

SegmentsInit ==
    /\ voiced = <<>> /\ pre = <<>> /\ segment = <<>> /\ active = FALSE /\ tail = <<>>
    /\ streak = 0 /\ speech = 0 /\ silence = 0
    /\ emitted = <<>> /\ dropped = <<>>

SegmentsNext == \E isVoiced \in BOOLEAN : ConsumeFrame(isVoiced)

SegmentsSpec == SegmentsInit /\ [][SegmentsNext]_segmentVars

----------------------------------------------------------------------------
(* Properties                                                              *)

FramesOf(s) == {s[i] : i \in DOMAIN s}
Elements(ss) == {ss[i] : i \in DOMAIN ss}
ClosedSegments == Elements(emitted) \union Elements(dropped)
SegmentEnds == {s[Len(s)] : s \in ClosedSegments}

\* The run of n voiced frames from i on, which no end of a segment cuts.
IsRun(i, n) ==
    /\ i + n - 1 <= Len(voiced)
    /\ \A k \in i .. i + n - 1 : voiced[k]
    /\ \A k \in i .. i + n - 2 : k \notin SegmentEnds

\* Every frame of a voiced run that is long enough is in a segment, where runs
\* begin anew after the end of one, and short segments are dropped.
SpeechKept ==
    \A i \in DOMAIN voiced :
        IsRun(i, StartFrames) =>
            \A k \in i .. i + StartFrames - 1 :
                \E s \in ClosedSegments \union {segment} : k \in FramesOf(s)

\* A segment has its frames in their order, each once, and without a gap but
\* for one after the overlap; two segments share the overlap at most.
SegmentsInOrder ==
    /\ \A s \in ClosedSegments \union {segment} :
         /\ \A i \in 1 .. Len(s) - 1 :
              s[i] < s[i + 1] /\ (i # Overlap => s[i + 1] = s[i] + 1)
         /\ Len(s) <= MaxSegment
    /\ \A s, t \in ClosedSegments \union {segment} :
         s # t => Cardinality(FramesOf(s) \intersect FramesOf(t)) <= Overlap

\* What is sent has speech in it.
EnoughSpeech ==
    \A s \in Elements(emitted) : Cardinality({n \in FramesOf(s) : voiced[n]}) >= MinSpeech

SegmentsConsistent == SpeechKept /\ SegmentsInOrder /\ EnoughSpeech
=============================================================================
