------------------------------ MODULE IvrMenu ------------------------------
(***************************************************************************)
(* The menus of an IVR call: how a machine is built from the documents of  *)
(* the pull model (language, theme, type, title, then a recording or a     *)
(* quiz), which machine a call is on, and what a key does to a call.       *)
(*                                                                         *)
(* A machine is kept as the documents it was built from; its states and    *)
(* transitions are operators of them.  Values of attributes are numbers,   *)
(* in the order the code sorts them.  Keys are numbers too.                *)
(***************************************************************************)
EXTENDS Missing, Integers, FiniteSets, Sequences, SequencesExt

CONSTANTS
    Contents,       \* the sets of documents there may be; one document is
                    \* [lang, theme, type, title, known, secs, questions]
    SpokenLangs,    \* the languages and types that have a prompt
    SpokenTypes,
    Quiz,           \* the type of a quiz
    PerPage,        \* number_of_categories_listed_in_one_state, 7 in the code
    Right, Wrong,   \* positive_marks and negative_marks
    DailyLimit,          \* ivr_daily_listening_limit_seconds
    TopSpeed,       \* the number of SUPPORTED_SPEEDS
    Processes, Legs,
    MaxBuilds, MaxFaults

ASSUME MenuAssumption ==
    /\ \A ds \in Contents :
         /\ IsFiniteSet(ds)
         /\ \A i \in ds : i.secs \in Nat
                          /\ i.questions \in Seq([options : Nat, correct : Nat])
    /\ PerPage \in Nat \ {0} /\ TopSpeed \in Nat \ {0}
    /\ {Right, Wrong, DailyLimit, MaxBuilds, MaxFaults} \subseteq Nat
    /\ None \notin Processes

RepeatKey == PerPage + 1    \* repeat_current_categories_key, "8"
UpKey     == PerPage + 2    \* previous_category_level_key, "9"
NextKey   == PerPage + 3    \* next_n_categories_key, "#"
PrevKey   == PerPage + 4    \* previous_n_categories_key, "*"
PauseKey  == 0
Keys      == 0 .. PerPage + 4

----------------------------------------------------------------------------
(* The machine that is built from the documents ds.  sel is the sequence   *)
(* of the attributes chosen so far: language, theme, type, title.          *)

Levels == 4

(* A quiz offers its local_title, but is looked up by its title. *)
Comparable(i, level) ==
    CASE level = 1 -> i.lang [] level = 2 -> i.theme
      [] level = 3 -> i.type [] level = 4 -> i.known

Filtered(ds, sel) ==
    {i \in ds : \A n \in DOMAIN sel : Comparable(i, n) = sel[n]}

(* The elements of a set, each after those that come before it. *)
Arranged(S, Before(_, _)) ==
    [n \in 1 .. Cardinality(S) |->
        CHOOSE v \in S : Cardinality({w \in S : Before(w, v)}) = n - 1]

Sorted(S) == Arranged(S, <)

(* The most frequent language first. *)
HandleLanguage(is) ==
    LET Count(v) == Cardinality({i \in is : i.lang = v})
    IN  Arranged({i.lang : i \in is} \cap SpokenLangs,
                 LAMBDA v, w : Count(v) > Count(w) \/ (Count(v) = Count(w) /\ v < w))
HandleTheme(is) == Sorted({i.theme : i \in is})
HandleType(is)  == Sorted({i.type : i \in is} \cap SpokenTypes)
HandleTitle(is) == Sorted({i.title : i \in is})

Offered(ds, sel) ==
    LET is == Filtered(ds, sel)
    IN  CASE Len(sel) = 0 -> HandleLanguage(is) [] Len(sel) = 1 -> HandleTheme(is)
          [] Len(sel) = 2 -> HandleType(is)     [] Len(sel) = 3 -> HandleTitle(is)

PagesFloor(n) == n \div PerPage \* mutant: a page that is not full is left out
PagesOf(n) == (n + PerPage - 1) \div PerPage
Pages(ds, sel) == PagesOf(Len(Offered(ds, sel)))

IndexesPossible(ds, sel, page) ==
    LET n == Len(Offered(ds, sel)) - page * PerPage
    IN  1 .. (IF n < PerPage THEN n ELSE PerPage)

(* States: pages of menus, a recording, the states of a quiz. *)
State(kind, sel, n, o) == [kind |-> kind, sel |-> sel, n |-> n, o |-> o]
InitState == State("menu", <<>>, 0, 0)

Leaf(ds, sel) == CHOOSE i \in Filtered(ds, sel) : TRUE

(* What generate_states adds for a selection; nothing where no type of the *)
(* theme has a prompt.                                                     *)
First(ds, sel) ==
    IF Len(sel) < Levels
    THEN IF Pages(ds, sel) = 0 THEN {} ELSE {State("menu", sel, 0, 0)}
    ELSE {State(IF Leaf(ds, sel).type = Quiz THEN "start" ELSE "play", sel, 0, 0)}

ChildSelection(ds, sel, page, k) ==
    Append(sel, Offered(ds, sel)[page * PerPage + k])

(* The page on which the last choice of sel was made. *)
ParentBlock(ds, sel) ==
    LET up == Front(sel)
        at == CHOOSE n \in 1 .. Len(Offered(ds, up)) :
                  Offered(ds, up)[n] = Last(sel)
    IN  State("menu", up, (at - 1) \div PerPage, 0)

(* Transitions are pairs of a key and a state. *)
OptionTransitions(ds, s) ==
    UNION {{<<k, t>> : t \in First(ds, ChildSelection(ds, s.sel, s.n, k))} :
           k \in IndexesPossible(ds, s.sel, s.n)}

PageTransitions(ds, s) ==
    (IF s.n # 0 THEN {<<PrevKey, [s EXCEPT !.n = @ - 1]>>} ELSE {})
    \cup (IF s.n # Pages(ds, s.sel) - 1
          THEN {<<NextKey, [s EXCEPT !.n = @ + 1]>>} ELSE {})
    \cup {<<RepeatKey, s>>}

LevelTransitions(ds, s) ==
    IF s.sel # <<>> THEN {<<UpKey, ParentBlock(ds, s.sel)>>} ELSE {}

PlayTransitions(ds, s) == {<<UpKey, ParentBlock(ds, s.sel)>>, <<RepeatKey, s>>}

(* A quiz of one question has no way from its start to the question. *)
QuizTransitions(ds, s) ==
    LET qs == Leaf(ds, s.sel).questions
        End == IF s.n = Len(qs) THEN State("final", s.sel, 0, 0)
               ELSE State("ask", s.sel, s.n + 1, 0)
    IN  CASE s.kind = "start" -> IF Len(qs) > 1 THEN {<<1, End>>} ELSE {}
          [] s.kind = "ask"   -> {<<RepeatKey, s>>}
                                 \cup {<<o, State("told", s.sel, s.n, o)>> :
                                       o \in 1 .. qs[s.n].options}
          [] s.kind = "told"  -> {<<1, End>>}
          [] s.kind = "final" -> {<<1, ParentBlock(ds, s.sel)>>}

Transitions(ds, s) ==
    CASE s.kind = "menu" -> OptionTransitions(ds, s) \cup PageTransitions(ds, s)
                            \cup LevelTransitions(ds, s)
      [] s.kind = "play" -> PlayTransitions(ds, s)
      [] OTHER           -> QuizTransitions(ds, s)

(* The keys that the prompts of a state name.  Only pages of languages and *)
(* themes have a prompt for the next and the previous page.                *)
Announced(ds, s) ==
    CASE s.kind = "menu" ->
           IndexesPossible(ds, s.sel, s.n) \cup {RepeatKey}
           \cup (IF s.sel = <<>> THEN {} ELSE {UpKey})
           \cup {k \in {NextKey, PrevKey} : Len(s.sel) < 2
                                            /\ \E t \in PageTransitions(ds, s) : t[1] = k}
      [] s.kind = "play" -> {PauseKey, NextKey, PrevKey}
      [] s.kind = "ask"  -> {RepeatKey}
      [] OTHER           -> {1}

(* The states, level by level. *)
Deeper(ds, sels) ==
    UNION {UNION {{ChildSelection(ds, sel, p, k) : k \in IndexesPossible(ds, sel, p)} :
                  p \in 0 .. Pages(ds, sel) - 1} : sel \in sels}

Selections(ds) ==
    LET languages == Deeper(ds, {<<>>})
        themes == Deeper(ds, languages)
        types  == Deeper(ds, themes)
    IN  {<<>>} \cup languages \cup themes \cup types \cup Deeper(ds, types)

PlayStates(sel) == {State("play", sel, 0, 0)}
QuizEnds(sel) == {State("start", sel, 0, 0), State("final", sel, 0, 0)}
Answers(sel, q, n) == {State("told", sel, q, o) : o \in 1 .. n}

QuizStates(ds, sel) ==
    LET qs == Leaf(ds, sel).questions
    IN  QuizEnds(sel)
        \cup UNION {{State("ask", sel, q, 0)} \cup Answers(sel, q, qs[q].options) :
                    q \in DOMAIN qs}

States(ds) ==
    UNION {IF Len(sel) < Levels
           THEN {State("menu", sel, p, 0) : p \in 0 .. Pages(ds, sel) - 1}
           ELSE IF Leaf(ds, sel).type = Quiz THEN QuizStates(ds, sel)
           ELSE PlayStates(sel) : sel \in Selections(ds)}

(* Building raises for a title that cannot be looked up, a question without *)
(* its correct option, and an option on the key of the replay.              *)
Builds(ds) ==
    \A sel \in {s \in Selections(ds) : Len(s) = Levels} :
        /\ Filtered(ds, sel) # {}
        /\ Leaf(ds, sel).type = Quiz =>
             \A q \in DOMAIN Leaf(ds, sel).questions :
                LET posed == Leaf(ds, sel).questions[q]
                IN  posed.correct \in 1 .. posed.options /\ posed.options < RepeatKey

----------------------------------------------------------------------------
(* FSM.states with their transition_map, for each set that builds. *)
Fsm == [ds \in {d \in Contents : Builds(d)} |->
          [s \in States(ds) |-> Transitions(ds, s)]]

(* The processes, the calls and the listening time of one phone.           *)

VARIABLES
    content,   \* the documents of the pull model
    cache,     \* _fsm_cache of each process: machines [id, of]
    latest,    \* _latest_fsm_id of each process
    builds,    \* machines built
    call,      \* the document of each leg, and what is in flight for it
    usage,     \* total_seconds of the phone today
    heard,     \* the seconds that were played to the phone
    overlapped,     \* two checks of the limit have overlapped
    ended     \* processes that ended

vars == <<content, cache, latest, builds, call, usage, heard, overlapped, ended>>

(* stage: none; asked (start_call_flow called the provider); live; then,   *)
(* for a key that starts a recording, checked (usage was read) and counted *)
(* (usage was written); over; late: over before a check of it was counted. *)
Stages == {"none", "asked", "live", "checked", "counted", "late", "over"}
Ongoing == {"live", "checked", "counted"}

NoCall == [stage |-> "none", fsm |-> None, at |-> InitState, fresh |-> TRUE,
           score |-> 0, speed |-> 1, paused |-> FALSE, to |-> InitState, by |-> None]

Init ==
    /\ content \in Contents
    /\ cache = [p \in Processes |-> {}] /\ latest = [p \in Processes |-> None]
    /\ builds = 0
    /\ call = [l \in Legs |-> NoCall]
    /\ usage = 0 /\ heard = 0 /\ overlapped = FALSE /\ ended = 0

(* Documents are created, changed and deleted, the machines stay.  After   *)
(* the last build this makes no difference.                                *)
ChangeContent ==
    /\ builds < MaxBuilds
    /\ content' \in Contents \ {content}
    /\ UNCHANGED <<cache, latest, builds, call, usage, heard, overlapped, ended>>

Machine(ds) == [id |-> builds + 1, of |-> ds]

Instantiate(p) ==
    /\ builds < MaxBuilds /\ content \in DOMAIN Fsm
    /\ builds' = builds + 1
    /\ cache' = [cache EXCEPT ![p] = @ \cup {Machine(content)}]
    /\ latest' = [latest EXCEPT ![p] = Machine(content)]

(* PATCH /ivr: refused while a call was touched within the hour. *)
UpdateIvrStructure(p) ==
    /\ \A l \in Legs : call[l].stage \in Ongoing => ~ call[l].fresh
    /\ Instantiate(p)
    /\ UNCHANGED <<content, call, usage, heard, overlapped, ended>>

(* GET /ivr-structure, and the start of a call, in a process without a     *)
(* machine.  The stored machine cannot be read back (State.from_json wants *)
(* a class that models/ivr_state.py does not define), so it is built.      *)
EnsureFsmLoaded(p) ==
    /\ latest[p] = None
    /\ Instantiate(p)
    /\ UNCHANGED <<content, call, usage, heard, overlapped, ended>>

(* The document of a call is deleted; a check that was made goes on.       *)
Over == [NoCall EXCEPT !.stage = "over"]
Deleted(c) == IF c.stage = "checked" THEN [c EXCEPT !.stage = "late"] ELSE Over

(* start_call_flow: documents without a change for an hour are deleted;    *)
(* refused while another call of the phone is in progress.                 *)
DeleteStale ==
    [l \in Legs |-> IF call[l].stage \in Ongoing /\ ~ call[l].fresh
                    THEN Deleted(call[l]) ELSE call[l]]

InProgress == \E l \in Legs : call[l].stage \in Ongoing /\ call[l].fresh

StartCallFlow(l, p) ==
    /\ call[l].stage = "none"
    /\ IF InProgress \/ usage >= DailyLimit
       THEN DeleteStale # call /\ call' = DeleteStale
       ELSE /\ latest[p] # None
            /\ InitState \in DOMAIN Fsm[latest[p].of]
            /\ call' = [DeleteStale EXCEPT ![l].stage = "asked",
                                           ![l].fsm = latest[p]]
    /\ UNCHANGED <<content, cache, latest, builds, usage, heard, overlapped, ended>>

(* The provider refuses, or the document is written. *)
MakeVonageCall == {"over", "live"}

StartEnds(l) ==
    /\ call[l].stage = "asked"
    /\ \E s \in MakeVonageCall : call' = [call EXCEPT ![l].stage = s]
    /\ UNCHANGED <<content, cache, latest, builds, usage, heard, overlapped, ended>>

HangupCall(l) == [call EXCEPT ![l] = Deleted(@)]

(* The call ends, whatever is in flight for it. *)
CallEnds(l) ==
    /\ call[l].stage \in Ongoing
    /\ call' = HangupCall(l)
    /\ UNCHANGED <<content, cache, latest, builds, usage, heard, overlapped, ended>>

(* stale_wait_in_minutes without a key. *)
GoesStale(l) ==
    /\ call[l].stage = "live" /\ call[l].fresh
    /\ call' = [call EXCEPT ![l].fresh = FALSE]
    /\ UNCHANGED <<content, cache, latest, builds, usage, heard, overlapped, ended>>

----------------------------------------------------------------------------
(* process_dtmf, in the process p, for one key.                            *)

KnowsMachine(l, p) == call[l].fsm \in cache[p]

(* A process without the machine of the call says so and hangs up. *)
ServerError(l, p) ==
    /\ call[l].stage = "live" /\ ~ KnowsMachine(l, p)
    /\ call' = HangupCall(l)
    /\ UNCHANGED <<content, cache, latest, builds, usage, heard, overlapped, ended>>

Streaming(c) == c.at.kind = "play"

IncreaseSpeed(v) == IF v = TopSpeed THEN v ELSE v + 1
DecreaseSpeed(v) == IF v = 1 THEN v ELSE v - 1

(* The keys of the player: the websocket may refuse.  The flags stay in    *)
(* the document when the caller goes on to another recording.              *)
ChangeSpeed(l, p) ==
    /\ call[l].stage = "live" /\ KnowsMachine(l, p) /\ Streaming(call[l])
    /\ \E v \in {call[l].speed, IncreaseSpeed(call[l].speed),
                 DecreaseSpeed(call[l].speed)} :
         call' = [call EXCEPT ![l].speed = v, ![l].fresh = TRUE]
    /\ UNCHANGED <<content, cache, latest, builds, usage, heard, overlapped, ended>>

TogglePause(l, p) ==
    /\ call[l].stage = "live" /\ KnowsMachine(l, p) /\ Streaming(call[l])
    /\ call' = [call EXCEPT ![l].paused = ~ @, ![l].fresh = TRUE]
    /\ UNCHANGED <<content, cache, latest, builds, usage, heard, overlapped, ended>>

PostOperationKeeps(c) == \* mutant: a second attempt goes on with the score
    CASE c.at.kind = "told" ->
           c.score + (IF Leaf(c.fsm.of, c.at.sel).questions[c.at.n].correct = c.at.o
                      THEN Right ELSE - Wrong)
      [] OTHER -> c.score

(* post_operation of the state that is left. *)
PostOperation(c) ==
    CASE c.at.kind = "start" -> 0
      [] c.at.kind = "told" ->
           c.score + (IF Leaf(c.fsm.of, c.at.sel).questions[c.at.n].correct = c.at.o
                      THEN Right ELSE - Wrong)
      [] OTHER -> c.score

(* What pre_operation of a recording asks for. *)
Duration(c, s) == IF s.kind = "play" THEN Leaf(c.fsm.of, s.sel).secs ELSE 0

(* Silence, and a key without a transition, replay the state. *)
Replay(l, p) ==
    /\ call[l].stage = "live" /\ KnowsMachine(l, p)
    /\ call' = [call EXCEPT ![l].fresh = TRUE]
    /\ UNCHANGED <<content, cache, latest, builds, usage, heard, overlapped, ended>>

Steps(l) == Fsm[call[l].fsm.of][call[l].at]

GetNextActions(l, p) ==
    /\ call[l].stage = "live" /\ KnowsMachine(l, p)
    /\ \E t \in Steps(l) :
        /\ Duration(call[l], t[2]) = 0
        /\ call' = [call EXCEPT ![l].at = t[2], ![l].fresh = TRUE,
                                ![l].score = PostOperation(call[l])]
    /\ UNCHANGED <<content, cache, latest, builds, usage, heard, overlapped, ended>>

(* _check_daily_limit: read, compare, then $inc; then the call is saved.   *)
Exceeds(d) == usage + d > DailyLimit \/ usage >= DailyLimit
Checking == {l \in Legs : call[l].stage \in {"checked", "late"}}

CheckDailyLimit(l, p) ==
    /\ call[l].stage = "live" /\ KnowsMachine(l, p)
    /\ \E t \in Steps(l) :
        /\ Duration(call[l], t[2]) > 0
        /\ IF Exceeds(Duration(call[l], t[2]))
           THEN call' = HangupCall(l)
           ELSE call' = [call EXCEPT ![l].stage = "checked", ![l].to = t[2],
                                     ![l].by = p]
    /\ overlapped' = (overlapped \/ Checking # {})
    /\ UNCHANGED <<content, cache, latest, builds, usage, heard, ended>>

Count(l) ==
    /\ l \in Checking
    /\ usage' = usage + Duration(call[l], call[l].to)
    /\ call' = [call EXCEPT ![l] = IF @.stage = "late" THEN Over
                                   ELSE [@ EXCEPT !.stage = "counted"]]
    /\ UNCHANGED <<content, cache, latest, builds, heard, overlapped, ended>>

SaveOngoingCall(l) ==
    /\ call[l].stage = "counted"
    /\ heard' = heard + Duration(call[l], call[l].to)
    /\ call' = [call EXCEPT ![l].stage = "live", ![l].at = call[l].to,
                            ![l].to = InitState, ![l].by = None,
                            ![l].fresh = TRUE, ![l].score = PostOperation(call[l])]
    /\ UNCHANGED <<content, cache, latest, builds, usage, overlapped, ended>>

(* A process ends: its machines are gone, its keys are delivered again.    *)
Restart(p) ==
    /\ ended < MaxFaults /\ ended' = ended + 1
    /\ cache' = [cache EXCEPT ![p] = {}] /\ latest' = [latest EXCEPT ![p] = None]
    /\ call' = [l \in Legs |->
                 CASE call[l].by # p -> call[l]
                   [] call[l].by = p /\ call[l].stage = "late" -> Over
                   [] OTHER -> [call[l] EXCEPT !.stage = "live", !.to = InitState, !.by = None]]
    /\ UNCHANGED <<content, builds, usage, heard, overlapped>>

Next ==
    \/ ChangeContent
    \/ \E p \in Processes : UpdateIvrStructure(p) \/ EnsureFsmLoaded(p) \/ Restart(p)
    \/ \E l \in Legs :
        \/ StartEnds(l) \/ CallEnds(l) \/ GoesStale(l)
        \/ Count(l) \/ SaveOngoingCall(l)
        \/ \E p \in Processes :
            \/ StartCallFlow(l, p) \/ ServerError(l, p) \/ TogglePause(l, p)
            \/ ChangeSpeed(l, p) \/ Replay(l, p)
            \/ GetNextActions(l, p) \/ CheckDailyLimit(l, p)

Spec == Init /\ [][Next]_vars

----------------------------------------------------------------------------

Machines == UNION {cache[p] : p \in Processes}

TypeOK ==
    /\ content \in Contents
    /\ \A m \in Machines : m.id \in 1 .. MaxBuilds /\ m.of \in Contents
    /\ \A p \in Processes : latest[p] # None => latest[p] \in cache[p]
    /\ builds \in 0 .. MaxBuilds /\ ended \in 0 .. MaxFaults
    /\ usage \in Nat /\ heard \in Nat /\ overlapped \in BOOLEAN
    /\ \A l \in Legs :
        /\ call[l].stage \in Stages /\ call[l].by \in Processes \cup {None}
        /\ call[l].speed \in 1 .. TopSpeed /\ call[l].paused \in BOOLEAN

(* A call is in a state of the machine it started with, whatever was       *)
(* rebuilt since.                                                          *)
InItsMachine ==
    \A l \in Legs : call[l].stage \in Ongoing => call[l].at \in DOMAIN Fsm[call[l].fsm.of]

(* The score is that of the questions before this one, of this attempt. *)
ScoreOfAttempt ==
    \A l \in Legs :
        call[l].stage \in Ongoing /\ call[l].at.kind \in {"ask", "told", "final"} =>
          LET posed == IF call[l].at.kind = "final"
                       THEN Len(Leaf(call[l].fsm.of, call[l].at.sel).questions)
                       ELSE call[l].at.n - 1
          IN  \E right \in 0 .. posed :
                call[l].score = right * Right - (posed - right) * Wrong

(* No second is played that was not counted, and the limit is kept unless  *)
(* two keys of the phone were checked at once.                             *)
LimitKept == heard <= usage /\ (usage <= DailyLimit \/ overlapped)

(* Calls under rebuilds, restarts and redelivered keys: the state exists,  *)
(* the score is this attempt's, the listening time is counted.             *)
CallsConsistent == TypeOK /\ InItsMachine /\ ScoreOfAttempt /\ LimitKept

Edges(ds) ==
    UNION {{<<s, t[2]>> : t \in Transitions(ds, s)} : s \in States(ds)}

Closure(E, n) ==
    LET r[m \in 0 .. n] ==
          IF m = 0 THEN {InitState}
          ELSE LET before == r[m - 1]
               IN  before \cup {e[2] : e \in {x \in E : x[1] \in before}}
    IN  r[n]

Reachable(ds) == Closure(Edges(ds), Cardinality(States(ds)))
Returning(ds) == Closure({<<e[2], e[1]>> : e \in Edges(ds)}, Cardinality(States(ds)))

Short(ds, s) == s.kind \in {"start", "ask", "told", "final"}
                /\ Len(Leaf(ds, s.sel).questions) < 2

Playable(ds) == {i \in ds : i.lang \in SpokenLangs /\ i.type \in SpokenTypes}

Whole(ds) ==
    LET S == States(ds)
        R == Reachable(ds)
        Back == Returning(ds)
    IN  /\ R \subseteq S
        /\ \A s \in S : s \in R \/ (Short(ds, s) /\ s.kind # "start")
        /\ \A s \in R : s \in Back \/ (Short(ds, s) /\ s.kind = "start")
        /\ \A i \in Playable(ds) :
             \E s \in R : s.sel = <<i.lang, i.theme, i.type, i.title>>
        /\ \A s \in R, k \in Keys :
             k \in Announced(ds, s) =>
               \/ \E t \in Transitions(ds, s) : t[1] = k
               \/ s.kind = "play"
               \/ s.kind = "menu" /\ First(ds, ChildSelection(ds, s.sel, s.n, k)) = {}
               \/ Short(ds, s)

Wholes == {ds \in DOMAIN Fsm : Whole(ds)}

(* A machine that was built: every transition leads to one of its states,  *)
(* every document with a prompt can be reached, and every state can be     *)
(* left for the first menu, but for the start of a quiz of one question,   *)
(* whose question no key leads to.  An announced key does something, but   *)
(* for an option with nothing below.                                       *)
BuildsWhole == builds' # builds => content \in Wholes

MachinesWhole == [][BuildsWhole]_vars

=============================================================================
