----------------------------- MODULE MCPlatform -----------------------------
(***************************************************************************)
(* Small instances of the modules that share nothing but the database      *)
(* server, and of what is heard in a conference.  A behaviour is one of    *)
(* one part, which Init chooses; the variables of the other parts stay as  *)
(* they are.                                                               *)
(***************************************************************************)
EXTENDS IvrMenu, Websites, Accounts, Migrations, Catalogue,
        Muting, Playback, AudioRelay, Transcriber, TLC

CONSTANTS j1, k1, w1, w2, l1, l2, t1, s1, s2, u1, u2

VARIABLE part

----------------------------------------------------------------------------
(* Websites: two documents, of which an older version may have left some.  *)

Left(n1, n2) == [s \in Sites |-> IF s = 1 THEN n1 ELSE n2]
Of(d, m) == [domain |-> d, more |-> m, claims |-> None]

MCLowerCase == [h \in Hosts |-> IF h = "A" THEN "a" ELSE h]
MCOldCollections == {Left(None, None), Left(Of("A", {}), None), Left(Of("b", {}), None),
                     Left(Of("A", {}), Of("b", {"a"})), Left(Of("-", {}), None)}
MCRegistrations == {[domain |-> "a", more |-> {}]}
MCRenamings == {[domain |-> None, more |-> {"a"}], [domain |-> "b", more |-> None],
                [domain |-> None, more |-> None]}

----------------------------------------------------------------------------
(* SyncJobs: one job that is followed, two processes.                      *)

VARIABLES live, tree, asked, status, scope, retries, counted, items, worker,
          tasks, follow, faults, changes, torn, stray, touched, raced, orphans

syncVars == <<live, tree, asked, status, scope, retries, counted, items, worker,
              tasks, follow, faults, changes, torn, stray, touched, raced, orphans>>

Sync == INSTANCE SyncStreams WITH
    Courses <- {k1}, Jobs <- {j1}, Workers <- {w1, w2}, Nothing <- None,
    Scopes <- {"all"}, Dry <- {}, Followed <- {j1},
    MaxRetries <- 1, MaxChanges <- 0, MaxFaults <- 2

\* SyncJobs: a sync job ends, and so does the stream that follows it.
SyncJobsEnd == Sync!JobsEnd

----------------------------------------------------------------------------
(* IvrMenu: one call on menus that are rebuilt; or a race of two calls of  *)
(* one phone at its daily limit.                                           *)

Document(l, ty, ti, n) == [lang |-> l, theme |-> 1, type |-> ty, title |-> ti,
                           known |-> ti, secs |-> n, questions |-> <<>>]
Question(right) == [options |-> 2, correct |-> right]
QuizOf(found, qs) == [lang |-> 1, theme |-> 1, type |-> 3, title |-> 1,
                      known |-> found, secs |-> 0, questions |-> qs]

\* Two pages of titles, a quiz and a type without a prompt; a quiz of one
\* question; a quiz that its title does not find, which does not build; one
\* recording.
MCContents ==
    {{Document(1, 1, 1, 0), Document(1, 1, 2, 0), Document(1, 1, 3, 1),
      QuizOf(1, <<Question(1), Question(2)>>), Document(2, 9, 1, 1)},
     {Document(1, 1, 1, 1), QuizOf(1, <<Question(1)>>)},
     {Document(1, 1, 1, 1), QuizOf(2, <<Question(1)>>)},
     {Document(1, 1, 1, 1)}}

menuVars == vars

Smallest == CHOOSE ds \in Contents : Cardinality(ds) = 1

\* One leg, and every menu; or two legs, the smallest menu, one machine and
\* no player.
OneLeg == call'[l2] = call[l2] /\ content' # Smallest
TwoLegs ==
    /\ content' = content /\ builds' < 2 /\ ended' = 0
    /\ \A l \in Legs : call'[l].speed = 1 /\ ~ call'[l].paused

\* IvrMenu: a machine has no dead ends and leaves no document out.
MenusWhole == [][part = "menu" => BuildsWhole]_menuVars

----------------------------------------------------------------------------
(* Accounts: two requests at a time, from four populations.                *)

Account(role, school, phone, email) ==
    [role |-> role, tenant |-> IF role = "tenant" THEN None ELSE t1,
     school |-> school, phone |-> phone, email |-> email]
Nobody == [i \in {t1, s1, s2, u1, u2} |-> None]
OneSchool == [Nobody EXCEPT ![t1] = Account("tenant", None, None, "t"),
                            ![s1] = Account("school_admin", s1, None, "a")]

MCPopulation ==
    {Nobody, OneSchool,
     [OneSchool EXCEPT ![s2] = Account("school_admin", s2, None, "b"),
                       ![u1] = Account("teacher", s1, "1", "1")],
     [OneSchool EXCEPT ![u1] = Account("student", s1, "1", None),
                       ![u2] = Account("student", s1, "2", None)]}

----------------------------------------------------------------------------
(* Migrations: eight databases, each with documents of some collections.   *)

Older(coll, of, key, names) ==
    [coll |-> coll, of |-> of, key |-> key, old |-> names, alias |-> FALSE,
     ref |-> "oid", tenant |-> "oid", email |-> None, type |-> None,
     heard |-> FALSE, processed |-> FALSE, edit |-> FALSE]
Camel == {"key", "rest", "version"}
Person(coll, of, tenant, email) ==
    [Older(coll, of, 1, Camel) EXCEPT !.tenant = tenant, !.email = email]
Audio(of, key, names, type, ready) ==
    [Older("contentsV3", of, key, names) EXCEPT !.type = type, !.heard = ready]
Database(older, ds) == [legacy |-> older, docs |-> ds]

MCPopulations ==
    {Database({Person("teachers", 1, "oid", "e"), Person("tenants", 2, None, "e")},
              {Person("users", 3, "text", "e")}),
     Database({Person("teachers", 1, "oid", "e")}, {Person("users", 3, "text", "f")}),
     Database({Person("schools", 1, "oid", "e"), Person("schools", 2, "oid", "e")}, {}),
     Database({}, {Audio(1, 0, Camel, "Story", TRUE), Audio(2, 0, {"nested"}, "Quiz", FALSE),
                   Audio(3, 1, {"nested"}, "song", TRUE)}),
     Database({}, {Older("quizData", 1, 0, Camel), Older("quizData", 2, 0, Camel),
                   Older("callsLogs", 3, 0, {})}),
     Database({}, {Older("conferenceState", 1, 0, Camel \ {"version"}),
                   Older("conferences", 2, 0, {}), Older("ivrfsms", 3, 0, {})}),
     Database({}, {Older("classes", 1, 1, Camel), Older("classes", 2, 1, {"version"}),
                   Older("comprehension", 3, 1, Camel)}),
     Database({}, {Older("logs", 1, 1, Camel), Older("logentries", 2, 1, Camel),
                   Older("fsmcontexts", 3, 1, Camel)})}
MCStarts == {<<1, 22>>, <<5, 22>>, <<17, 17>>}

----------------------------------------------------------------------------
(* Catalogue: pages of two; four documents of one or two ages, or of none. *)

Listed(type, school, at, pull) ==
    [type |-> type, school |-> school, at |-> at, theme |-> "t",
     teacher |-> ~ pull, pull |-> pull, title |-> 0, deleted |-> FALSE]
Stock(list) == [i \in 1 .. 5 |-> IF i <= Len(list) THEN list[i] ELSE None]
InList(teacher, exp, theme) == [teacher |-> teacher, exp |-> exp, theme |-> theme]

MCBefore ==
    {Stock(<<Listed("story", s1, 0, TRUE), Listed("story", None, 1, TRUE),
             Listed("quiz", s1, 1, TRUE), Listed("story", s1, 2, FALSE)>>),
     Stock(<<Listed("story", s1, 0, TRUE), Listed("story", s1, 1, TRUE),
             Listed("quiz", s1, 0, TRUE), Listed("quiz", s1, None, FALSE)>>),
     Stock(<<Listed("story", s1, 1, TRUE), Listed("story", s2, 1, TRUE),
             Listed("quiz", None, 1, TRUE), Listed("story", s1, 0, FALSE)>>)}
MCFilters == {InList(FALSE, None, None), InList(FALSE, "story", "t"),
              InList(TRUE, None, None), InList(FALSE, "quiz", None)}

----------------------------------------------------------------------------
(* Playback: two commands or faults after a recording was asked for, and   *)
(* two audio legs.                                                         *)

Command(type, value) == [type |-> type, value |-> value]

MCPlayAsks ==
    {Command("play", "a"), Command("play", "b"), Command("pause", None),
     Command("resume", None), Command("seek", None),
     Command("key", "6"), Command("key", "#"), Command("system", None),
     Command("disconnect", None), Command("transfer", None)}
MCPlayStarted == {<<Command("transfer", None), Command("play", "a")>>}

----------------------------------------------------------------------------
(* Muting: a teacher and a student who have answered, and the leader.      *)

To(type, phone) == [type |-> type, phone |-> phone]
Press(phone, key) == [type |-> "key", phone |-> phone, key |-> key]

MCWishes == {To("unmute", "b"), To("mute", "b"), To("mute_all", None),
             To("unmute_all", None), Press("a", "3"), Press("b", "0"),
             To("add", "b"), To("remove", "b")}

----------------------------------------------------------------------------
(* AudioRelay: two starts of a conference; Transcriber: twelve frames.     *)

MCChunks == {[segment |-> x] : x \in {None, "talk", "hold"}}

-----------------------------------------------------------------------------

SumInit ==
    /\ part \in {"websites", "sync", "menu", "race", "accounts", "migrations",
              "catalogue", "playback", "muting", "relay", "segments"}
    /\ IF part = "websites" THEN WebsitesInit
       ELSE /\ website = NoDocs /\ indexed = FALSE
            /\ request = [r \in Requests |-> NoRequest]
            /\ migration = MigrationIdle
            /\ events = 0 /\ tampered = {}
    /\ Sync!StreamInit
    /\ AccountsInit
    /\ part # "accounts" => user = Nobody /\ ~ emailIndex
    /\ MigrationsInit
    /\ part # "migrations" => \E d \in docs : d.coll = "logs"
    /\ CatalogueInit
    /\ part # "catalogue" => item[4].at = None
    /\ PlaybackInit /\ MutingInit
    /\ RelayInit /\ (part # "relay" => analysis)
    /\ SegmentsInit
    /\ Init
    /\ (part = "menu") = (content # Smallest)

databaseVars == <<websiteVars, syncVars, accountVars, documentVars, catalogueVars>>
audioVars == <<playbackVars, mutingVars, relayVars, segmentVars>>

SumNext ==
    \/ /\ part = "websites" /\ WebsitesNext
       /\ UNCHANGED <<part, syncVars, menuVars, accountVars, documentVars, catalogueVars, audioVars>>
    \/ /\ part = "sync" /\ Sync!StreamNext
       /\ UNCHANGED <<part, websiteVars, menuVars, accountVars, documentVars, catalogueVars, audioVars>>
    \/ /\ part = "menu" /\ Next /\ OneLeg
       /\ UNCHANGED <<part, databaseVars, audioVars>>
    \/ /\ part = "race" /\ Next /\ TwoLegs
       /\ UNCHANGED <<part, databaseVars, audioVars>>
    \/ /\ part = "accounts" /\ AccountsNext
       /\ UNCHANGED <<part, websiteVars, syncVars, menuVars, documentVars, catalogueVars, audioVars>>
    \/ /\ part = "migrations" /\ MigrationsNext
       /\ UNCHANGED <<part, websiteVars, syncVars, menuVars, accountVars, catalogueVars, audioVars>>
    \/ /\ part = "catalogue" /\ CatalogueNext
       /\ UNCHANGED <<part, websiteVars, syncVars, menuVars, accountVars, documentVars, audioVars>>
    \/ /\ part = "playback" /\ PlaybackNext
       /\ UNCHANGED <<part, menuVars, databaseVars, mutingVars, relayVars, segmentVars>>
    \/ /\ part = "muting" /\ MutingNext
       /\ UNCHANGED <<part, menuVars, databaseVars, playbackVars, relayVars, segmentVars>>
    \/ /\ part = "relay" /\ RelayNext
       /\ UNCHANGED <<part, menuVars, databaseVars, playbackVars, mutingVars, segmentVars>>
    \/ /\ part = "segments" /\ SegmentsNext
       /\ UNCHANGED <<part, menuVars, databaseVars, playbackVars, mutingVars, relayVars>>

On(p) == part = p

Fairness ==
    /\ WF_websiteVars(On("websites") /\ MigrationStep)
    /\ \A w \in {w1, w2} :
         /\ WF_syncVars(On("sync") /\ Sync!Work(w) /\ UNCHANGED follow)
         /\ WF_syncVars(On("sync") /\ Sync!Reconcile(w) /\ UNCHANGED follow)
         /\ WF_syncVars(On("sync") /\ \E t \in Sync!TasksOf(w, j1) : Sync!Copy(t) /\ UNCHANGED follow)
    /\ WF_syncVars(On("sync") /\ Sync!Look(j1))

SumSpec ==
    SumInit /\ [][SumNext]_<<part, menuVars, databaseVars, audioVars>> /\ Fairness
=============================================================================
