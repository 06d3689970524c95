----------------------------- MODULE Catalogue ------------------------------
(***************************************************************************)
(* The content list of one tenant: recordings (contentsV3) and quizzes     *)
(* (quizData) are two collections that GET /content merges and returns     *)
(* page by page, while other users create, change and delete documents.    *)
(* The cursor of a page is the creation time, in seconds, of its last      *)
(* document; the next page starts at that time, not after it.              *)
(***************************************************************************)
EXTENDS Missing, Naturals, FiniteSets, Sequences

CONSTANTS
    Items,          \* _ids, compared as numbers
    TenantSchools,  \* of the tenant
    Exps,           \* kinds of contents
    Themes,         \* of contents, in one language
    PageSize,       \* documents on a page
    Before,         \* the documents there may be at the start
    Filters,        \* what a client may ask for: [teacher, exp, theme]
    MaxTime,        \* bound: seconds
    MaxChanges      \* bound: requests that write

\* A recording or a quiz: its exp or "quiz", and its creation time, if any.
Docs ==
    [type : Exps \union {"quiz"}, school : TenantSchools \union {None}, at : Nat \union {None},
     theme : Themes \union {None}, teacher : BOOLEAN, pull : BOOLEAN, title : Nat,
     deleted : BOOLEAN]

\* _ids are compared, pages hold something, and documents have their fields.
ASSUME CatalogueAssumption ==
    /\ IsFiniteSet(Items) /\ Items \subseteq Nat
    /\ "story" \in Exps /\ None \notin Exps /\ None # "quiz"
    /\ None \notin Nat /\ None \notin Themes
    /\ PageSize \in Nat \ {0}
    /\ MaxTime \in Nat /\ MaxChanges \in Nat
    /\ Before \subseteq [Items -> Docs \union {None}] /\ None \notin Docs

VARIABLES
    item,           \* the documents, or None
    now,            \* seconds
    reader,         \* the client that reads page after page
    changed         \* bound: documents created, changed or deleted

catalogueVars == <<item, now, reader, changed>>

----------------------------------------------------------------------------
(* Queries                                                                 *)

Here == {i \in Items : item[i] # None /\ ~ item[i].deleted}

\* _tenant_query: a school reads its own documents and those of no school, a
\* tenant reads all.
Readable(school) ==
    {i \in Here : school = None \/ item[i].school \in {school, None}}
\* strict: a school writes to its own documents only.
Writable(school) == {i \in Here : school = None \/ item[i].school = school}

\* list_paginated of either collection.  The theme counts only together with
\* a type, and the teacher's application has its own selection.
Selected(i, f) ==
    /\ f.teacher => item[i].teacher
    /\ ~ f.teacher /\ f.theme # None /\ f.exp # None =>
           item[i].pull /\ item[i].theme = f.theme

OfType(i, f) ==
    \/ f.exp = None \/ f.theme = None \/ f.teacher
    \/ item[i].type = f.exp

\* creation_time <= cursor: what has no creation time, no cursor finds.
FromAfter(i, after) ==  \* mutant: what is as old as the last of a page is skipped
    after = None \/ (item[i].at # None /\ item[i].at < after)
From(i, after) == after = None \/ (item[i].at # None /\ item[i].at =< after)

Age(i) == IF item[i].at = None THEN 0 ELSE item[i].at

\* The newest n of a set.  The database does not say which, of one age.
Newest(S, n) ==
    {T \in SUBSET S :
        /\ Cardinality(T) = IF Cardinality(S) < n THEN Cardinality(S) ELSE n
        /\ \A i \in T, j \in S \ T : Age(i) >= Age(j)}

Recordings(r) ==
    IF r.filter.exp = "quiz" THEN {}
    ELSE {i \in Readable(r.school) : /\ item[i].type # "quiz" /\ From(i, r.after)
                                     /\ Selected(i, r.filter) /\ OfType(i, r.filter)}
Quizzes(r) ==
    IF r.filter.exp \notin {None, "quiz"} THEN {}
    ELSE {i \in Readable(r.school) : /\ item[i].type = "quiz" /\ From(i, r.after)
                                     /\ Selected(i, r.filter)}

\* _sort_key: newest first, then by _id.
Precedes(i, j) == Age(i) > Age(j) \/ (Age(i) = Age(j) /\ i < j)
\* The first Limit of the merged list, of which the last gives the cursor.
FirstOf(S) ==
    CHOOSE T \in SUBSET S :
        /\ Cardinality(T) = IF Cardinality(S) < PageSize THEN Cardinality(S) ELSE PageSize
        /\ \A i \in T, j \in S \ T : Precedes(i, j)
LastOf(T) == CHOOSE i \in T : \A j \in T \ {i} : Precedes(j, i)

\* _parse_cursor: the text None_<id> is malformed and starts from the top.
CursorOf(i) == item[i].at
Moves(cursor, after) == cursor # None /\ (after = None \/ cursor < after)

\* find_themes: of recordings, never of quizzes.
OfThemes(school) ==
    {i \in Readable(school) : item[i].type # "quiz" /\ item[i].pull}
\* GET /content/themes: each once.
ThemesFor(school) == {item[i].theme : i \in OfThemes(school)} \ {None}

----------------------------------------------------------------------------
(* A client that reads a list to its end                                   *)

NoReader == [stage |-> "idle", school |-> None, filter |-> None, after |-> None, first |-> {},
             seen |-> {}, there |-> {}, looped |-> FALSE, tied |-> FALSE,
             untimed |-> FALSE]

\* Documents it must see: there from the first query on, with a time.
Lasting(r) == {i \in Recordings(r) \union Quizzes(r) : item[i].at # None}

OpenList(school, f) ==
    /\ reader.stage = "idle"
    /\ LET r == [NoReader EXCEPT !.stage = "asked", !.school = school, !.filter = f]
       IN  reader' = [r EXCEPT !.there = Lasting(r)]
    /\ UNCHANGED <<item, now, changed>>

\* list_content: the recordings first.
FetchRecordings ==
    /\ reader.stage = "asked"
    /\ \E T \in Newest(Recordings(reader), PageSize + 1) :
         reader' = [reader EXCEPT !.stage = "merging", !.first = T]
    /\ UNCHANGED <<item, now, changed>>

\* Then the quizzes; the page, and the cursor if there is more.  Documents
\* are shown as they were read.
FetchQuizzes ==
    /\ reader.stage = "merging"
    /\ \E T \in Newest(Quizzes(reader), PageSize + 1) :
         LET all == reader.first \union T
             page == FirstOf(all)
             more == Cardinality(all) > PageSize
             cursor == CursorOf(LastOf(page))
         IN  reader' = [reader EXCEPT
                !.stage = IF more THEN "asked" ELSE "done",
                !.after = IF more THEN cursor ELSE @,
                !.looped = more /\ ~ Moves(cursor, reader.after),
                !.untimed = more /\ cursor = None,
                !.tied = Cardinality({i \in all : Age(i) = Age(LastOf(page))}) >= PageSize,
                !.first = {}, !.seen = @ \union page]
    /\ UNCHANGED <<item, now, changed>>

Close ==
    /\ reader.stage = "done" \/ reader.looped
    /\ reader' = NoReader
    /\ UNCHANGED <<item, now, changed>>

----------------------------------------------------------------------------
(* Other users                                                             *)

Tick == now < MaxTime /\ now' = now + 1 /\ UNCHANGED <<item, reader, changed>>

\* What the reader still has to see after a write.
Unchanged(i) == ~ item'[i].deleted /\ item'[i] = [item[i] EXCEPT !.title = item'[i].title]
Watched(r) == {i \in r.there : Unchanged(i)}
WriteItem(i, doc) ==
    /\ changed < MaxChanges /\ changed' = changed + 1
    /\ item' = [item EXCEPT ![i] = doc]
    /\ reader' = [reader EXCEPT !.there = Watched(reader)]
    /\ UNCHANGED now

New(type, school, theme, teacher, pull) ==
    [type |-> type, school |-> school, at |-> now, theme |-> theme,
     teacher |-> teacher, pull |-> pull, title |-> 0, deleted |-> FALSE]

\* POST /content and POST /content/quiz, for the caller's school.
CreateContent(i, school, theme, teacher, pull) ==
    item[i] = None /\ WriteItem(i, New("story", school, theme, teacher, pull))
CreateQuiz(i, school, theme, teacher, pull) ==
    item[i] = None /\ WriteItem(i, New("quiz", school, theme, teacher, pull))

\* PATCH: the recording, or else the quiz, with this _id.
UpdateContent(i, school, theme, pull) ==
    /\ i \in Writable(school)
    /\ WriteItem(i, [item[i] EXCEPT !.theme = theme, !.pull = pull, !.title = 1])

\* DELETE: is_deleted.
DeleteContent(i, school) ==
    /\ i \in Writable(school)
    /\ WriteItem(i, [item[i] EXCEPT !.deleted = TRUE])

----------------------------------------------------------------------------

CatalogueInit ==
    /\ item \in Before /\ now = MaxTime \div 2
    /\ reader = NoReader /\ changed = 0

CatalogueNext ==
    \/ \E s \in TenantSchools \union {None}, f \in Filters : OpenList(s, f)
    \/ FetchRecordings \/ FetchQuizzes \/ Close \/ Tick
    \/ \E i \in Items, s \in TenantSchools \union {None}, t \in Themes \union {None}, p \in BOOLEAN :
         \/ \E teacher \in BOOLEAN :
              CreateContent(i, s, t, teacher, p) \/ CreateQuiz(i, s, t, teacher, p)
         \/ UpdateContent(i, s, t, p)
    \/ \E i \in Items, s \in TenantSchools \union {None} : DeleteContent(i, s)

CatalogueSpec == CatalogueInit /\ [][CatalogueNext]_catalogueVars

-----------------------------------------------------------------------------
(* Properties                                                              *)

CatalogueTypeOK ==
    /\ now \in 0 .. MaxTime /\ changed \in 0 .. MaxChanges
    /\ reader.first \union reader.seen \union reader.there \subseteq Items
    /\ reader.stage \in {"idle", "asked", "merging", "done"}

\* A client that reached the last page has seen every document with a
\* creation time that its list had from the first request to the last,
\* whatever others did between its requests and between the two queries of
\* one.  What has no creation time is only ever on the first page.
PagesCover == reader.stage = "done" => reader.there \subseteq reader.seen

\* A page starts where the one before it started only if it ends with as
\* many documents of one age as fit on a page, or with one that has no
\* creation time.
PagesMove == reader.looped => reader.tied \/ reader.untimed

\* A theme that is offered leads, with one of the types, to a list that is not
\* empty, and the other way round, but for quizzes.
ThemesLead ==
    \A s \in TenantSchools \union {None}, t \in Themes :
        t \in ThemesFor(s) <=>
            \E e \in {item[i].type : i \in Here} :
                Recordings([school |-> s, after |-> None,
                            filter |-> [teacher |-> FALSE, exp |-> e, theme |-> t]]) # {}

CatalogueWhole == CatalogueTypeOK /\ PagesCover /\ PagesMove /\ ThemesLead
=============================================================================
