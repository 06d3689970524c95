----------------------------- MODULE Migrations -----------------------------
(***************************************************************************)
(* The one-off migrations of the collections the older services left       *)
(* (migrations/001 to 020), run in order by migrate.py, by hand and as     *)
(* often as somebody likes, while the platform serves requests.  021, which*)
(* websites alone need, is in Websites.                                    *)
(*                                                                         *)
(* A document is a record: `of` is the thing it is about, `key` its _id (0 *)
(* for the string ids of the older services), `old` the groups of fields   *)
(* that still have their older names: "key", the field by which the        *)
(* migration and the platform select it, "rest", "nested" (inside          *)
(* audio_content) and "version" (__v).  `ref` says how school_id and       *)
(* tenant_id are stored, `edit` whether the platform has written to it.    *)
(***************************************************************************)
EXTENDS Missing, Naturals, FiniteSets, Sequences

CONSTANTS
    Populations,    \* what the older services may have left: [legacy, docs]
    Starts,         \* from which migration to which one an operator may run
    MaxRuns,        \* bound: runs of migrate.py
    MaxWrites       \* bound: requests that write

VARIABLES
    left,           \* what the older services left, of Populations
    docs,           \* the documents of all collections but those of legacy
    stage,          \* the position in Order that runs; 0: none
    plan,           \* the positions from which and to which the run goes
    batch,          \* documents that were read and are still to be written
    half,           \* the document (in a set) that is copied and not yet deleted
    uniqueEmail,    \* the unique index on tenant and email exists
    runs, writes,   \* bounds
    edited, removed,\* of the things the platform wrote to, or deleted
    cuts,           \* how often a run was cut between an insert and its delete
    complete        \* the last run went through all migrations

dbVars == <<left, docs, uniqueEmail>>
runVars == <<stage, plan, batch, half>>
logVars == <<runs, writes, edited, removed, cuts, complete>>
documentVars == <<dbVars, runVars, logVars>>

Order == <<"001", "002", "003", "004", "005", "005b", "006", "007", "008", "009", "010",
           "011", "012", "013", "014", "015", "016", "017", "018", "019", "020", "021">>
Current == IF stage = 0 THEN None ELSE Order[stage]

----------------------------------------------------------------------------
(* The documents that the migrations were written for.                     *)

EverLeft == UNION {p.legacy \union p.docs : p \in Populations}
Refs == {"text", "oid", None}
StoredDocuments ==
    [coll : {d.coll : d \in EverLeft} \union {"users"}, of : {d.of : d \in EverLeft}, key : Nat,
     old : SUBSET {"key", "rest", "nested", "version"}, alias : BOOLEAN,
     ref : Refs, tenant : Refs, email : {d.email : d \in EverLeft},
     type : {d.type : d \in EverLeft} \union {"story", "quiz"},
     heard : BOOLEAN, processed : BOOLEAN, edit : BOOLEAN]

\* The collections that 001 makes users of.
LegacyColls == {"teachers", "students", "tenants", "schools"}

\* The ids, names and references that some migration takes care of.
Understood(d) ==
    /\ d.key = 0 => d.coll \in {"quizData", "callsLogs", "ivrfsms", "conferenceState",
                                "conferences", "contentsV3"}
    /\ \/ d.old = {}
       \/ d.coll \in {"users", "classes", "comprehension", "fsmcontexts", "logs", "logentries"}
       \/ d.coll = "quizData" /\ d.key = 0
       \/ d.coll = "contentsV3" /\ ("key" \in d.old \/ d.old = {"nested"})
       \/ d.coll = "conferenceState" /\ ("key" \in d.old \/ d.old = {"version"})
    /\ d.ref = "text" => \/ d.coll = "users"
                         \/ d.coll = "quizData" /\ d.key = 0
                         \/ d.coll = "contentsV3" /\ "key" \in d.old
    /\ d.tenant = "text" => d.coll = "users"

ASSUME PopulationsAssumption ==
    /\ Starts \subseteq {s \in (1 .. Len(Order)) \X (1 .. Len(Order)) : s[1] <= s[2]}
    /\ \A p \in Populations :
        /\ p.legacy \union p.docs \subseteq StoredDocuments /\ IsFiniteSet(p.docs)
        /\ \A d, e \in p.legacy \union p.docs : d.of = e.of => d = e
        /\ \A d \in p.legacy \union p.docs : ~ d.edit
        /\ \A s \in p.legacy : s.coll \in LegacyColls /\ s.key # 0
        /\ \A d \in p.docs : d.coll \notin LegacyColls /\ Understood(d)

----------------------------------------------------------------------------
(* What each migration finds, and what it makes of a document d that was   *)
(* r when it was read.                                                     *)

In(coll) == {d \in docs : d.coll = coll}
CopiesOf(r) == {d \in docs : d.of = r.of}
StringIds(coll) == {d \in In(coll) : d.key = 0}
FreshKey(r) ==
    CHOOSE k \in 1 .. 1 + Cardinality(CopiesOf(r)) : \A d \in CopiesOf(r) : d.key # k

\* 001: a user with the _id of the older document.  school_id becomes text;
\* a school's is its own _id, a tenant has none.
Legacy == left.legacy
Unified(s) ==
    [s EXCEPT !.coll = "users", !.ref = IF s.coll = "tenants" THEN None ELSE "text"]

\* 003: everything at once, under a new _id.
QuizData == StringIds("quizData")
QuizDatum(r) == [r EXCEPT !.key = FreshKey(r), !.old = {}, !.ref = "oid"]

\* $rename of the fields that were there when the document was read, and
\* $unset of __v.
Renamed(r, d) == [d EXCEPT !.old = @ \ r.old]

Users == {d \in In("users") : d.old # {}}                                \* 004
OldClasses == {d \in In("classes") : d.old \ {"version"} # {}}              \* 006
ConferenceStates == {d \in In("conferenceState") : "key" \in d.old}      \* 007
ConferenceState(r, d) == [d EXCEPT !.old = @ \ (r.old \ {"version"})]
Comprehensions == {d \in In("comprehension") : d.old # {}}               \* 008
FsmContexts == {d \in In("fsmcontexts") : d.old # {}}                    \* 009
Logs == {d \in In("logs") : d.old # {}}                                  \* 010
LogEntries == {d \in In("logentries") : d.old # {}}                      \* 011

\* 005: the document that was read, rewritten, replaces whatever is there.
KeyedContents == {d \in In("contentsV3") : "key" \in d.old}
Content(r) == [r EXCEPT !.old = {}, !.ref = "oid"]
\* 005b: what an earlier 005 left inside audio_content.
Durations == {d \in In("contentsV3") : d.old = {"nested"}}

\* 012 to 015 and 017: the same document under a new _id; all but 012 keep
\* the older one in a field of its own.
CallLogs == StringIds("callsLogs")
CallLog(r) == [r EXCEPT !.key = FreshKey(r)]
Fsms == StringIds("ivrfsms")
StatesById == StringIds("conferenceState")
Conferences == StringIds("conferences")
ContentsById == StringIds("contentsV3")
Rekeyed(r) == [CallLog(r) EXCEPT !.alias = TRUE]

TextRefs == {d \in In("users") : "text" \in {d.ref, d.tenant}}          \* 016
Coerced(d) ==
    LET Oid(ref) == IF ref = "text" THEN "oid" ELSE ref
    IN  [d EXCEPT !.ref = Oid(@), !.tenant = Oid(@)]

Lower(type) ==
    CASE type = "Story" -> "story" [] type = "Quiz" -> "quiz" [] OTHER -> type
MixedCase == {d \in In("contentsV3") : Lower(d.type) # d.type}           \* 018
StrayQuizzes == {d \in In("contentsV3") : d.type = "quiz"}               \* 019
Unmarked ==                                                              \* 020
    {d \in In("contentsV3") : d.heard /\ d.old = {} /\ ~ d.processed}

Find(m) ==
    CASE m = "001" -> Legacy
      [] m = "003" -> QuizData         [] m = "004" -> Users
      [] m = "005" -> KeyedContents         [] m = "005b" -> Durations
      [] m = "006" -> OldClasses          [] m = "007" -> ConferenceStates
      [] m = "008" -> Comprehensions   [] m = "009" -> FsmContexts
      [] m = "010" -> Logs             [] m = "011" -> LogEntries
      [] m = "012" -> CallLogs         [] m = "013" -> Fsms
      [] m = "014" -> StatesById       [] m = "015" -> Conferences
      [] m = "016" -> TextRefs         [] m = "017" -> ContentsById
      [] m = "018" -> MixedCase        [] m = "019" -> StrayQuizzes
      [] m = "020" -> Unmarked         [] OTHER -> {}

\* Two users of one tenant with one email, for the index a text and an
\* ObjectId are two tenants.
Clash(ds) ==
    \E d, e \in {u \in ds : u.coll = "users" /\ u.email # None} :
        d.of # e.of /\ d.email = e.email /\ d.tenant = e.tenant

----------------------------------------------------------------------------
(* migrate.py                                                              *)

Idle == stage = 0
Free == ~ Idle /\ batch = {} /\ half = {}

StartRun(s) ==
    /\ Idle /\ runs < MaxRuns /\ runs' = runs + 1
    /\ stage' = s[1] /\ plan' = s /\ half' = {}
    /\ batch' = Find(Order[s[1]])
    /\ complete' = FALSE
    /\ UNCHANGED <<dbVars, writes, edited, removed, cuts>>

\* The next migration reads what it has to do.
Advance ==
    /\ Free /\ stage < plan[2]
    /\ Current = "002" => ~ Clash(docs)
    /\ uniqueEmail' = (uniqueEmail \/ Current = "002")
    /\ stage' = stage + 1 /\ batch' = Find(Order[stage + 1])
    /\ UNCHANGED <<left, docs, plan, half, logVars>>

FinishRun ==
    /\ Free /\ stage = plan[2]
    /\ stage' = 0 /\ complete' = (plan = <<1, Len(Order)>>)
    /\ UNCHANGED <<dbVars, plan, batch, half, runs, writes, edited, removed, cuts>>

\* An index or a write that the database refuses ends the run.
Abort ==
    /\ stage' = 0 /\ batch' = {} /\ half' = {}
    /\ UNCHANGED <<dbVars, plan, logVars>>

\* 002 cannot create its unique index.
IndexFails == Free /\ Current = "002" /\ Clash(docs) /\ Abort

\* 001: one document, unless it was migrated before.
PresentNever(s) == FALSE  \* mutant: what was copied before is copied again
Present(s) == \E d \in docs : d.coll = "users" /\ d.of = s.of
WithUser(s) == {d \in docs : d.coll # "users" \/ d.of # s.of} \union {Unified(s)}

Unify(s) ==
    /\ Current = "001" /\ s \in batch
    /\ \/ Present(s) /\ UNCHANGED docs
       \/ ~ Present(s) /\ ~ (uniqueEmail /\ Clash(WithUser(s))) /\ docs' = WithUser(s)
    /\ batch' = batch \ {s}
    /\ UNCHANGED <<left, uniqueEmail, stage, plan, half, logVars>>

UnifyFails(s) ==
    /\ Current = "001" /\ s \in batch /\ uniqueEmail
    /\ ~ Present(s) /\ Clash(WithUser(s))
    /\ Abort

\* One write that finds the document by _id: if it was deleted in the
\* meantime, nothing happens.
SameId(r) == {d \in docs : d.of = r.of /\ d.key = r.key /\ d.coll = r.coll}
Rewritten(r, d) ==
    CASE Current \in {"004", "006", "008", "009", "010", "011"} -> Renamed(r, d)
      [] Current = "007" -> ConferenceState(r, d)
      [] Current = "005" -> Content(r)
      [] Current = "005b" -> [d EXCEPT !.old = @ \ {"nested"}]
      [] Current = "016" -> Coerced(d)
      [] Current = "018" -> [d EXCEPT !.type = Lower(r.type)]
After(r) == (docs \ SameId(r)) \union {Rewritten(r, d) : d \in SameId(r)}

InPlace == {"004", "005", "005b", "006", "007", "008", "009", "010", "011", "016", "018"}

Rewrite(r) ==
    /\ Current \in InPlace /\ r \in batch
    /\ ~ (uniqueEmail /\ Clash(After(r)))
    /\ docs' = After(r) /\ batch' = batch \ {r}
    /\ UNCHANGED <<left, uniqueEmail, stage, plan, half, logVars>>

\* 016 makes a user's tenant comparable with another's of the same email.
RewriteFails(r) ==
    /\ Current \in InPlace /\ r \in batch /\ uniqueEmail /\ Clash(After(r))
    /\ Abort

\* An _id cannot be changed: insert the copy, then delete the original.
Rekeying == {"003", "012", "013", "014", "015", "017"}
NewDoc(r) ==
    CASE Current = "003" -> QuizDatum(r)
      [] Current = "012" -> CallLog(r)
      [] OTHER -> Rekeyed(r)

InsertCopy(r) ==
    /\ Current \in Rekeying /\ r \in batch /\ half = {}
    /\ docs' = docs \union {NewDoc(r)} /\ half' = {r} /\ batch' = batch \ {r}
    /\ UNCHANGED <<left, uniqueEmail, stage, plan, logVars>>

DeleteOriginal ==
    /\ half # {} /\ half' = {}
    /\ docs' = docs \ UNION {SameId(r) : r \in half}
    /\ UNCHANGED <<left, uniqueEmail, stage, plan, batch, logVars>>

\* 019 and 020 write to all that match, not to those that were read.
Bulk ==
    /\ Current \in {"019", "020"} /\ batch # {} /\ batch' = {}
    /\ docs' = IF Current = "019" THEN docs \ StrayQuizzes
               ELSE (docs \ Unmarked) \union {[d EXCEPT !.processed = TRUE] : d \in Unmarked}
    /\ UNCHANGED <<left, uniqueEmail, stage, plan, half, logVars>>

\* The operator stops a run, or it loses the database.
CutRun ==
    /\ ~ Idle
    /\ stage' = 0 /\ batch' = {} /\ half' = {}
    /\ cuts' = cuts + Cardinality(half)
    /\ UNCHANGED <<dbVars, plan, runs, writes, edited, removed, complete>>

\* 001_rollback: the users that 001 made, with what was written to them.
Migrated == {d \in docs : d.coll = "users" /\ \E s \in Legacy : s.of = d.of}
Rollback ==
    /\ Idle /\ runs < MaxRuns /\ Migrated # {} /\ runs' = runs + 1
    /\ docs' = docs \ Migrated
    /\ edited' = edited \ {d.of : d \in Migrated}
    /\ complete' = FALSE
    /\ UNCHANGED <<left, uniqueEmail, runVars, writes, removed, cuts>>

\* 001_verify: the users are there.  Schools are not looked at.
Verified ==
    \A s \in {l \in Legacy : l.coll # "schools"} :
        \E d \in docs : d.coll = "users" /\ d.of = s.of

----------------------------------------------------------------------------
(* The platform meanwhile                                                  *)

\* Documents that its requests find: by the newer names, and by ObjectIds.
Visible == {d \in docs : d.key # 0 /\ (d.coll = "users" \/ "key" \notin d.old)}

Edit(d) ==
    /\ writes < MaxWrites /\ d \in Visible /\ writes' = writes + 1
    /\ docs' = (docs \ {d}) \union {[d EXCEPT !.edit = TRUE]}
    /\ edited' = edited \union {d.of}
    /\ UNCHANGED <<left, uniqueEmail, runVars, runs, removed, cuts, complete>>

DeleteUser(d) ==
    /\ writes < MaxWrites /\ d \in Visible /\ d.coll = "users" /\ writes' = writes + 1
    /\ docs' = docs \ {d}
    /\ edited' = edited \ {d.of} /\ removed' = removed \union {d.of}
    /\ UNCHANGED <<left, uniqueEmail, runVars, runs, cuts, complete>>

----------------------------------------------------------------------------

MigrationsInit ==
    /\ \E p \in Populations : left = p /\ docs = p.docs
    /\ stage = 0 /\ plan = <<1, 1>> /\ batch = {} /\ half = {}
    /\ uniqueEmail = FALSE /\ runs = 0 /\ writes = 0
    /\ edited = {} /\ removed = {} /\ cuts = 0 /\ complete = FALSE

MigrationsNext ==
    \/ \E s \in Starts : StartRun(s)
    \/ Advance
    \/ FinishRun
    \/ IndexFails
    \/ \E r \in batch : Unify(r) \/ UnifyFails(r) \/ Rewrite(r) \/ RewriteFails(r) \/ InsertCopy(r)
    \/ DeleteOriginal \/ Bulk \/ CutRun \/ Rollback
    \/ \E d \in docs : Edit(d) \/ DeleteUser(d)

-----------------------------------------------------------------------------
(* Properties                                                              *)

Stray(d) == d.coll = "contentsV3" /\ Lower(d.type) = "quiz"
Things(ds) == {d.of : d \in ds}

\* Whatever order the runs, cuts and requests come in, no document that the
\* older services left is gone, but users that the platform deleted and the
\* quizzes that 019 removes.
NothingLost ==
    Things({d \in left.docs : ~ Stray(d)}) \ removed \subseteq Things(docs)

\* A document is there once, and once more while it is being copied and for
\* every run that was cut between the insertion and the deletion.
CopiesCounted ==
    \A d \in docs :
        Cardinality(CopiesOf(d)) =<
            1 + cuts + Cardinality({h \in half : h.of = d.of})

\* No migration undoes what the platform wrote, though most write what they
\* read before: it finds no document that they still have to replace.
EditsKept ==
    \A o \in edited : \E d \in left.docs \union Legacy \union docs :
        d.of = o /\ (d.edit \/ Stray(d))

\* A deleted user comes back only from the older collections, which 001
\* copies again.
OnlyLegacyReturns == removed \intersect Things(docs) \subseteq Things(Legacy)

\* What the platform reads when all migrations have run to the end.
Shaped(d) ==
    /\ d.coll \notin {"classes", "conferenceState"} => d.old = {}
    /\ d.old \subseteq {"version"} /\ d.key # 0
    /\ "text" \notin {d.ref, d.tenant}
    /\ d.coll = "contentsV3" => d.type # "quiz" /\ Lower(d.type) = d.type
    /\ d.coll = "contentsV3" /\ d.heard => d.processed

CompleteIsShaped ==
    complete => /\ \A d \in docs : Shaped(d)
                /\ Things(Legacy) \intersect removed = {} => Verified

\* 002's index holds two users of a tenant apart.
NoClash == uniqueEmail => ~ Clash(docs)

MigrationsTypeOK ==
    /\ left \in Populations /\ stage \in 0 .. Len(Order)
    /\ Idle => batch = {} /\ half = {}
    /\ half # {} => Current \in Rekeying
    /\ \A d \in docs : d.old \subseteq {"key", "rest", "nested", "version"}

MigrationsConsistent ==
    /\ MigrationsTypeOK /\ NothingLost /\ CopiesCounted /\ EditsKept
    /\ OnlyLegacyReturns /\ CompleteIsShaped /\ NoClash

-----------------------------------------------------------------------------

MigrationsSpec == MigrationsInit /\ [][MigrationsNext]_documentVars
=============================================================================
