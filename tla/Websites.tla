------------------------------ MODULE Websites ------------------------------
(***************************************************************************)
(* The hostnames of the registered websites: registration and update by    *)
(* the processes of the current version (services/onboarding_service.py,   *)
(* repositories/website_repository.py), the lookup that answers a site's    *)
(* requests (platform/sdk_cors.py), and migration 021, which computes       *)
(* claimed_domains for the documents of older versions while all of this    *)
(* goes on.  Every access to the collection is an action.                   *)
(***************************************************************************)
EXTENDS Missing, Naturals, FiniteSets

CONSTANTS
    Sites,          \* identities of documents
    Hosts,          \* hostnames as they are written
    LowerCase,      \* [Hosts -> Hosts]: the lower-case form
    Invalid,        \* the members of Hosts that are not hostnames
    OldCollections, \* the collections an older version may have left behind
    Requests,       \* calls of register_website and update_website
    Registrations,  \* what a registration asks for: [domain, more]
    Renamings,      \* what an update asks for: [domain, more], None if not named
    MaxAttempts,    \* MAX_ATTEMPTS of the migration
    MaxRounds,      \* MAX_ROUNDS of the migration
    MaxEvents       \* bound: calls, writes of older versions and interruptions

VARIABLES
    website,     \* the collection: [Sites -> document or None]
    indexed,     \* the indexes exist, so processes of this version serve
    request,     \* where each request is
    migration,   \* where the migration is and what it has read
    events,      \* how many of these there were
    tampered     \* history: written by an older version, claims not recomputed since

websiteVars == <<website, indexed, request, migration, events, tampered>>

----------------------------------------------------------------------------
(* Documents.                                                              *)

Documents == [domain : Hosts, more : SUBSET Hosts, claims : (SUBSET Hosts) \cup {None}]

(* The constants.  An older version knew no claims. *)
Bounds ==
    /\ MaxAttempts \in Nat \ {0} /\ MaxRounds \in Nat /\ MaxEvents \in Nat
Inputs ==
    /\ LowerCase \in [Hosts -> Hosts]
    /\ OldCollections \subseteq
         [Sites -> [domain : Hosts, more : SUBSET Hosts, claims : {None}] \cup {None}]
    /\ Registrations \subseteq [domain : Hosts, more : SUBSET Hosts]
    /\ Renamings \subseteq [domain : Hosts \cup {None}, more : (SUBSET Hosts) \cup {None}]
Distinct ==
    /\ None \notin Hosts /\ None \notin Sites /\ None \notin Documents
    /\ \A hosts \in SUBSET Hosts : None # hosts

ASSUME WebsitesAssumption == Bounds /\ Inputs /\ Distinct

Stored(docs) == {s \in Sites : docs[s] # None}

ClaimedDomains(d) == {LowerCase[h] : h \in {d.domain} \cup d.more}

IsCurrent(d) == d.claims = ClaimedDomains(d)

\* The unique indexes on domain, additional_domains and claimed_domains.
Compatible(d, e) ==
    /\ d.domain # e.domain
    /\ d.more \cap e.more = {}
    /\ None \notin {d.claims, e.claims} => d.claims \cap e.claims = {}

Unique(docs) ==
    \A s, t \in Stored(docs) : s # t => Compatible(docs[s], docs[t])

Written(s, d) == [website EXCEPT ![s] = d]

\* has_unclaimed_websites: the gate that pauses every change of a domain.
Unclaimed == \E s \in Stored(website) : website[s].claims = None

\* find_claiming returns one of these.
Claiming(h) ==
    {s \in Stored(website) :
        \/ website[s].claims # None /\ h \in website[s].claims
        \/ h \in {website[s].domain} \cup website[s].more}

\* find_by_domain, by which sdk_cors admits an origin.
Answering(h) ==
    {s \in Stored(website) : h \in {website[s].domain} \cup website[s].more}

----------------------------------------------------------------------------
(* Requests.                                                               *)

NoRequest == [at |-> "new", site |-> None, domain |-> None, more |-> None, left |-> {}]

At(r, place) == request[r].at = place

Step(r, place) == request' = [request EXCEPT ![r].at = place]

\* The response: 200, 503, 409 or 500.
Answer(r, outcome) == request' = [request EXCEPT ![r] = [NoRequest EXCEPT !.at = outcome]]

Served == UNCHANGED <<indexed, migration>>
Untouched == Served /\ UNCHANGED events

Event == events < MaxEvents /\ events' = events + 1

\* The hostnames a request has to find unclaimed, one find_one each.
Named(c) == ({c.domain} \ {None}) \cup (IF c.more = None THEN {} ELSE c.more)

Register(r) ==
    /\ indexed /\ At(r, "new") /\ Event
    /\ \E c \in Registrations :
         request' = [request EXCEPT ![r] =
            [at |-> "gate", site |-> None, domain |-> c.domain, more |-> c.more,
             left |-> Named(c)]]
    /\ Served /\ UNCHANGED <<website, tampered>>

\* Only a change of the domains has to wait for the migration.
UpdateWebsite(r) ==
    /\ indexed /\ At(r, "new") /\ Event
    /\ \E c \in Renamings, s \in Stored(website) :
         request' = [request EXCEPT ![r] =
            [at |-> IF c.domain = None /\ c.more = None THEN "write" ELSE "gate",
             site |-> s, domain |-> c.domain, more |-> c.more, left |-> Named(c)]]
    /\ Served /\ UNCHANGED <<website, tampered>>

EnsureClaimsMigrated(r) ==
    /\ At(r, "gate")
    /\ IF Unclaimed THEN Answer(r, "paused") ELSE Step(r, "check")
    /\ Untouched /\ UNCHANGED <<website, tampered>>

\* find_one may return the website itself although another one matches too.
EnsureDomainsUnclaimed(r) ==
    /\ At(r, "check")
    /\ IF request[r].left = {}
       THEN Step(r, "write")
       ELSE \E h \in request[r].left :
              \/ /\ Claiming(h) = {} \/ request[r].site \in Claiming(h)
                 /\ request' = [request EXCEPT ![r].left = @ \ {h}]
              \/ Claiming(h) \ {request[r].site} # {} /\ Answer(r, "conflict")
    /\ Untouched /\ UNCHANGED <<website, tampered>>

\* The claims are inserted with the document.
NewDocument(c) ==
    [domain |-> c.domain, more |-> c.more, claims |-> ClaimedDomains(c)]

Create(r) ==
    /\ At(r, "write") /\ request[r].site = None
    /\ \E s \in Sites \ Stored(website) :
         LET docs == Written(s, NewDocument(request[r])) IN
         IF Unique(docs)
         THEN website' = docs /\ Answer(r, "done")
         ELSE Answer(r, "conflict") /\ UNCHANGED website
    /\ Untouched /\ UNCHANGED tampered

\* One update pipeline: the fields, then the claims from what they give.
UpdatedKeepsClaims(d, c) == \* mutant: the claims are those of the old names
    [d EXCEPT !.domain = IF c.domain = None THEN @ ELSE c.domain,
              !.more = IF c.more = None THEN @ ELSE c.more]

Updated(d, c) ==
    LET e == [d EXCEPT !.domain = IF c.domain = None THEN @ ELSE c.domain,
                       !.more = IF c.more = None THEN @ ELSE c.more]
    IN IF c.domain = None /\ c.more = None THEN e
       ELSE [e EXCEPT !.claims = ClaimedDomains(e)]

Update(r) ==
    /\ At(r, "write") /\ request[r].site # None
    /\ LET s == request[r].site
           docs == Written(s, Updated(website[s], request[r])) IN
       IF website[s] = None
       THEN Answer(r, "gone") /\ UNCHANGED <<website, tampered>>
       ELSE IF Unique(docs)
       THEN /\ website' = docs
            /\ tampered' = IF Named(request[r]) = {} /\ request[r].more = None
                           THEN tampered ELSE tampered \ {s}
            /\ Answer(r, "done")
       ELSE Answer(r, "conflict") /\ UNCHANGED <<website, tampered>>
    /\ Untouched

DeleteWebsite ==
    /\ indexed /\ Event
    /\ \E s \in Stored(website) :
         /\ website' = Written(s, None)
         /\ tampered' = tampered \ {s}
    /\ Served /\ UNCHANGED request

----------------------------------------------------------------------------
(* What else writes.                                                       *)

\* A process of an older version knows neither the gate nor the claims.
OldWrite ==
    /\ Event
    /\ \E s \in Sites, c \in Registrations :
         LET old == IF website[s] = None THEN None ELSE website[s].claims
             docs == Written(s, [domain |-> c.domain, more |-> c.more, claims |-> old]) IN
         /\ Unique(docs)
         /\ website' = docs
         /\ tampered' = tampered \cup {s}
    /\ UNCHANGED <<indexed, request, migration>>

\* A process of this version starts: lifespan creates the indexes or fails.
Start ==
    /\ ~indexed /\ Unique(website)
    /\ indexed' = TRUE
    /\ UNCHANGED <<website, request, migration, events, tampered>>

----------------------------------------------------------------------------
(* Migration 021.                                                          *)

NoDocs == [s \in Sites |-> None]

MigrationIdle ==
    [at |-> "idle", docs |-> NoDocs, left |-> {}, doc |-> None, attempts |-> 0,
     rounds |-> 0, conflicts |-> FALSE]

Phase(p) == migration.at = p

Migrate(m) ==
    /\ migration' = m
    /\ UNCHANGED <<request, events>>

FindDuplicateClaims(docs) ==
    {h \in Hosts : \E s, t \in Stored(docs) :
        s # t /\ h \in ClaimedDomains(docs[s]) \cap ClaimedDomains(docs[t])}

FindUnnormalizable(docs) ==
    {s \in Stored(docs) :
        \/ docs[s].domain \in Invalid
        \/ \E h \in docs[s].more : h \in Invalid \/ LowerCase[h] # h}

NotCurrentStale(docs) == \* mutant: a document without claims is current
    {s \in Stored(docs) : docs[s].claims \notin {None, ClaimedDomains(docs[s])}}

NotCurrent(docs) == {s \in Stored(docs) : ~IsCurrent(docs[s])}

Begin ==
    /\ Phase("idle") \/ Phase("failed")
    /\ Migrate([MigrationIdle EXCEPT !.at = "read"])
    /\ UNCHANGED <<website, indexed, tampered>>

Again(p) == IF p = "read" THEN "read-again" ELSE "reread-again"

\* Duplicates are believed when a second read, a second later, shows some too.
ReadWithConfirmedDuplicates(p, next) ==
    \/ /\ Phase(p) /\ FindDuplicateClaims(website) # {}
       /\ Migrate([migration EXCEPT !.at = Again(p)])
    \/ /\ Phase(p) \/ Phase(Again(p))
       /\ FindDuplicateClaims(website) = {}
       /\ Migrate([migration EXCEPT !.docs = website, !.at = next])
    \/ /\ Phase(Again(p)) /\ FindDuplicateClaims(website) # {}
       /\ Migrate([migration EXCEPT !.at = "failed"])

FirstRead ==
    /\ ReadWithConfirmedDuplicates("read", "index")
    /\ UNCHANGED <<website, indexed, tampered>>

\* Documents with malformed names stop the migration before it writes.
EnsureIndexes ==
    /\ Phase("index")
    /\ IF FindUnnormalizable(migration.docs) # {} \/ ~Unique(website)
       THEN Migrate([MigrationIdle EXCEPT !.at = "failed"]) /\ UNCHANGED indexed
       ELSE Migrate([migration EXCEPT !.at = "reread", !.docs = NoDocs]) /\ indexed' = TRUE
    /\ UNCHANGED <<website, tampered>>

SecondRead ==
    /\ ReadWithConfirmedDuplicates("reread", "stale")
    /\ UNCHANGED <<website, indexed, tampered>>

\* What the read has found to do: the first backfill, or one more round.
Plan ==
    /\ Phase("stale")
    /\ LET todo == NotCurrent(migration.docs)
           done == todo = {} /\ migration.rounds > 0 IN
       Migrate([migration EXCEPT !.left = todo, !.attempts = 0,
                                 !.at = IF done THEN "count" ELSE "backfill"])
    /\ UNCHANGED <<website, indexed, tampered>>

\* update_one selects by the values the claims were computed from.
MatchesId(d, read) == d # None \* mutant: update_one selects by _id alone

Matches(d, read) ==
    d # None /\ d.domain = read.domain /\ d.more = read.more

Backfill(s) ==
    /\ Phase("backfill") /\ s \in migration.left /\ migration.doc \in {None, s}
    /\ LET read == migration.docs[s]
           docs == Written(s, [website[s] EXCEPT !.claims = ClaimedDomains(read)])
           next == [migration EXCEPT !.left = @ \ {s}, !.attempts = 0, !.doc = None] IN
       \/ /\ Matches(website[s], read) /\ Unique(docs)
          /\ website' = docs /\ tampered' = tampered \ {s}
          /\ Migrate(next)
       \/ /\ Matches(website[s], read) /\ ~Unique(docs)
          /\ Migrate([next EXCEPT !.conflicts = TRUE])
          /\ UNCHANGED <<website, tampered>>
       \/ /\ ~Matches(website[s], read)
          /\ Migrate([migration EXCEPT !.at = "refind", !.doc = s])
          /\ UNCHANGED <<website, tampered>>
    /\ UNCHANGED indexed

\* The document changed under the backfill: read it again, or give it up.
Refind ==
    /\ Phase("refind")
    /\ LET s == migration.doc
           next == [migration EXCEPT !.at = "backfill", !.left = @ \ {s},
                                     !.attempts = 0, !.doc = None] IN
       Migrate(IF website[s] = None THEN next
               ELSE IF IsCurrent(website[s]) THEN next
               ELSE IF migration.attempts + 1 = MaxAttempts
               THEN [next EXCEPT !.conflicts = TRUE]
               ELSE [migration EXCEPT !.at = "backfill", !.docs[s] = website[s],
                                      !.attempts = @ + 1])
    /\ UNCHANGED <<website, indexed, tampered>>

EndOfBackfill ==
    /\ Phase("backfill") /\ migration.left = {}
    /\ Migrate(IF migration.conflicts \/ migration.rounds = MaxRounds
               THEN [migration EXCEPT !.at = "count", !.docs = NoDocs]
               ELSE [migration EXCEPT !.at = "reread", !.docs = NoDocs, !.rounds = @ + 1])
    /\ UNCHANGED <<website, indexed, tampered>>

\* _count_not_current and succeeded: the exit code.
Finish ==
    /\ Phase("count")
    /\ Migrate([MigrationIdle EXCEPT
                  !.at = IF migration.conflicts \/ NotCurrent(website) # {}
                         THEN "failed" ELSE "succeeded"])
    /\ UNCHANGED <<website, indexed, tampered>>

\* The migration is killed; somebody runs it again.
Interrupt ==
    /\ migration.at \notin {"idle", "failed", "succeeded"}
    /\ Event
    /\ migration' = [MigrationIdle EXCEPT !.at = "failed"]
    /\ UNCHANGED <<website, indexed, request, tampered>>

----------------------------------------------------------------------------

WebsitesInit ==
    /\ website \in OldCollections
    /\ indexed = FALSE
    /\ request = [r \in Requests |-> NoRequest]
    /\ migration = MigrationIdle
    /\ events = 0
    /\ tampered = {}

MigrationStep ==
    \/ Begin \/ FirstRead \/ EnsureIndexes \/ SecondRead \/ Plan
    \/ \E s \in Sites : Backfill(s)
    \/ Refind \/ EndOfBackfill \/ Finish

WebsitesNext ==
    \/ \E r \in Requests :
         \/ Register(r) \/ UpdateWebsite(r) \/ EnsureClaimsMigrated(r)
         \/ EnsureDomainsUnclaimed(r) \/ Create(r) \/ Update(r)
    \/ DeleteWebsite \/ OldWrite \/ Start
    \/ MigrationStep \/ Interrupt

WebsitesSpec == WebsitesInit /\ [][WebsitesNext]_websiteVars

----------------------------------------------------------------------------
(* Properties.                                                             *)

\* Every variable has its type.
WebsitesTypeOK ==
    /\ website \in [Sites -> Documents \cup {None}]
    /\ indexed \in BOOLEAN
    /\ request \in [Requests ->
         [at : {"new", "gate", "check", "write", "done", "paused", "conflict", "gone"},
          site : Sites \cup {None}, domain : Hosts \cup {None},
          more : (SUBSET Hosts) \cup {None}, left : SUBSET Hosts]]
    /\ migration \in
         [at : {"idle", "read", "read-again", "index", "reread", "reread-again", "stale",
                "backfill", "refind", "count", "failed", "succeeded"},
          docs : [Sites -> Documents \cup {None}], left : SUBSET Sites,
          doc : Sites \cup {None}, attempts : 0 .. MaxAttempts - 1,
          rounds : 0 .. MaxRounds, conflicts : BOOLEAN]
    /\ events \in 0 .. MaxEvents
    /\ tampered \in SUBSET Sites

\* Once no document is without claims, at most one website answers for a
\* hostname, however registrations, updates, deletions and the migration
\* interleave; only what an older version has written is excepted.
OneOwner ==
    Unclaimed \/ \A h \in Hosts : Cardinality(Answering(h) \ tampered) <= 1

\* A document that has claims has those of the names it has now: neither an
\* update nor a backfill computes them from names that are gone.
ClaimsFollowNames ==
    \A s \in Stored(website) \ tampered : website[s].claims \in {None, ClaimedDomains(website[s])}

\* After a migration that reported success no document is without claims, so
\* that the gate stays open, but for what an older version has written.
SuccessOpensGate ==
    Phase("succeeded") => \A s \in Stored(website) \ tampered : website[s].claims # None

\* Claims are right where there are any, and there when the migration says so.
WebsitesConsistent == WebsitesTypeOK /\ ClaimsFollowNames /\ SuccessOpensGate

WebsitesFairSpec ==
    /\ WebsitesSpec
    /\ WF_websiteVars(MigrationStep)

\* When the documents are put in order and older versions are gone, the
\* migration, run again after every failure, opens the gate: no retry, round or
\* confirmation keeps it from its end.
InOrder == FindDuplicateClaims(website) = {} /\ FindUnnormalizable(website) = {}
GateOpens == <>[]InOrder => <>~Unclaimed

=============================================================================
