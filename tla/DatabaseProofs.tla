--------------------------- MODULE DatabaseProofs ---------------------------
(***************************************************************************)
(* What the platform's documents promise, whatever requests interleave:    *)
(* proofs about Websites, Accounts, the Catalogue, the IVR menus and the   *)
(* Migrations.                                                             *)
(***************************************************************************)
EXTENDS Websites, Accounts, Catalogue, IvrMenu, Migrations, FiniteSetTheorems, SequenceTheorems,
        WellFoundedInduction, TLAPS

-----------------------------------------------------------------------------
(* Websites: a hostname has one owner, claims follow the names, and the    *)
(* migration tells the truth about them.                                   *)

SiteRequests ==
    [at : {"new", "gate", "check", "write", "done", "paused", "conflict", "gone"},
     site : Sites \cup {None}, domain : Hosts \cup {None},
     more : (SUBSET Hosts) \cup {None}, left : SUBSET Hosts]
Migrations ==
    [at : {"idle", "read", "read-again", "index", "reread", "reread-again", "stale",
           "backfill", "refind", "count", "failed", "succeeded"},
     docs : [Sites -> Documents \cup {None}], left : SUBSET Sites,
     doc : Sites \cup {None}, attempts : 0 .. MaxAttempts - 1,
     rounds : 0 .. MaxRounds, conflicts : BOOLEAN]

-----------------------------------------------------------------------------
(* The inductive invariant. *)

(* A request is served by a process of this version; a registration names *)
(* its hostnames.                                                         *)
ServedHere(r) ==
    request[r].at \in {"gate", "check", "write"} =>
        /\ indexed
        /\ request[r].site = None => request[r].domain # None /\ request[r].more # None

(* The migration writes after it has created the indexes, and only to *)
(* documents that it has read.                                        *)
Phased ==
    /\ migration.at \in {"reread", "reread-again", "stale", "backfill", "refind"} => indexed
    /\ migration.at \in {"backfill", "refind"} => migration.left \subseteq Stored(migration.docs)
    /\ migration.doc # None =>
         migration.at \in {"backfill", "refind"} /\ migration.doc \in migration.left
    /\ migration.at = "refind" => migration.doc # None

(* The indexes hold, and without them there are no claims. *)
Indexing ==
    /\ indexed => Unique(website)
    /\ ~indexed => \A s \in Stored(website) : website[s].claims = None

Claimed == ClaimsFollowNames /\ SuccessOpensGate

SitesInv ==
    /\ WebsitesTypeOK
    /\ \A r \in Requests : ServedHere(r)
    /\ Phased /\ Indexing /\ Claimed

-----------------------------------------------------------------------------
(* Types. *)

LEMMA Typed ==
    ASSUME WebsitesTypeOK
    PROVE  /\ website \in [Sites -> Documents \cup {None}] /\ indexed \in BOOLEAN
           /\ request \in [Requests -> SiteRequests] /\ migration \in Migrations
           /\ events \in 0 .. MaxEvents /\ tampered \in SUBSET Sites
  BY DEF WebsitesTypeOK, SiteRequests, Migrations

LEMMA IsTyped ==
    ASSUME website \in [Sites -> Documents \cup {None}], indexed \in BOOLEAN,
           request \in [Requests -> SiteRequests], migration \in Migrations,
           events \in 0 .. MaxEvents, tampered \in SUBSET Sites
    PROVE  WebsitesTypeOK
  BY DEF WebsitesTypeOK, SiteRequests, Migrations

LEMMA IsTypedNext ==
    ASSUME website' \in [Sites -> Documents \cup {None}], indexed' \in BOOLEAN,
           request' \in [Requests -> SiteRequests], migration' \in Migrations,
           events' \in 0 .. MaxEvents, tampered' \in SUBSET Sites
    PROVE  WebsitesTypeOK'
  BY DEF WebsitesTypeOK, SiteRequests, Migrations

LEMMA ClaimsType ==
    ASSUME Inputs, NEW d, d.domain \in Hosts, d.more \in SUBSET Hosts
    PROVE  ClaimedDomains(d) \in SUBSET Hosts
  BY DEF ClaimedDomains, Inputs

LEMMA EventType ==
    ASSUME Bounds, events \in 0 .. MaxEvents, Event
    PROVE  events' \in 0 .. MaxEvents
  BY DEF Bounds, Event

LEMMA IdleType ==
    ASSUME Bounds
    PROVE  MigrationIdle \in Migrations
  <1>1. /\ NoDocs \in [Sites -> Documents \cup {None}] /\ 0 \in 0 .. MaxAttempts - 1
        /\ 0 \in 0 .. MaxRounds
    BY DEF NoDocs, Bounds
  <1> QED  BY <1>1 DEF MigrationIdle, Migrations

LEMMA InitSites ==
    ASSUME Bounds, Inputs, Distinct, WebsitesInit
    PROVE  SitesInv
  <1> DEFINE Old == [domain : Hosts, more : SUBSET Hosts, claims : {None}]
  <1>1. website \in [Sites -> Old \cup {None}]
    BY DEF WebsitesInit, Inputs
  <1>2. /\ website \in [Sites -> Documents \cup {None}]
        /\ \A s \in Stored(website) : website[s].claims = None
    <2>1. \A d \in Old : d \in Documents
      <3> SUFFICES ASSUME NEW d \in Old
                   PROVE  d \in Documents
        OBVIOUS
      <3>1. d = [domain |-> d.domain, more |-> d.more, claims |-> d.claims]
        OBVIOUS
      <3>2. d.domain \in Hosts /\ d.more \in SUBSET Hosts /\ d.claims = None
        OBVIOUS
      <3> QED  BY <3>1, <3>2 DEF Documents
    <2>2. \A d \in Old : d.claims = None
      OBVIOUS
    <2> HIDE DEF Old
    <2>3. website \in [Sites -> Documents \cup {None}]
      BY <1>1, <2>1
    <2>4. \A s \in Stored(website) : website[s] \in Old
      BY <1>1 DEF Stored
    <2> QED  BY <2>2, <2>3, <2>4
  <1>3. NoRequest \in SiteRequests /\ NoRequest.at = "new"
    <2>1. {} \in SUBSET Hosts
      OBVIOUS
    <2>2. \A c \in Sites \cup {None}, d \in Hosts \cup {None},
             m \in (SUBSET Hosts) \cup {None}, l \in SUBSET Hosts :
             [at |-> "new", site |-> c, domain |-> d, more |-> m, left |-> l] \in SiteRequests
      BY DEF SiteRequests
    <2> QED  BY <2>1, <2>2 DEF NoRequest
  <1> HIDE DEF Old
  <1>4. /\ MigrationIdle \in Migrations /\ MigrationIdle.at = "idle"
        /\ MigrationIdle.doc = None
    BY IdleType DEF MigrationIdle
  <1>5. WebsitesTypeOK
    <2>1. request \in [Requests -> SiteRequests] /\ migration \in Migrations
      BY <1>3, <1>4 DEF WebsitesInit
    <2>2. indexed \in BOOLEAN
      BY DEF WebsitesInit
    <2>3. events \in 0 .. MaxEvents
      BY DEF WebsitesInit, Bounds
    <2>4. tampered \in SUBSET Sites
      BY DEF WebsitesInit
    <2> QED  BY <1>2, <2>1, <2>2, <2>3, <2>4, IsTyped
  <1>6. /\ \A r \in Requests : ServedHere(r)
        /\ Phased
    BY <1>3, <1>4 DEF WebsitesInit, ServedHere, Phased
  <1>7. Indexing /\ Claimed
    BY <1>2, <1>4 DEF WebsitesInit, Indexing, Claimed, ClaimsFollowNames, SuccessOpensGate, Phase
  <1> QED  BY <1>5, <1>6, <1>7 DEF SitesInv

-----------------------------------------------------------------------------
(* What a step leaves alone. *)

LEMMA WebsitesKept ==
    ASSUME SitesInv, UNCHANGED <<website, indexed, tampered>>,
           Phase("succeeded")' => Phase("succeeded")
    PROVE  Indexing' /\ Claimed'
  <1>1. Indexing' /\ ClaimsFollowNames'
    BY DEF SitesInv, Indexing, Claimed, ClaimsFollowNames, Unique, Stored
  <1>2. SuccessOpensGate'
    BY DEF SitesInv, Claimed, SuccessOpensGate, Stored
  <1> QED  BY <1>1, <1>2 DEF Claimed

LEMMA RequestsKept ==
    ASSUME SitesInv, UNCHANGED request, indexed => indexed'
    PROVE  \A r \in Requests : ServedHere(r)'
  BY DEF SitesInv, ServedHere

LEMMA MigrationKept ==
    ASSUME SitesInv, UNCHANGED migration, indexed => indexed'
    PROVE  Phased' /\ (Phase("succeeded")' => Phase("succeeded"))
  BY DEF SitesInv, Phased, Phase, Stored

(* A document is written, or deleted, where the indexes let it be. *)
LEMMA WebsiteWritten ==
    ASSUME SitesInv, indexed, UNCHANGED indexed, NEW s \in Sites, NEW d,
           website' = Written(s, d), Unique(website'),
           tampered' \in {tampered, tampered \ {s}},
           d # None /\ s \notin tampered' => /\ d.claims \in {None, ClaimedDomains(d)}
                                             /\ Phase("succeeded")' => d.claims # None,
           Phase("succeeded")' => Phase("succeeded")
    PROVE  Indexing' /\ Claimed'
  <1>1. website'[s] = d /\ \A t \in Sites \ {s} : website'[t] = website[t]
    BY Typed DEF Written, SitesInv
  <1>2. \A t \in Sites \ {s} : t \notin tampered' => t \notin tampered
    OBVIOUS
  <1>3. \A t \in Stored(website') : (t = s /\ d # None) \/ (t # s /\ t \in Stored(website))
    BY <1>1 DEF Stored
  <1>4. Unique(website)' = Unique(website')
    BY DEF Unique, Stored
  <1>5. ClaimsFollowNames'
    BY <1>1, <1>2, <1>3 DEF SitesInv, Claimed, ClaimsFollowNames, Stored
  <1>6. SuccessOpensGate'
    BY <1>1, <1>2, <1>3 DEF SitesInv, Claimed, SuccessOpensGate, Stored
  <1> QED  BY <1>4, <1>5, <1>6 DEF Indexing, Claimed

-----------------------------------------------------------------------------
(* Requests. *)

LEMMA Answered ==
    ASSUME Distinct, SitesInv, NEW r \in Requests, indexed => indexed',
           NEW outcome \in {"paused", "conflict", "gone", "done"}, Answer(r, outcome)
    PROVE  /\ request' \in [Requests -> SiteRequests]
           /\ \A q \in Requests : ServedHere(q)'
  <1>1. NoRequest.at = "new" /\ [NoRequest EXCEPT !.at = outcome] \in SiteRequests
    <2>1. {} \in SUBSET Hosts
      OBVIOUS
    <2>2. [NoRequest EXCEPT !.at = outcome]
             = [at |-> outcome, site |-> None, domain |-> None, more |-> None, left |-> {}]
      BY DEF NoRequest
    <2> QED  BY <2>1, <2>2 DEF NoRequest, SiteRequests
  <1>2. [NoRequest EXCEPT !.at = outcome].at = outcome
    BY DEF NoRequest
  <1> QED  BY <1>1, <1>2, Typed DEF Answer, SitesInv, ServedHere

LEMMA Stepped ==
    ASSUME Distinct, SitesInv, NEW r \in Requests, indexed => indexed',
           NEW place \in {"check", "write"}, At(r, "gate") \/ At(r, "check"), Step(r, place)
    PROVE  /\ request' \in [Requests -> SiteRequests]
           /\ \A q \in Requests : ServedHere(q)'
  <1>1. request[r] \in SiteRequests
    BY Typed DEF SitesInv
  <1>2. [request[r] EXCEPT !.at = place] \in SiteRequests
    BY <1>1 DEF SiteRequests
  <1>3. request' = [request EXCEPT ![r] = [request[r] EXCEPT !.at = place]]
    BY Typed DEF Step, SitesInv
  <1>4. /\ request'[r].site = request[r].site /\ request'[r].domain = request[r].domain
        /\ request'[r].more = request[r].more
    BY <1>1, <1>3, Typed DEF SitesInv, SiteRequests
  <1>5. /\ request' \in [Requests -> SiteRequests]
        /\ \A q \in Requests \ {r} : request'[q] = request[q]
    BY <1>2, <1>3, Typed DEF SitesInv
  <1> QED  BY <1>4, <1>5 DEF SitesInv, ServedHere, At

(* Everything but the requests is as it was. *)
LEMMA OnlyRequests ==
    ASSUME Bounds, SitesInv, UNCHANGED <<website, indexed, migration, tampered>>,
           request' \in [Requests -> SiteRequests], \A q \in Requests : ServedHere(q)',
           UNCHANGED events \/ Event
    PROVE  SitesInv'
  <1>1. events' \in 0 .. MaxEvents
    BY Typed, EventType DEF SitesInv
  <1>2. WebsitesTypeOK'
    BY <1>1, Typed, IsTypedNext DEF SitesInv
  <1>3. Phased' /\ (Phase("succeeded")' => Phase("succeeded"))
    BY MigrationKept
  <1> QED  BY <1>2, <1>3, WebsitesKept DEF SitesInv

LEMMA NamedType ==
    ASSUME Distinct, NEW c, c.domain \in Hosts \cup {None}, c.more \in (SUBSET Hosts) \cup {None}
    PROVE  Named(c) \in SUBSET Hosts
  BY DEF Named

LEMMA RegisterKeeps ==
    ASSUME Bounds, Inputs, Distinct, SitesInv, NEW r \in Requests, Register(r)
    PROVE  SitesInv'
  <1>1. PICK c \in Registrations : request' = [request EXCEPT ![r] =
            [at |-> "gate", site |-> None, domain |-> c.domain, more |-> c.more,
             left |-> Named(c)]]
    BY DEF Register
  <1>2. c.domain \in Hosts /\ c.more \in SUBSET Hosts
    BY DEF Inputs
  <1>3. Named(c) \in SUBSET Hosts
    BY <1>2, NamedType
  <1>4. [at |-> "gate", site |-> None, domain |-> c.domain, more |-> c.more,
         left |-> Named(c)] \in SiteRequests
    BY <1>2, <1>3 DEF SiteRequests
  <1>5. indexed /\ UNCHANGED <<website, indexed, migration, tampered>> /\ Event
    BY DEF Register, Served
  <1>6. request' \in [Requests -> SiteRequests]
    BY <1>1, <1>4, Typed DEF SitesInv
  <1>7. \A q \in Requests : ServedHere(q)'
    BY <1>1, <1>2, <1>5, Typed DEF SitesInv, ServedHere, Distinct
  <1> QED  BY <1>5, <1>6, <1>7, OnlyRequests

LEMMA UpdateWebsiteKeeps ==
    ASSUME Bounds, Inputs, Distinct, SitesInv, NEW r \in Requests, UpdateWebsite(r)
    PROVE  SitesInv'
  <1>1. PICK c \in Renamings, s \in Stored(website) : request' = [request EXCEPT ![r] =
            [at |-> IF c.domain = None /\ c.more = None THEN "write" ELSE "gate",
             site |-> s, domain |-> c.domain, more |-> c.more, left |-> Named(c)]]
    BY DEF UpdateWebsite
  <1>2. c.domain \in Hosts \cup {None} /\ c.more \in (SUBSET Hosts) \cup {None}
    BY DEF Inputs
  <1>3. Named(c) \in SUBSET Hosts
    BY <1>2, NamedType
  <1>4. [at |-> IF c.domain = None /\ c.more = None THEN "write" ELSE "gate",
         site |-> s, domain |-> c.domain, more |-> c.more, left |-> Named(c)] \in SiteRequests
    BY <1>2, <1>3 DEF SiteRequests, Stored
  <1>5. indexed /\ UNCHANGED <<website, indexed, migration, tampered>> /\ Event
    BY DEF UpdateWebsite, Served
  <1>6. request' \in [Requests -> SiteRequests]
    BY <1>1, <1>4, Typed DEF SitesInv
  <1>7. s # None
    BY DEF Stored, Distinct
  <1>8. \A q \in Requests : ServedHere(q)'
    BY <1>1, <1>5, <1>7, Typed DEF SitesInv, ServedHere
  <1> QED  BY <1>5, <1>6, <1>8, OnlyRequests

LEMMA GateKeeps ==
    ASSUME Bounds, Distinct, SitesInv, NEW r \in Requests, EnsureClaimsMigrated(r)
    PROVE  SitesInv'
  <1>1. UNCHANGED <<website, indexed, migration, tampered, events>>
    BY DEF EnsureClaimsMigrated, Untouched, Served
  <1>2. At(r, "gate") /\ (Answer(r, "paused") \/ Step(r, "check"))
    BY DEF EnsureClaimsMigrated
  <1>3. request' \in [Requests -> SiteRequests] /\ \A q \in Requests : ServedHere(q)'
    BY <1>1, <1>2, Answered, Stepped
  <1> QED  BY <1>1, <1>3, OnlyRequests

LEMMA CheckKeeps ==
    ASSUME Bounds, Distinct, SitesInv, NEW r \in Requests, EnsureDomainsUnclaimed(r)
    PROVE  SitesInv'
  <1>1. UNCHANGED <<website, indexed, migration, tampered, events>>
    BY DEF EnsureDomainsUnclaimed, Untouched, Served
  <1>2. /\ At(r, "check")
        /\ \/ Step(r, "write") \/ Answer(r, "conflict")
           \/ \E h \in Hosts : request' = [request EXCEPT ![r].left = @ \ {h}]
    BY Typed DEF EnsureDomainsUnclaimed, SitesInv, SiteRequests
  <1>3. CASE \E h \in Hosts : request' = [request EXCEPT ![r].left = @ \ {h}]
    <2>1. PICK h \in Hosts : request' = [request EXCEPT ![r].left = @ \ {h}]
      BY <1>3
    <2>2. request[r] \in SiteRequests
      BY Typed DEF SitesInv
    <2>3. request' = [request EXCEPT ![r] = [request[r] EXCEPT !.left = request[r].left \ {h}]]
      BY <2>1, Typed DEF SitesInv
    <2>4. [request[r] EXCEPT !.left = request[r].left \ {h}] \in SiteRequests
      BY <2>2 DEF SiteRequests
    <2>5. /\ request'[r].site = request[r].site /\ request'[r].domain = request[r].domain
          /\ request'[r].more = request[r].more /\ request'[r].at = request[r].at
      BY <2>2, <2>3, Typed DEF SitesInv, SiteRequests
    <2>6. request' \in [Requests -> SiteRequests] /\ \A q \in Requests \ {r} : request'[q] = request[q]
      BY <2>3, <2>4, Typed DEF SitesInv
    <2>7. \A q \in Requests : ServedHere(q)'
      BY <1>1, <2>5, <2>6 DEF SitesInv, ServedHere
    <2> QED  BY <1>1, <2>6, <2>7, OnlyRequests
  <1>4. CASE Step(r, "write") \/ Answer(r, "conflict")
    <2>1. request' \in [Requests -> SiteRequests] /\ \A q \in Requests : ServedHere(q)'
      BY <1>1, <1>2, <1>4, Answered, Stepped
    <2> QED  BY <1>1, <2>1, OnlyRequests
  <1> QED  BY <1>2, <1>3, <1>4

-----------------------------------------------------------------------------
(* Writes. *)

LEMMA RecordDocument ==
    ASSUME NEW dm \in Hosts, NEW m \in SUBSET Hosts, NEW cl \in (SUBSET Hosts) \cup {None}
    PROVE  [domain |-> dm, more |-> m, claims |-> cl] \in Documents
  BY DEF Documents

(* The names of a document decide its claims. *)
LEMMA SameNamesSameClaims ==
    ASSUME NEW d, NEW e, d.domain = e.domain, d.more = e.more
    PROVE  ClaimedDomains(d) = ClaimedDomains(e)
  BY DEF ClaimedDomains

LEMMA Claims ==
    ASSUME Inputs, Distinct, NEW d, d.domain \in Hosts, d.more \in SUBSET Hosts
    PROVE  ClaimedDomains(d) # None
  BY ClaimsType DEF Distinct

LEMMA CreateKeeps ==
    ASSUME Bounds, Inputs, Distinct, SitesInv, NEW r \in Requests, Create(r)
    PROVE  SitesInv'
  <1>1. UNCHANGED <<indexed, migration, events, tampered>>
    BY DEF Create, Untouched, Served
  <1>2. At(r, "write") /\ request[r].site = None
    BY DEF Create
  <1>3. PICK s \in Sites \ Stored(website) :
          \/ /\ Unique(Written(s, NewDocument(request[r])))
             /\ website' = Written(s, NewDocument(request[r])) /\ Answer(r, "done")
          \/ Answer(r, "conflict") /\ UNCHANGED website
    BY DEF Create
  <1>4. request' \in [Requests -> SiteRequests] /\ \A q \in Requests : ServedHere(q)'
    BY <1>1, <1>3, Answered
  <1>5. CASE Answer(r, "conflict") /\ UNCHANGED website
    BY <1>1, <1>4, <1>5, OnlyRequests
  <1>6. CASE /\ Unique(Written(s, NewDocument(request[r])))
             /\ website' = Written(s, NewDocument(request[r])) /\ Answer(r, "done")
    <2> DEFINE d == NewDocument(request[r])
    <2>1. indexed /\ request[r].domain \in Hosts /\ request[r].more \in SUBSET Hosts
      BY <1>2, Typed DEF SitesInv, ServedHere, At, SiteRequests
    <2>2. /\ ClaimedDomains(request[r]) \in SUBSET Hosts
          /\ ClaimedDomains(request[r]) # None
      BY <2>1, ClaimsType, Claims
    <2>3. /\ d.domain = request[r].domain /\ d.more = request[r].more
          /\ d.claims = ClaimedDomains(request[r])
      BY DEF NewDocument
    <2>4. d \in Documents
      BY <2>1, <2>2, RecordDocument DEF NewDocument
    <2>5. d.claims = ClaimedDomains(d)
      BY <2>3, SameNamesSameClaims
    <2> HIDE DEF d
    <2>6. Unique(website') /\ website' = Written(s, d)
      BY <1>6 DEF d
    <2>7. Phased' /\ (Phase("succeeded")' => Phase("succeeded"))
      BY <1>1, MigrationKept
    <2>8. Indexing' /\ Claimed'
      BY <1>1, <2>1, <2>2, <2>3, <2>5, <2>6, <2>7, WebsiteWritten
    <2>9. website' \in [Sites -> Documents \cup {None}]
      BY <2>4, <2>6, Typed DEF Written, SitesInv
    <2>10. WebsitesTypeOK'
      BY <1>1, <1>4, <2>9, Typed, IsTypedNext DEF SitesInv
    <2> QED  BY <1>4, <2>7, <2>8, <2>10 DEF SitesInv
  <1> QED  BY <1>3, <1>5, <1>6

(* What an update writes has its own names for claims, if it names any. *)
LEMMA UpdatedType ==
    ASSUME Inputs, Distinct, NEW d \in Documents, NEW c,
           c.domain \in Hosts \cup {None}, c.more \in (SUBSET Hosts) \cup {None}
    PROVE  /\ Updated(d, c) \in Documents
           /\ c.domain = None /\ c.more = None => Updated(d, c) = d
           /\ ~(c.domain = None /\ c.more = None) =>
                Updated(d, c).claims = ClaimedDomains(Updated(d, c))
  <1>1. PICK a \in Hosts, m \in SUBSET Hosts, k \in (SUBSET Hosts) \cup {None} :
          d = [domain |-> a, more |-> m, claims |-> k]
    BY DEF Documents
  <1> DEFINE dm == IF c.domain = None THEN a ELSE c.domain
             mr == IF c.more = None THEN m ELSE c.more
             e  == [domain |-> dm, more |-> mr, claims |-> k]
             f  == [domain |-> dm, more |-> mr, claims |-> ClaimedDomains(e)]
  <1>2. Updated(d, c) = IF c.domain = None /\ c.more = None THEN e ELSE f
    <2> DEFINE g  == [[domain |-> a, more |-> m, claims |-> k] EXCEPT
                       !.domain = IF c.domain = None THEN a ELSE c.domain,
                       !.more = IF c.more = None THEN m ELSE c.more]
               k2 == ClaimedDomains(e)
    <2>1. g = e
      <3>1. g = [[[domain |-> a, more |-> m, claims |-> k] EXCEPT !.domain = dm]
                   EXCEPT !.more = mr]
        BY Zenon
      <3> HIDE DEF dm, mr, g
      <3>2. [[domain |-> a, more |-> m, claims |-> k] EXCEPT !.domain = dm]
              = [domain |-> dm, more |-> m, claims |-> k]
        OBVIOUS
      <3>3. [[domain |-> dm, more |-> m, claims |-> k] EXCEPT !.more = mr]
              = [domain |-> dm, more |-> mr, claims |-> k]
        OBVIOUS
      <3> QED  BY <3>1, <3>2, <3>3, Zenon
    <2>2. [e EXCEPT !.claims = k2] = f
      <3> HIDE DEF k2, dm, mr
      <3>1. [[domain |-> dm, more |-> mr, claims |-> k] EXCEPT !.claims = k2]
              = [domain |-> dm, more |-> mr, claims |-> k2]
        OBVIOUS
      <3> QED  BY <3>1 DEF k2
    <2>3. Updated([domain |-> a, more |-> m, claims |-> k], c)
            = IF c.domain = None /\ c.more = None THEN g
              ELSE [g EXCEPT !.claims = ClaimedDomains(g)]
      BY DEF Updated
    <2> HIDE DEF e, f, g, dm, mr
    <2>4. [g EXCEPT !.claims = ClaimedDomains(g)] = f
      BY <2>1, <2>2, Zenon DEF k2
    <2> QED  BY <1>1, <2>1, <2>3, <2>4, Zenon
  <1>3. dm \in Hosts /\ mr \in SUBSET Hosts
    OBVIOUS
  <1>4. c.domain = None /\ c.more = None => e = d
    BY <1>1
  <1> HIDE DEF dm, mr
  <1>5. e \in Documents /\ e.domain = dm /\ e.more = mr
    BY <1>3, RecordDocument
  <1>6. ClaimedDomains(e) \in SUBSET Hosts
    BY <1>3, <1>5, ClaimsType
  <1>7. f \in Documents
    <2> DEFINE k2 == ClaimedDomains(e)
    <2>1. k2 \in (SUBSET Hosts) \cup {None}
      BY <1>6
    <2> HIDE DEF k2
    <2>2. [domain |-> dm, more |-> mr, claims |-> k2] \in Documents
      BY <1>3, <2>1, RecordDocument
    <2> QED  BY <2>2 DEF k2
  <1>8. f.domain = e.domain /\ f.more = e.more /\ f.claims = ClaimedDomains(e)
    BY <1>5
  <1> HIDE DEF e, f
  <1>9. f.claims = ClaimedDomains(f)
    BY <1>8, SameNamesSameClaims
  <1> QED  BY <1>2, <1>4, <1>5, <1>7, <1>9

LEMMA UpdateKeeps ==
    ASSUME Bounds, Inputs, Distinct, SitesInv, NEW r \in Requests, Update(r)
    PROVE  SitesInv'
  <1> DEFINE s == request[r].site
             c == request[r]
             d == Updated(website[s], c)
  <1>1. UNCHANGED <<indexed, migration, events>> /\ At(r, "write") /\ s # None
    BY DEF Update, Untouched, Served
  <1>2. request[r] \in SiteRequests
    BY Typed DEF SitesInv
  <1>3. /\ indexed /\ s \in Sites
        /\ c.domain \in Hosts \cup {None} /\ c.more \in (SUBSET Hosts) \cup {None}
    BY <1>1, <1>2 DEF SitesInv, ServedHere, At, SiteRequests
  <1>4. \/ (Answer(r, "gone") \/ Answer(r, "conflict")) /\ UNCHANGED <<website, tampered>>
        \/ /\ website[s] # None /\ Unique(Written(s, d)) /\ website' = Written(s, d)
           /\ tampered' = IF Named(c) = {} /\ c.more = None THEN tampered ELSE tampered \ {s}
           /\ Answer(r, "done")
    BY DEF Update
  <1>5. request' \in [Requests -> SiteRequests] /\ \A q \in Requests : ServedHere(q)'
    BY <1>1, <1>4, Answered
  <1>6. CASE (Answer(r, "gone") \/ Answer(r, "conflict")) /\ UNCHANGED <<website, tampered>>
    BY <1>1, <1>5, <1>6, OnlyRequests
  <1>7. CASE /\ website[s] # None /\ Unique(Written(s, d)) /\ website' = Written(s, d)
             /\ tampered' = IF Named(c) = {} /\ c.more = None THEN tampered ELSE tampered \ {s}
             /\ Answer(r, "done")
    <2>1. website[s] \in Documents /\ s \in Stored(website)
      BY <1>3, <1>7, Typed DEF SitesInv, Stored
    <2>2. /\ d \in Documents
          /\ c.domain = None /\ c.more = None => d = website[s]
          /\ ~(c.domain = None /\ c.more = None) => d.claims = ClaimedDomains(d)
      BY <1>3, <2>1, UpdatedType
    <2>3. tampered' = IF c.domain = None /\ c.more = None THEN tampered ELSE tampered \ {s}
      <3>1. c.domain = None /\ c.more = None => Named(c) = {}
        BY DEF Named
      <3>2. c.domain # None => Named(c) # {}
        BY DEF Named
      <3> QED  BY <1>7, <3>1, <3>2
    <2>4. d.domain \in Hosts /\ d.more \in SUBSET Hosts
      BY <2>2 DEF Documents
    <2>5. ClaimedDomains(d) # None
      BY <2>4, Claims
    <2>6. Unique(website') /\ website' = Written(s, d)
      BY <1>7
    <2>7. Phased' /\ (Phase("succeeded")' => Phase("succeeded"))
      BY <1>1, MigrationKept
    <2>8. d # None /\ s \notin tampered' => /\ d.claims \in {None, ClaimedDomains(d)}
                                            /\ Phase("succeeded")' => d.claims # None
      <3>1. CASE c.domain = None /\ c.more = None
        <4>1. d = website[s] /\ tampered' = tampered
          BY <2>2, <2>3, <3>1
        <4> QED  BY <2>1, <2>7, <4>1 DEF SitesInv, Claimed, ClaimsFollowNames, SuccessOpensGate
      <3>2. CASE ~(c.domain = None /\ c.more = None)
        BY <2>2, <2>5, <3>2
      <3> QED  BY <3>1, <3>2
    <2>9. website' \in [Sites -> Documents \cup {None}] /\ tampered' \in SUBSET Sites
      BY <1>3, <2>2, <2>3, <2>6, Typed DEF Written, SitesInv
    <2>10. tampered' \in {tampered, tampered \ {s}}
      BY <2>3
    <2> HIDE DEF d, s, c
    <2>11. Indexing' /\ Claimed'
      BY <1>1, <1>3, <2>6, <2>7, <2>8, <2>10, WebsiteWritten
    <2>12. WebsitesTypeOK'
      BY <1>1, <1>5, <2>9, Typed, IsTypedNext DEF SitesInv
    <2> QED  BY <1>5, <2>7, <2>11, <2>12 DEF SitesInv
  <1> QED  BY <1>4, <1>6, <1>7

LEMMA DeleteKeeps ==
    ASSUME Bounds, Inputs, Distinct, SitesInv, DeleteWebsite
    PROVE  SitesInv'
  <1>1. indexed /\ UNCHANGED <<indexed, migration, request>> /\ Event
    BY DEF DeleteWebsite, Served
  <1>2. PICK s \in Stored(website) :
          website' = Written(s, None) /\ tampered' = tampered \ {s}
    BY DEF DeleteWebsite
  <1>3. s \in Sites
    BY DEF Stored
  <1>4. website' \in [Sites -> Documents \cup {None}] /\ tampered' \in SUBSET Sites
    BY <1>2, Typed DEF Written, SitesInv
  <1>5. Unique(website')
    <2>1. \A t \in Stored(website') : t \in Stored(website) /\ website'[t] = website[t]
      BY <1>2, <1>3, Typed DEF Written, SitesInv, Stored
    <2>2. Unique(website)
      BY <1>1 DEF SitesInv, Indexing
    <2> QED  BY <2>1, <2>2 DEF Unique
  <1>6. Phased' /\ (Phase("succeeded")' => Phase("succeeded"))
    BY <1>1, MigrationKept
  <1>7. Indexing' /\ Claimed'
    BY <1>1, <1>2, <1>3, <1>5, <1>6, WebsiteWritten
  <1>8. events' \in 0 .. MaxEvents
    BY <1>1, Typed, EventType DEF SitesInv
  <1>9. WebsitesTypeOK'
    BY <1>1, <1>4, <1>8, Typed, IsTypedNext DEF SitesInv
  <1> QED  BY <1>1, <1>6, <1>7, <1>9, RequestsKept DEF SitesInv

LEMMA OldWriteKeeps ==
    ASSUME Bounds, Inputs, Distinct, SitesInv, OldWrite
    PROVE  SitesInv'
  <1>1. UNCHANGED <<indexed, migration, request>> /\ Event
    BY DEF OldWrite
  <1> DEFINE Kept(s) == IF website[s] = None THEN None ELSE website[s].claims
             Old(s, c) == [domain |-> c.domain, more |-> c.more, claims |-> Kept(s)]
  <1>2. PICK s \in Sites, c \in Registrations :
          /\ Unique(Written(s, Old(s, c))) /\ website' = Written(s, Old(s, c))
          /\ tampered' = tampered \cup {s}
    BY DEF OldWrite
  <1>3. c.domain \in Hosts /\ c.more \in SUBSET Hosts
    BY DEF Inputs
  <1>4. Kept(s) \in (SUBSET Hosts) \cup {None}
    BY Typed DEF SitesInv, Documents
  <1>5. ~indexed => Kept(s) = None
    BY DEF SitesInv, Indexing, Stored
  <1> DEFINE d == Old(s, c)
  <1> HIDE DEF Kept
  <1>6. d \in Documents /\ d.claims = Kept(s)
    BY <1>3, <1>4, RecordDocument
  <1> HIDE DEF New, d
  <1>7. Unique(website') /\ website' = Written(s, d)
    BY <1>2 DEF d
  <1>8. website' \in [Sites -> Documents \cup {None}] /\ tampered' \in SUBSET Sites
    BY <1>2, <1>6, <1>7, Typed DEF Written, SitesInv
  <1>9. website'[s] = d /\ \A t \in Sites \ {s} : website'[t] = website[t]
    BY <1>7, Typed DEF Written, SitesInv
  <1>10. \A t \in Sites \ tampered' : t # s /\ t \notin tampered
    BY <1>2
  <1>11. Phased' /\ (Phase("succeeded")' => Phase("succeeded"))
    BY <1>1, MigrationKept
  <1>12. Indexing'
    <2>1. Unique(website)' = Unique(website')
      BY DEF Unique, Stored
    <2>2. ~indexed' => \A t \in Stored(website') : website'[t].claims = None
      BY <1>1, <1>5, <1>6, <1>9 DEF SitesInv, Indexing, Stored
    <2> QED  BY <1>7, <2>1, <2>2 DEF Indexing, Stored
  <1>13. ClaimsFollowNames'
    BY <1>9, <1>10 DEF SitesInv, Claimed, ClaimsFollowNames, Stored
  <1>14. SuccessOpensGate'
    BY <1>9, <1>10, <1>11 DEF SitesInv, Claimed, SuccessOpensGate, Stored
  <1>15. events' \in 0 .. MaxEvents
    BY <1>1, Typed, EventType DEF SitesInv
  <1>16. WebsitesTypeOK'
    BY <1>1, <1>8, <1>15, Typed, IsTypedNext DEF SitesInv
  <1> QED  BY <1>1, <1>11, <1>12, <1>13, <1>14, <1>16, RequestsKept DEF SitesInv, Claimed

LEMMA StartKeeps ==
    ASSUME Bounds, SitesInv, Start
    PROVE  SitesInv'
  <1>1. Unique(website) /\ indexed' = TRUE /\ UNCHANGED <<website, request, migration, events, tampered>>
    BY DEF Start
  <1>2. Phased' /\ (Phase("succeeded")' => Phase("succeeded"))
    BY <1>1, MigrationKept
  <1>3. Indexing'
    BY <1>1 DEF Indexing, Unique, Stored
  <1>4. ClaimsFollowNames' /\ SuccessOpensGate'
    BY <1>1, <1>2 DEF SitesInv, Claimed, ClaimsFollowNames, SuccessOpensGate, Stored
  <1>5. WebsitesTypeOK'
    BY <1>1, Typed, IsTypedNext DEF SitesInv
  <1> QED  BY <1>1, <1>2, <1>3, <1>4, <1>5, RequestsKept DEF SitesInv, Claimed

-----------------------------------------------------------------------------
(* The migration. *)

(* A step of the migration that writes nothing and does not report success. *)
LEMMA OnlyMigration ==
    ASSUME Bounds, SitesInv, UNCHANGED <<website, indexed, request, tampered>>,
           UNCHANGED events \/ Event,
           migration' \in Migrations, Phased', ~Phase("succeeded")'
    PROVE  SitesInv'
  <1>1. events' \in 0 .. MaxEvents
    BY Typed, EventType DEF SitesInv
  <1>2. WebsitesTypeOK'
    BY <1>1, Typed, IsTypedNext DEF SitesInv
  <1> QED  BY <1>2, WebsitesKept, RequestsKept DEF SitesInv

LEMMA IdleAt ==
    ASSUME Bounds, NEW p \in {"read", "failed", "succeeded"}
    PROVE  /\ [MigrationIdle EXCEPT !.at = p] \in Migrations
           /\ [MigrationIdle EXCEPT !.at = p].at = p
           /\ [MigrationIdle EXCEPT !.at = p].doc = None
  <1>1. MigrationIdle \in Migrations
    BY IdleType
  <1> QED  BY <1>1 DEF MigrationIdle, Migrations

LEMMA BeginKeeps ==
    ASSUME Bounds, SitesInv, Begin
    PROVE  SitesInv'
  <1>1. /\ migration' = [MigrationIdle EXCEPT !.at = "read"]
        /\ UNCHANGED <<website, indexed, request, events, tampered>>
    BY DEF Begin, Migrate
  <1>2. migration' \in Migrations /\ migration'.at = "read" /\ migration'.doc = None
    BY <1>1, IdleAt
  <1> QED  BY <1>1, <1>2, OnlyMigration DEF Phased, Phase

LEMMA InterruptKeeps ==
    ASSUME Bounds, SitesInv, Interrupt
    PROVE  SitesInv'
  <1>1. /\ migration' = [MigrationIdle EXCEPT !.at = "failed"] /\ Event
        /\ UNCHANGED <<website, indexed, request, tampered>>
    BY DEF Interrupt
  <1>2. migration' \in Migrations /\ migration'.at = "failed" /\ migration'.doc = None
    BY <1>1, IdleAt
  <1> QED  BY <1>1, <1>2, OnlyMigration DEF Phased, Phase

LEMMA ReadKeeps ==
    ASSUME Bounds, SitesInv, UNCHANGED <<website, indexed, tampered>>,
           \/ ReadWithConfirmedDuplicates("read", "index")
           \/ ReadWithConfirmedDuplicates("reread", "stale")
    PROVE  SitesInv'
  <1>1. migration \in Migrations
    BY Typed DEF SitesInv
  <1>2. UNCHANGED <<request, events>>
    BY DEF ReadWithConfirmedDuplicates, Migrate
  <1>3. \/ /\ Phase("read")
           /\ migration' = [migration EXCEPT !.at = "read-again"]
        \/ /\ Phase("reread")
           /\ migration' = [migration EXCEPT !.at = "reread-again"]
        \/ /\ Phase("read") \/ Phase("read-again")
           /\ migration' = [migration EXCEPT !.docs = website, !.at = "index"]
        \/ /\ Phase("reread") \/ Phase("reread-again")
           /\ migration' = [migration EXCEPT !.docs = website, !.at = "stale"]
        \/ /\ Phase("read-again") \/ Phase("reread-again")
           /\ migration' = [migration EXCEPT !.at = "failed"]
    BY DEF ReadWithConfirmedDuplicates, Migrate, Again
  <1>4. migration.doc = None
    BY <1>3 DEF SitesInv, Phased, Phase
  <1>5. Phase("reread") \/ Phase("reread-again") => indexed
    BY DEF SitesInv, Phased, Phase
  <1>6. ASSUME NEW p \in {"read-again", "reread-again", "failed"},
               migration' = [migration EXCEPT !.at = p],
               p = "reread-again" => indexed
        PROVE  SitesInv'
    <2>1. migration' \in Migrations
      BY <1>1, <1>6 DEF Migrations
    <2>2. migration'.at = p /\ migration'.doc = None
      BY <1>1, <1>4, <1>6 DEF Migrations
    <2>3. Phased' /\ ~Phase("succeeded")'
      BY <1>6, <2>2 DEF Phased, Phase
    <2> QED  BY <1>2, <2>1, <2>3, OnlyMigration
  <1>7. ASSUME NEW p \in {"index", "stale"},
               migration' = [migration EXCEPT !.docs = website, !.at = p],
               p = "stale" => indexed
        PROVE  SitesInv'
    <2>1. website \in [Sites -> Documents \cup {None}]
      BY Typed DEF SitesInv
    <2>2. migration' = [[migration EXCEPT !.docs = website] EXCEPT !.at = p]
      BY <1>7, Zenon
    <2>3. [migration EXCEPT !.docs = website] \in Migrations
      BY <1>1, <2>1 DEF Migrations
    <2>4. migration' \in Migrations
      BY <2>2, <2>3 DEF Migrations
    <2>5. migration'.at = p /\ migration'.doc = None
      BY <1>1, <1>4, <1>7 DEF Migrations
    <2>6. Phased' /\ ~Phase("succeeded")'
      BY <1>7, <2>5 DEF Phased, Phase
    <2> QED  BY <1>2, <2>4, <2>6, OnlyMigration
  <1> QED  BY <1>3, <1>5, <1>6, <1>7

LEMMA IndexesKeep ==
    ASSUME Bounds, SitesInv, EnsureIndexes
    PROVE  SitesInv'
  <1>1. Phase("index") /\ UNCHANGED <<website, request, events, tampered>>
    BY DEF EnsureIndexes, Migrate
  <1>2. \/ migration' = [MigrationIdle EXCEPT !.at = "failed"] /\ UNCHANGED indexed
        \/ /\ Unique(website) /\ indexed' = TRUE
           /\ migration' = [migration EXCEPT !.at = "reread", !.docs = NoDocs]
    BY DEF EnsureIndexes, Migrate
  <1>3. CASE migration' = [MigrationIdle EXCEPT !.at = "failed"] /\ UNCHANGED indexed
    <2>1. migration' \in Migrations /\ migration'.at = "failed" /\ migration'.doc = None
      BY <1>3, IdleAt
    <2> QED  BY <1>1, <1>3, <2>1, OnlyMigration DEF Phased, Phase
  <1>4. CASE /\ Unique(website) /\ indexed' = TRUE
             /\ migration' = [migration EXCEPT !.at = "reread", !.docs = NoDocs]
    <2>1. migration \in Migrations /\ NoDocs \in [Sites -> Documents \cup {None}]
      BY Typed DEF SitesInv, NoDocs
    <2>2. migration' = [[migration EXCEPT !.docs = NoDocs] EXCEPT !.at = "reread"]
      <3>1. migration' = [migration EXCEPT !.at = "reread", !.docs = NoDocs]
        BY <1>4
      <3> QED  BY <2>1, <3>1 DEF Migrations
    <2>3. [migration EXCEPT !.docs = NoDocs] \in Migrations
      BY <2>1 DEF Migrations
    <2>4. migration' \in Migrations /\ migration'.at = "reread"
      BY <2>2, <2>3 DEF Migrations
    <2>5. migration.doc = None
      BY <1>1 DEF SitesInv, Phased, Phase
    <2>6. migration'.doc = None
      BY <2>1, <2>2, <2>5 DEF Migrations
    <2>7. Phased'
      BY <1>4, <2>4, <2>6 DEF Phased
    <2>8. Indexing'
      BY <1>1, <1>4 DEF Indexing, Unique, Stored
    <2>9. ClaimsFollowNames' /\ SuccessOpensGate'
      BY <1>1, <2>4 DEF SitesInv, Claimed, ClaimsFollowNames, SuccessOpensGate, Stored, Phase
    <2>10. WebsitesTypeOK'
      BY <1>1, <1>4, <2>4, Typed, IsTypedNext DEF SitesInv
    <2> QED  BY <1>1, <1>4, <2>7, <2>8, <2>9, <2>10, RequestsKept DEF SitesInv, Claimed
  <1> QED  BY <1>2, <1>3, <1>4

LEMMA PlanKeeps ==
    ASSUME Bounds, SitesInv, Plan
    PROVE  SitesInv'
  <1> DEFINE todo == NotCurrent(migration.docs)
             p == IF todo = {} /\ migration.rounds > 0 THEN "count" ELSE "backfill"
  <1>1. /\ Phase("stale") /\ UNCHANGED <<website, indexed, request, events, tampered>>
        /\ migration' = [migration EXCEPT !.left = todo, !.attempts = 0, !.at = p]
    BY DEF Plan, Migrate
  <1>2. migration \in Migrations /\ migration.doc = None /\ indexed
    BY <1>1, Typed DEF SitesInv, Phased, Phase
  <1>3. todo \in SUBSET Sites /\ todo \subseteq Stored(migration.docs)
    BY DEF NotCurrent, Stored
  <1>4. p \in {"count", "backfill"} /\ 0 \in 0 .. MaxAttempts - 1
    BY DEF Bounds
  <1> HIDE DEF todo, p
  <1>5. /\ migration' \in Migrations /\ migration'.at = p /\ migration'.doc = None
        /\ migration'.left = todo /\ migration'.docs = migration.docs
    BY <1>1, <1>2, <1>3, <1>4 DEF Migrations
  <1>6. Phased' /\ ~Phase("succeeded")'
    BY <1>1, <1>2, <1>3, <1>4, <1>5 DEF Phased, Phase, Stored
  <1> QED  BY <1>1, <1>5, <1>6, OnlyMigration

LEMMA RoundKeeps ==
    ASSUME Bounds, SitesInv, EndOfBackfill
    PROVE  SitesInv'
  <1>1. /\ Phase("backfill") /\ migration.left = {}
        /\ UNCHANGED <<website, indexed, request, events, tampered>>
        /\ \/ migration' = [migration EXCEPT !.at = "count", !.docs = NoDocs]
           \/ /\ migration.rounds # MaxRounds
              /\ migration' = [migration EXCEPT !.at = "reread", !.docs = NoDocs, !.rounds = @ + 1]
    BY DEF EndOfBackfill, Migrate
  <1>2. migration \in Migrations /\ indexed
    BY <1>1, Typed DEF SitesInv, Phased, Phase
  <1>3. migration.doc = None
    BY <1>1 DEF SitesInv, Phased, Phase
  <1>4. NoDocs \in [Sites -> Documents \cup {None}]
    BY DEF NoDocs
  <1>5. migration.rounds # MaxRounds => migration.rounds + 1 \in 0 .. MaxRounds
    <2>1. migration.rounds \in 0 .. MaxRounds
      BY <1>2 DEF Migrations
    <2> QED  BY <2>1 DEF Bounds
  <1>6. CASE migration' = [migration EXCEPT !.at = "count", !.docs = NoDocs]
    <2>1. migration' \in Migrations /\ migration'.at = "count" /\ migration'.doc = None
      BY <1>2, <1>3, <1>4, <1>6 DEF Migrations
    <2> QED  BY <1>1, <2>1, OnlyMigration DEF Phased, Phase
  <1>7. CASE /\ migration.rounds # MaxRounds
             /\ migration' = [migration EXCEPT !.at = "reread", !.docs = NoDocs, !.rounds = @ + 1]
    <2>1. migration' \in Migrations /\ migration'.at = "reread" /\ migration'.doc = None
      BY <1>2, <1>3, <1>4, <1>5, <1>7 DEF Migrations
    <2> QED  BY <1>1, <1>2, <2>1, OnlyMigration DEF Phased, Phase
  <1> QED  BY <1>1, <1>6, <1>7

(* A document that is done with leaves the list. *)
LEMMA Dropped ==
    ASSUME Bounds, SitesInv, NEW s, NEW b \in BOOLEAN, indexed,
           Phase("backfill") \/ Phase("refind"), migration.doc \in {None, s},
           UNCHANGED indexed,
           \/ migration' = [migration EXCEPT !.left = migration.left \ {s}, !.attempts = 0,
                                             !.doc = None]
           \/ migration' = [migration EXCEPT !.left = migration.left \ {s}, !.attempts = 0,
                                             !.doc = None, !.conflicts = b]
           \/ migration' = [migration EXCEPT !.at = "backfill", !.left = migration.left \ {s},
                                             !.attempts = 0, !.doc = None]
           \/ migration' = [migration EXCEPT !.at = "backfill", !.left = migration.left \ {s},
                                             !.attempts = 0, !.doc = None, !.conflicts = b],
           Phase("refind") => migration'.at = "backfill"
    PROVE  /\ migration' \in Migrations /\ Phased' /\ ~Phase("succeeded")'
  <1>1. migration \in Migrations /\ 0 \in 0 .. MaxAttempts - 1
    BY Typed DEF SitesInv, Bounds
  <1>2. /\ migration' \in Migrations /\ migration'.doc = None
        /\ migration'.left = migration.left \ {s} /\ migration'.docs = migration.docs
        /\ migration'.at \in {migration.at, "backfill"}
    BY <1>1 DEF Migrations
  <1>3. migration.left \subseteq Stored(migration.docs)
    BY DEF SitesInv, Phased, Phase
  <1>4. migration'.at = "backfill"
    BY <1>2 DEF Phase
  <1> QED  BY <1>2, <1>3, <1>4 DEF Phased, Phase, Stored

LEMMA BackfillKeeps ==
    ASSUME Bounds, Inputs, Distinct, SitesInv, NEW s \in Sites, Backfill(s)
    PROVE  SitesInv'
  <1> DEFINE read == migration.docs[s]
             d == [website[s] EXCEPT !.claims = ClaimedDomains(read)]
             others == migration.left \ {s}
  <1>1. /\ Phase("backfill") /\ s \in migration.left /\ migration.doc \in {None, s}
        /\ UNCHANGED <<indexed, request, events>>
        /\ \/ /\ Matches(website[s], read) /\ Unique(Written(s, d))
              /\ website' = Written(s, d) /\ tampered' = tampered \ {s}
              /\ migration' = [migration EXCEPT !.left = others, !.attempts = 0, !.doc = None]
           \/ /\ migration' = [[migration EXCEPT !.left = others, !.attempts = 0, !.doc = None]
                                 EXCEPT !.conflicts = TRUE]
              /\ UNCHANGED <<website, tampered>>
           \/ /\ migration' = [migration EXCEPT !.at = "refind", !.doc = s]
              /\ UNCHANGED <<website, tampered>>
    BY DEF Backfill, Migrate
  <1>2. migration \in Migrations /\ indexed
    BY <1>1, Typed DEF SitesInv, Phased, Phase
  <1>3. CASE /\ Matches(website[s], read) /\ Unique(Written(s, d))
             /\ website' = Written(s, d) /\ tampered' = tampered \ {s}
             /\ migration' = [migration EXCEPT !.left = others, !.attempts = 0, !.doc = None]
    <2>1. migration' \in Migrations /\ Phased' /\ ~Phase("succeeded")'
      BY <1>1, <1>2, <1>3, Dropped DEF Phase
    <2>2. PICK a \in Hosts, m \in SUBSET Hosts, k \in (SUBSET Hosts) \cup {None} :
            website[s] = [domain |-> a, more |-> m, claims |-> k]
      <3>1. website[s] \in Documents
        BY <1>3, Typed DEF SitesInv, Matches
      <3> QED  BY <3>1 DEF Documents
    <2> DEFINE cl == ClaimedDomains(read)
    <2>3. read.domain = a /\ read.more = m
      BY <1>3, <2>2 DEF Matches
    <2>4. cl \in SUBSET Hosts /\ cl # None
      BY <2>3, ClaimsType, Claims
    <2>5. d = [domain |-> a, more |-> m, claims |-> cl]
      <3> HIDE DEF cl
      <3>1. d = [[domain |-> a, more |-> m, claims |-> k] EXCEPT !.claims = cl]
        BY <2>2, Zenon DEF cl
      <3>2. [[domain |-> a, more |-> m, claims |-> k] EXCEPT !.claims = cl]
              = [domain |-> a, more |-> m, claims |-> cl]
        OBVIOUS
      <3> QED  BY <3>1, <3>2, Zenon
    <2> HIDE DEF cl, d, read, others
    <2>6. d \in Documents /\ d.domain = a /\ d.more = m /\ d.claims = cl
      BY <2>4, <2>5, RecordDocument
    <2>7. d.claims = ClaimedDomains(d)
      <3>1. d.domain = read.domain /\ d.more = read.more
        BY <2>3, <2>6
      <3> QED  BY <2>6, <3>1, SameNamesSameClaims DEF cl
    <2>8. Unique(website') /\ website' = Written(s, d)
      BY <1>3
    <2>9. tampered' \in {tampered, tampered \ {s}}
      BY <1>3
    <2>10. Indexing' /\ Claimed'
      BY <1>1, <1>2, <2>1, <2>4, <2>6, <2>7, <2>8, <2>9, WebsiteWritten
    <2>11. website' \in [Sites -> Documents \cup {None}] /\ tampered' \in SUBSET Sites
      BY <2>6, <2>8, <2>9, Typed DEF Written, SitesInv
    <2>12. WebsitesTypeOK'
      BY <1>1, <2>1, <2>11, Typed, IsTypedNext DEF SitesInv
    <2> QED  BY <1>1, <2>1, <2>10, <2>12, RequestsKept DEF SitesInv
  <1>4. CASE /\ migration' = [[migration EXCEPT !.left = others, !.attempts = 0, !.doc = None]
                                 EXCEPT !.conflicts = TRUE]
             /\ UNCHANGED <<website, tampered>>
    <2>1. migration' = [migration EXCEPT !.left = others, !.attempts = 0, !.doc = None,
                                         !.conflicts = TRUE]
      BY <1>4, Zenon
    <2>2. migration' \in Migrations /\ Phased' /\ ~Phase("succeeded")'
      BY <1>1, <1>2, <2>1, Dropped DEF Phase
    <2> QED  BY <1>1, <1>4, <2>2, OnlyMigration
  <1>5. CASE /\ migration' = [migration EXCEPT !.at = "refind", !.doc = s]
             /\ UNCHANGED <<website, tampered>>
    <2>1. /\ migration' \in Migrations /\ migration'.at = "refind" /\ migration'.doc = s
          /\ migration'.left = migration.left /\ migration'.docs = migration.docs
      BY <1>2, <1>5 DEF Migrations
    <2>2. s # None
      BY DEF Distinct
    <2>3. migration.left \subseteq Stored(migration.docs)
      BY <1>1 DEF SitesInv, Phased, Phase
    <2>4. Phased' /\ ~Phase("succeeded")'
      BY <1>1, <1>2, <2>1, <2>2, <2>3 DEF Phased, Phase, Stored
    <2> QED  BY <1>1, <1>5, <2>1, <2>4, OnlyMigration
  <1> QED  BY <1>1, <1>3, <1>4, <1>5

LEMMA RefindKeeps ==
    ASSUME Bounds, Distinct, SitesInv, Refind
    PROVE  SitesInv'
  <1> DEFINE s == migration.doc
             next == [migration EXCEPT !.at = "backfill", !.left = @ \ {s},
                                       !.attempts = 0, !.doc = None]
             again == [migration EXCEPT !.at = "backfill", !.docs[s] = website[s],
                                        !.attempts = @ + 1]
  <1>1. /\ Phase("refind") /\ UNCHANGED <<website, indexed, request, events, tampered>>
        /\ \/ migration' = next
           \/ migration' = [next EXCEPT !.conflicts = TRUE]
           \/ /\ website[s] # None /\ migration.attempts + 1 # MaxAttempts
              /\ migration' = again
    BY DEF Refind, Migrate
  <1>2. migration \in Migrations /\ indexed /\ s \in migration.left /\ s # None
    BY <1>1, Typed DEF SitesInv, Phased, Phase
  <1>3. s \in Sites /\ migration.left \subseteq Stored(migration.docs)
    BY <1>1, <1>2 DEF SitesInv, Phased, Phase, Migrations
  <1>4. CASE migration' = next
    <2>1. migration' = [migration EXCEPT !.at = "backfill", !.left = migration.left \ {s},
                                         !.attempts = 0, !.doc = None]
      BY <1>2, <1>4 DEF Migrations
    <2>2. migration'.at = "backfill"
      BY <1>2, <2>1 DEF Migrations
    <2>3. migration' \in Migrations /\ Phased' /\ ~Phase("succeeded")'
      BY <1>1, <1>2, <2>1, <2>2, Dropped
    <2> QED  BY <1>1, <2>3, OnlyMigration
  <1>5. CASE migration' = [next EXCEPT !.conflicts = TRUE]
    <2>1. migration' = [migration EXCEPT !.at = "backfill", !.left = migration.left \ {s},
                                         !.attempts = 0, !.doc = None, !.conflicts = TRUE]
      BY <1>2, <1>5 DEF Migrations
    <2>2. migration'.at = "backfill"
      BY <1>2, <2>1 DEF Migrations
    <2>3. migration' \in Migrations /\ Phased' /\ ~Phase("succeeded")'
      BY <1>1, <1>2, <2>1, <2>2, Dropped
    <2> QED  BY <1>1, <2>3, OnlyMigration
  <1>6. CASE website[s] # None /\ migration.attempts + 1 # MaxAttempts /\ migration' = again
    <2> DEFINE found == [migration.docs EXCEPT ![s] = website[s]]
    <2>1. found \in [Sites -> Documents \cup {None}] /\ found[s] # None
      BY <1>2, <1>3, <1>6, Typed DEF SitesInv, Migrations
    <2>2. migration.attempts + 1 \in 0 .. MaxAttempts - 1
      <3>1. migration.attempts \in 0 .. MaxAttempts - 1
        BY <1>2 DEF Migrations
      <3> QED  BY <1>6, <3>1 DEF Bounds
    <2>3. migration' = [migration EXCEPT !.at = "backfill", !.docs = found,
                                         !.attempts = migration.attempts + 1]
      BY <1>2, <1>6 DEF Migrations
    <2>4. migration.left \subseteq Stored(found)
      <3>1. \A t \in Sites \ {s} : found[t] = migration.docs[t]
        BY <1>2 DEF Migrations
      <3> QED  BY <1>3, <2>1, <3>1 DEF Stored
    <2> HIDE DEF found
    <2>5. /\ migration' \in Migrations /\ migration'.at = "backfill"
          /\ migration'.doc = s /\ migration'.left = migration.left /\ migration'.docs = found
      BY <1>2, <2>1, <2>2, <2>3 DEF Migrations
    <2>6. Phased' /\ ~Phase("succeeded")'
      BY <1>1, <1>2, <2>4, <2>5 DEF Phased, Phase, Stored
    <2> QED  BY <1>1, <2>5, <2>6, OnlyMigration
  <1> QED  BY <1>1, <1>4, <1>5, <1>6

LEMMA FinishKeeps ==
    ASSUME Bounds, Inputs, Distinct, SitesInv, Finish
    PROVE  SitesInv'
  <1>1. /\ UNCHANGED <<website, indexed, request, events, tampered>>
        /\ \/ migration' = [MigrationIdle EXCEPT !.at = "failed"]
           \/ /\ NotCurrent(website) = {}
              /\ migration' = [MigrationIdle EXCEPT !.at = "succeeded"]
    BY DEF Finish, Migrate
  <1>2. CASE migration' = [MigrationIdle EXCEPT !.at = "failed"]
    <2>1. migration' \in Migrations /\ migration'.at = "failed" /\ migration'.doc = None
      BY <1>2, IdleAt
    <2> QED  BY <1>1, <2>1, OnlyMigration DEF Phased, Phase
  <1>3. CASE /\ NotCurrent(website) = {}
             /\ migration' = [MigrationIdle EXCEPT !.at = "succeeded"]
    <2>1. migration' \in Migrations /\ migration'.at = "succeeded" /\ migration'.doc = None
      BY <1>3, IdleAt
    <2>2. Phased'
      BY <2>1 DEF Phased
    <2>3. WebsitesTypeOK'
      BY <1>1, <2>1, Typed, IsTypedNext DEF SitesInv
    <2>4. \A s \in Stored(website) : website[s].claims # None
      <3> SUFFICES ASSUME NEW s \in Stored(website)
                   PROVE  website[s].claims # None
        OBVIOUS
      <3>1. website[s].claims = ClaimedDomains(website[s])
        BY <1>3 DEF NotCurrent, IsCurrent
      <3>2. website[s] \in Documents
        BY Typed DEF SitesInv, Stored
      <3>3. website[s].domain \in Hosts /\ website[s].more \in SUBSET Hosts
        BY <3>2 DEF Documents
      <3> QED  BY <3>1, <3>3, Claims
    <2>5. Indexing' /\ ClaimsFollowNames'
      BY <1>1 DEF SitesInv, Indexing, Claimed, ClaimsFollowNames, Unique, Stored
    <2>6. SuccessOpensGate'
      BY <1>1, <2>4 DEF SuccessOpensGate, Stored
    <2> QED  BY <1>1, <2>2, <2>3, <2>5, <2>6, RequestsKept DEF SitesInv, Claimed
  <1> QED  BY <1>1, <1>2, <1>3

-----------------------------------------------------------------------------
(* The theorems. *)

LEMMA SitesStep ==
    ASSUME Bounds, Inputs, Distinct, SitesInv, [WebsitesNext]_websiteVars
    PROVE  SitesInv'
  <1>1. CASE UNCHANGED websiteVars
    <2>1. migration' \in Migrations /\ UNCHANGED <<website, indexed, request, migration, events, tampered>>
      BY <1>1, Typed DEF SitesInv, websiteVars
    <2>2. WebsitesTypeOK'
      BY <2>1, Typed, IsTypedNext DEF SitesInv
    <2> QED  BY <2>1, <2>2, MigrationKept, WebsitesKept, RequestsKept DEF SitesInv
  <1>2. ASSUME NEW r \in Requests,
               \/ Register(r) \/ UpdateWebsite(r) \/ EnsureClaimsMigrated(r)
               \/ EnsureDomainsUnclaimed(r) \/ Create(r) \/ Update(r)
        PROVE  SitesInv'
    BY <1>2, RegisterKeeps, UpdateWebsiteKeeps, GateKeeps, CheckKeeps, CreateKeeps, UpdateKeeps
  <1>3. CASE DeleteWebsite \/ OldWrite \/ Start \/ Interrupt
    BY <1>3, DeleteKeeps, OldWriteKeeps, StartKeeps, InterruptKeeps
  <1>4. CASE MigrationStep
    <2>1. CASE Begin \/ EnsureIndexes \/ Plan \/ Refind \/ EndOfBackfill \/ Finish
      BY <2>1, BeginKeeps, IndexesKeep, PlanKeeps, RefindKeeps, RoundKeeps, FinishKeeps
    <2>2. CASE FirstRead \/ SecondRead
      BY <2>2, ReadKeeps DEF FirstRead, SecondRead
    <2>3. CASE \E s \in Sites : Backfill(s)
      BY <2>3, BackfillKeeps
    <2> QED  BY <1>4, <2>1, <2>2, <2>3 DEF MigrationStep
  <1> QED  BY <1>1, <1>2, <1>3, <1>4 DEF WebsitesNext

(* Of two owners whose claims are those of their names, one claim would be shared. *)
LEMMA ClaimsMakeOneOwner ==
    ASSUME Inputs, SitesInv, ~Unclaimed, NEW h \in Hosts
    PROVE  Cardinality(Answering(h) \ tampered) <= 1
  <1>1. ASSUME NEW s \in Answering(h) \ tampered
        PROVE  /\ s \in Stored(website) /\ website[s].claims # None
               /\ LowerCase[h] \in website[s].claims
    <2>1. s \in Stored(website) /\ h \in {website[s].domain} \cup website[s].more
      BY DEF Answering
    <2>2. website[s].claims # None
      BY <2>1 DEF Unclaimed
    <2>3. website[s].claims = ClaimedDomains(website[s])
      BY <2>1, <2>2 DEF SitesInv, Claimed, ClaimsFollowNames
    <2> QED  BY <2>1, <2>2, <2>3 DEF ClaimedDomains
  <1>2. ASSUME NEW s \in Answering(h) \ tampered, NEW t \in Answering(h) \ tampered, s # t
        PROVE  FALSE
    <2>1. indexed
      BY <1>1 DEF SitesInv, Indexing
    <2>2. Compatible(website[s], website[t])
      BY <1>1, <1>2, <2>1 DEF SitesInv, Indexing, Unique
    <2> QED  BY <1>1, <2>2 DEF Compatible
  <1>3. CASE Answering(h) \ tampered = {}
    BY <1>3, FS_EmptySet
  <1>4. CASE Answering(h) \ tampered # {}
    <2>1. PICK s \in Answering(h) \ tampered : TRUE
      BY <1>4
    <2>2. Answering(h) \ tampered = {s}
      BY <1>2, <2>1
    <2> QED  BY <2>2, FS_Singleton
  <1> QED  BY <1>3, <1>4

(* The websites, the requests and the migration, and what the indexes say of *)
(* them, in every state of every schedule.                                   *)
THEOREM SitesInvariant == WebsitesSpec => []SitesInv
  <1>1. WebsitesInit => SitesInv
    BY InitSites, WebsitesAssumption
  <1>2. SitesInv /\ [WebsitesNext]_websiteVars => SitesInv'
    BY SitesStep, WebsitesAssumption
  <1> QED  BY <1>1, <1>2, PTL DEF WebsitesSpec

(* Once every document has claims, at most one website answers for a hostname, *)
(* whatever registrations, updates, deletions and a migration under way have   *)
(* interleaved (onboarding_service.py, website_repository.py, sdk_cors.py).    *)
THEOREM HostnamesHaveOneOwner == WebsitesSpec => []OneOwner
  <1>1. SitesInv => OneOwner
    BY ClaimsMakeOneOwner, WebsitesAssumption DEF OneOwner
  <1> QED  BY <1>1, SitesInvariant, PTL

(* Claims are those of the names a document has now, and a migration that has *)
(* reported success leaves none without them.                                 *)
THEOREM ClaimsAreTrue == WebsitesSpec => []WebsitesConsistent
  <1>1. SitesInv => WebsitesConsistent
    BY DEF SitesInv, Claimed, WebsitesConsistent
  <1> QED  BY <1>1, SitesInvariant, PTL

-----------------------------------------------------------------------------
(* Accounts: users, schools and classes agree, and nobody loses a school.  *)

(* What may be changed of a user, and what a request may have to write. *)
Renewals ==
    ({"phone"} \X PhoneNumbers) \cup ({"email"} \X Emails) \cup ({"school"} \X Schools)
UserOps == {"idle", "create", "own", "update", "delete", "count_teachers", "count_students"}
UserWrites ==
    [op : UserOps, id : Ids \cup {None}, doc : UserDocs \cup Renewals \cup {None},
     seen : SUBSET Ids, unsure : BOOLEAN]
TokenClaims ==
    [sub : Ids, role : Roles, school : Schools \cup {None, Blank}, tenant : Tenants]

AccountsTyped ==
    /\ user \in [Ids -> UserDocs \cup {None, Gone}]
    /\ class \in [Classes -> ClassDocs \cup {None, Gone}]
    /\ tokens \in SUBSET TokenClaims
    /\ pending \in [UserRequests -> UserWrites]
    /\ requested \in 0 .. MaxRequests
    /\ halves \in SUBSET Ids /\ doubtful \in SUBSET Ids
    /\ moved \in SUBSET Ids /\ uncounted \in SUBSET Ids

-----------------------------------------------------------------------------
(* The inductive invariant. *)

Individuals ==
    \A i \in Known : Fits(i, user[i]) /\ (i \notin doubtful => Ordinary(i, user[i]))

(* A request writes about a user who is there, or is to be; an id is used *)
(* once.                                                                  *)
Decided(w) ==
    /\ w.op = "create" =>
         /\ w.id \in Ids /\ w.doc \in UserDocs /\ user[w.id] = None
         /\ Fits(w.id, w.doc) /\ Ordinary(w.id, w.doc)
    /\ w.op \in {"own", "update", "delete", "count_teachers", "count_students"} =>
         w.id \in Ids /\ user[w.id] # None
    /\ w.op \in {"own", "count_teachers", "count_students"} => w.id \in Schools
    /\ w.op = "own" => w = Decision("own", w.id, None)
    /\ w.op \in {"count_teachers", "count_students"} => ~ w.unsure
    /\ w.op = "update" =>
         /\ w.doc \in Renewals
         /\ w.doc[1] = "email" => w.id \in Schools
         /\ w.doc[1] = "school" => w.unsure
    /\ \A j \in w.seen : user[j] # None

CreatesApart ==
    \A q, r \in UserRequests :
        pending[q].op = "create" /\ pending[r].op = "create" /\ q # r
        => pending[q].id # pending[r].id

(* A phone that was checked is still good for its user when it is written, *)
(* as far as the check saw, and nobody has become doubtful since.          *)
Vouched(w) == (Known \cap w.seen) \ doubtful

Checked(w) ==
    /\ w.op = "create" /\ ~ w.unsure => \A j \in Vouched(w) :
         /\ w.doc.role \in {"teacher", "content_creator"} => user[j].role = "student"
         /\ w.doc.role = "student" => j \in People /\ user[j].school # w.doc.school
    /\ w.op = "update" /\ w.doc[1] = "phone" /\ ~ w.unsure /\ w.id \in Known \ doubtful =>
         /\ w.id \in People /\ user[w.id].role = "student"
         /\ \A j \in Vouched(w) \ {w.id} :
              j \in People /\ user[j].school # user[w.id].school

(* The members of a school that were counted are gone, but for those who *)
(* came since.                                                           *)
NoneLeft(s, role) ==
    \A i \in Known : user[i].school = s /\ user[i].role = role => i \in uncounted

MembersCounted(w) ==
    /\ w.op = "count_students" => NoneLeft(w.id, "teacher")
    /\ w.op = "delete" /\ w.id \in Schools /\ ~ w.unsure =>
         NoneLeft(w.id, "teacher") /\ NoneLeft(w.id, "student")

WritesSound ==
    \A r \in UserRequests :
        Decided(pending[r]) /\ Checked(pending[r]) /\ MembersCounted(pending[r])

(* The claims of a token are true of its user, unless he was transferred. *)
TokenTrue(c) ==
    /\ user[c.sub] # None
    /\ c.role = "tenant" => c.sub \in Tenants
    /\ c.role \in {"teacher", "content_creator"} => c.sub \in People
    /\ c.sub \in (People \cap Known) \ moved => user[c.sub].school = c.school

ClassTrue(k) ==
    class[k] \notin {None, Gone} =>
        /\ user[class[k].teacher] # None
        /\ class[k].teacher \in Known \ moved =>
             OrBlank(user[class[k].teacher].school) = class[k].school

AccountsInv ==
    /\ AccountsTyped /\ Individuals /\ WritesSound /\ CreatesApart
    /\ \A c \in tokens : TokenTrue(c)
    /\ \A k \in Classes : ClassTrue(k)
    /\ SchoolsWhole /\ PhonesDistinct /\ MembersKept

-----------------------------------------------------------------------------
(* Documents and requests. *)

LEMMA UserDocFields ==
    ASSUME NEW d \in UserDocs
    PROVE  /\ d.role \in Roles /\ d.tenant \in Tenants \cup {None}
           /\ d.school \in Schools \cup {None, Blank}
           /\ d.phone \in PhoneNumbers \cup {None}
  BY DEF UserDocs

LEMMA DocType ==
    ASSUME NEW role \in Roles, NEW t \in Tenants \cup {None},
           NEW s \in Schools \cup {None, Blank}, NEW p \in PhoneNumbers \cup {None},
           NEW e \in Emails \cup PhoneNumbers \cup {None}
    PROVE  /\ Doc(role, t, s, p, e) \in UserDocs
           /\ Doc(role, t, s, p, e).role = role /\ Doc(role, t, s, p, e).tenant = t
           /\ Doc(role, t, s, p, e).school = s /\ Doc(role, t, s, p, e).phone = p
           /\ Doc(role, t, s, p, e).email = e
  BY DEF Doc, UserDocs

LEMMA RenewalOf ==
    ASSUME NEW u \in UserDocs, NEW x \in Renewals
    PROVE  /\ [u EXCEPT ![x[1]] = x[2]] \in UserDocs
           /\ [u EXCEPT ![x[1]] = x[2]].role = u.role
           /\ [u EXCEPT ![x[1]] = x[2]].tenant = u.tenant
           /\ x[1] # "phone" => [u EXCEPT ![x[1]] = x[2]].phone = u.phone
           /\ x[1] # "school" => [u EXCEPT ![x[1]] = x[2]].school = u.school
           /\ x[1] # "email" => [u EXCEPT ![x[1]] = x[2]].email = u.email
           /\ x[1] \in {"phone", "email", "school"}
  <1>1. CASE x[1] = "phone" /\ x[2] \in PhoneNumbers
    BY <1>1 DEF UserDocs
  <1>2. CASE x[1] = "email" /\ x[2] \in Emails
    BY <1>2 DEF UserDocs
  <1>3. CASE x[1] = "school" /\ x[2] \in Schools
    BY <1>3 DEF UserDocs
  <1> QED  BY <1>1, <1>2, <1>3 DEF Renewals

LEMMA SchoolRenewed ==
    ASSUME NEW u \in UserDocs, NEW s \in Schools
    PROVE  /\ [u EXCEPT !.school = s] \in UserDocs
           /\ [u EXCEPT !.school = s].role = u.role /\ [u EXCEPT !.school = s].tenant = u.tenant
           /\ [u EXCEPT !.school = s].phone = u.phone /\ [u EXCEPT !.school = s].email = u.email
           /\ [u EXCEPT !.school = s].school = s
  BY DEF UserDocs

LEMMA VerdictType ==
    ASSUME NEW op \in UserOps, NEW i \in Ids \cup {None},
           NEW d \in UserDocs \cup Renewals \cup {None}, NEW S \in SUBSET Ids,
           NEW b \in BOOLEAN
    PROVE  /\ Verdict(op, i, d, S, b) \in UserWrites
           /\ Verdict(op, i, d, S, b).op = op /\ Verdict(op, i, d, S, b).id = i
           /\ Verdict(op, i, d, S, b).doc = d /\ Verdict(op, i, d, S, b).seen = S
           /\ Verdict(op, i, d, S, b).unsure = b
  BY DEF UserWrites, Verdict

LEMMA IdleSound ==
    /\ Undecided \in UserWrites /\ Undecided.op = "idle"
    /\ Decided(Undecided) /\ Checked(Undecided) /\ MembersCounted(Undecided)
  BY DEF Undecided, Decision, Verdict, UserWrites, UserOps, Decided, Checked, MembersCounted

LEMMA KnownDoc ==
    ASSUME AccountsTyped, NEW i \in Known
    PROVE  i \in Ids /\ user[i] \in UserDocs /\ user[i] # None /\ user[i] # Gone
  BY DEF AccountsTyped, Known

LEMMA KnownDocNext ==
    ASSUME AccountsTyped', NEW i \in Known'
    PROVE  i \in Ids /\ user'[i] \in UserDocs /\ user'[i] # None /\ user'[i] # Gone
  BY DEF AccountsTyped, Known

LEMMA WriteTyped ==
    ASSUME AccountsTyped, NEW r \in UserRequests
    PROVE  /\ pending[r] \in UserWrites /\ pending[r].op \in UserOps
           /\ pending[r].seen \in SUBSET Ids /\ pending[r].unsure \in BOOLEAN
  BY DEF AccountsTyped, UserWrites

LEMMA InitAccounts ==
    ASSUME AccountsInit
    PROVE  AccountsInv
  <1>1. \A i \in Known : i \in Ids /\ user[i] \in UserDocs /\ user[i] # None
    BY AccountsAssumption DEF AccountsInit, Known
  <1>2. AccountsTyped
    <2>1. user \in [Ids -> UserDocs \cup {None, Gone}]
      BY AccountsAssumption DEF AccountsInit
    <2>2. /\ class \in [Classes -> ClassDocs \cup {None, Gone}]
          /\ pending \in [UserRequests -> UserWrites]
      BY IdleSound DEF AccountsInit
    <2> QED
      BY <2>1, <2>2, AccountsAssumption DEF AccountsInit, AccountsTyped
  <1>3. Individuals
    BY <1>1, AccountsAssumption DEF AccountsInit, Individuals
  <1>4. WritesSound /\ CreatesApart
    BY IdleSound DEF AccountsInit, WritesSound, CreatesApart
  <1>5. (\A c \in tokens : TokenTrue(c)) /\ \A k \in Classes : ClassTrue(k)
    BY DEF AccountsInit, ClassTrue
  <1>6. SchoolsWhole
    <2>1. \A i \in Known : user \in Population /\ i \in Ids /\ user[i] # None
      BY <1>1 DEF AccountsInit
    <2>2. \A s \in Known \cap Schools : user[s].school = s
      BY <2>1, AccountsAssumption
    <2> QED  BY <2>2 DEF SchoolsWhole
  <1>7. PhonesDistinct
    <2> SUFFICES ASSUME NEW i \in Known, NEW j \in Known, i # j,
                        user[i].phone = user[j].phone, user[i].phone # None
                 PROVE  PhoneAlike(user[i], user[j])
      BY DEF PhonesDistinct
    <2>1. user \in Population /\ i \in Ids /\ j \in Ids \ {i}
          /\ user[i] # None /\ user[j] # None
      BY <1>1 DEF AccountsInit
    <2> QED  BY <2>1, AccountsAssumption
  <1>8. MembersKept
    <2> SUFFICES ASSUME NEW i \in Known, user[i].school \in Schools,
                        user[user[i].school] = Gone
                 PROVE  FALSE
      BY DEF MembersKept
    <2>1. user[i].school \in Ids /\ user \in [Ids -> UserDocs \cup {None}]
      BY AccountsAssumption DEF AccountsInit, Ids
    <2>2. Gone \notin UserDocs \cup {None}
      BY AccountsAssumption
    <2> QED  BY <2>1, <2>2
  <1> QED
    BY <1>2, <1>3, <1>4, <1>5, <1>6, <1>7, <1>8 DEF AccountsInv

-----------------------------------------------------------------------------
(* What steps leave true. *)

(* Users come and go, once; of the others, only who is transferred changes *)
(* his school.                                                             *)
Aged ==
    /\ \A i \in Ids : user[i] # None => user'[i] # None
    /\ \A i \in Known' : user[i] # None =>
         /\ i \in Known /\ user'[i].role = user[i].role
         /\ i \in People \ (doubtful' \cap moved') => user'[i].school = user[i].school
    /\ doubtful \subseteq doubtful' /\ moved \subseteq moved'

(* Who comes to a school is marked, when it may have been counted. *)
Arrives ==
    /\ uncounted \subseteq uncounted'
    /\ \A i \in Known' :
        \/ i \in Known /\ user'[i].school = user[i].school /\ user'[i].role = user[i].role
        \/ user'[i].role = "school_admin"
        \/ Comes(i, user'[i].school) => i \in uncounted'

LEMMA TokensKept ==
    ASSUME AccountsInv, AccountsTyped', Aged, UNCHANGED <<tokens, class>>
    PROVE  (\A c \in tokens : TokenTrue(c))' /\ (\A k \in Classes : ClassTrue(k))'
  <1>1. ASSUME NEW c \in tokens
        PROVE  TokenTrue(c)'
    <2>1. c.sub \in Ids /\ TokenTrue(c)
      BY DEF AccountsInv, AccountsTyped, TokenClaims
    <2> QED  BY <2>1 DEF TokenTrue, Aged
  <1>2. ASSUME NEW k \in Classes, class[k] \notin {None, Gone}
        PROVE  ClassTrue(k)'
    <2>1. class[k].teacher \in People /\ ClassTrue(k)
      BY <1>2 DEF AccountsInv, AccountsTyped, ClassDocs
    <2>2. class[k].teacher \in Ids
      BY <2>1 DEF Ids
    <2> QED  BY <1>2, <2>1, <2>2 DEF ClassTrue, Aged
  <1> QED  BY <1>1, <1>2 DEF ClassTrue

LEMMA WriteKept ==
    ASSUME AccountsInv, AccountsTyped', Aged, NEW w \in UserWrites, Decided(w), Checked(w),
           w.op = "create" => user'[w.id] = None
    PROVE  Decided(w)' /\ Checked(w)'
  <1> w.seen \in SUBSET Ids
    BY DEF UserWrites
  <1>1. Decided(w)'
    <2>1. w.id \in Ids /\ user[w.id] # None => user'[w.id] # None
      BY DEF Aged
    <2>2. \A j \in w.seen : user'[j] # None
      BY DEF Aged, Decided
    <2> QED  BY <2>1, <2>2 DEF Decided
  <1>2. \A j \in Vouched(w)' :
          /\ j \in Vouched(w) /\ user'[j].role = user[j].role
          /\ j \in People => user'[j].school = user[j].school
    BY DEF Aged, Vouched, Decided
  <1>3. w.op = "update" /\ w.id \in (Known \ doubtful)' =>
          /\ w.id \in Known \ doubtful /\ user'[w.id].role = user[w.id].role
          /\ w.id \in People => user'[w.id].school = user[w.id].school
    BY DEF Aged, Decided
  <1> QED  BY <1>1, <1>2, <1>3 DEF Checked

LEMMA CountsKept ==
    ASSUME AccountsInv, AccountsTyped', Arrives, NEW q \in UserRequests,
           NEW w, w = pending[q]
    PROVE  MembersCounted(w)'
  <1>1. MembersCounted(w) /\ Decided(w)
    BY DEF AccountsInv, WritesSound
  <1>2. ASSUME w.id \in Schools, w.op \in {"count_students", "delete"},
               NEW role \in {"teacher", "student"}, NoneLeft(w.id, role)
        PROVE  NoneLeft(w.id, role)'
    <2> SUFFICES ASSUME NEW i \in Known', user'[i].school = w.id, user'[i].role = role
                 PROVE  i \in uncounted'
      BY DEF NoneLeft
    <2>1. Comes(i, user'[i].school)
      BY <1>2 DEF Comes, Deleting
    <2> QED  BY <1>2, <2>1 DEF Arrives, NoneLeft
  <1> QED  BY <1>1, <1>2 DEF MembersCounted, Decided

LEMMA MembersStay ==
    ASSUME AccountsInv, AccountsTyped', Arrives,
           \A s \in Schools : user'[s] = Gone => user[s] = Gone
    PROVE  MembersKept'
  <1> SUFFICES ASSUME NEW i \in Known', user'[i].role \in {"teacher", "student"},
                      NEW s \in Schools, s = user'[i].school, user'[s] = Gone
               PROVE  {i, s} \cap uncounted' # {}
    BY DEF MembersKept
  <1>1. Comes(i, s) /\ user[s] = Gone
    BY DEF Comes
  <1>2. CASE i \in Known /\ user'[i].school = user[i].school /\ user'[i].role = user[i].role
    <2>1. {i, s} \cap uncounted # {}
      BY <1>1, <1>2 DEF AccountsInv, MembersKept
    <2> QED  BY <2>1 DEF Arrives
  <1> QED  BY <1>1, <1>2 DEF Arrives

(* A write about users, after which the request goes on with w. *)
Continues(r, w) ==
    /\ pending' = [pending EXCEPT ![r] = w] /\ w \in UserWrites /\ w.op # "create"
    /\ Decided(w)' /\ Checked(w)' /\ MembersCounted(w)'
    /\ UNCHANGED <<class, tokens>>

LEMMA OthersKept ==
    ASSUME AccountsInv, AccountsTyped', Aged, NEW r \in UserRequests, NEW w,
           Continues(r, w),
           \A q \in UserRequests \ {r} :
               pending[q].op = "create" => user'[pending[q].id] = None,
           \A q \in UserRequests \ {r} : \A v \in UserWrites :
               v = pending[q] => MembersCounted(v)'
    PROVE  /\ WritesSound' /\ CreatesApart'
           /\ (\A c \in tokens : TokenTrue(c))' /\ (\A k \in Classes : ClassTrue(k))'
  <1>1. \A q \in UserRequests : pending'[q] = IF q = r THEN w ELSE pending[q]
    BY DEF Continues, AccountsInv, AccountsTyped
  <1>2. ASSUME NEW q \in UserRequests
        PROVE  (Decided(pending[q]) /\ Checked(pending[q]) /\ MembersCounted(pending[q]))'
    <2>1. CASE q = r
      BY <1>1, <2>1 DEF Continues, Decided, Checked, MembersCounted, Vouched
    <2>2. CASE q # r
      <3>1. PICK v \in UserWrites : v = pending[q]
        BY DEF AccountsInv, AccountsTyped
      <3>2. Decided(v) /\ Checked(v)
        BY <3>1 DEF AccountsInv, WritesSound
      <3>3. v.op = "create" => user'[v.id] = None
        BY <2>2, <3>1
      <3>4. Decided(v)' /\ Checked(v)' /\ MembersCounted(v)'
        BY <2>2, <3>1, <3>2, <3>3, WriteKept
      <3>5. pending'[q] = v
        BY <1>1, <2>2, <3>1
      <3> QED  BY <3>4, <3>5 DEF Decided, Checked, MembersCounted, Vouched
    <2> QED  BY <2>1, <2>2
  <1>3. CreatesApart'
    BY <1>1 DEF CreatesApart, AccountsInv, Continues
  <1>4. UNCHANGED <<tokens, class>>
    BY DEF Continues
  <1> QED  BY <1>2, <1>3, <1>4, TokensKept DEF WritesSound

(* A document is written, of a user who is new or keeps his role. *)
Writing(r, i, d) ==
    /\ i \in Ids /\ d \in UserDocs /\ Fits(i, d)
    /\ user' = [user EXCEPT ![i] = d] /\ Marked(r, i, d)
    /\ moved \subseteq moved' /\ moved' \in SUBSET Ids /\ UNCHANGED <<halves, requested>>
    /\ user[i] # Gone
    /\ i \in Known =>
         /\ d.role = user[i].role
         /\ i \in People \ (doubtful' \cap moved') => d.school = user[i].school
    /\ i \notin doubtful' => Ordinary(i, d)

LEMMA WrittenTyped ==
    ASSUME AccountsInv, NEW r \in UserRequests, NEW i, NEW d, Writing(r, i, d),
           NEW w, Continues(r, w)
    PROVE  AccountsTyped' /\ Aged /\ Arrives /\ Individuals'
  <1>1. AccountsTyped'
    BY DEF AccountsInv, AccountsTyped, Writing, Continues, Marked
  <1>2. /\ \A j \in Ids : user'[j] = IF j = i THEN d ELSE user[j]
        /\ d \notin {None, Gone}
    BY AccountsAssumption DEF AccountsInv, AccountsTyped, Writing
  <1>3. i \in Known'
    BY <1>2 DEF Known, Writing
  <1>4. \A j \in Known' : j \in Ids /\ (j = i \/ (j \in Known /\ user'[j] = user[j]))
    BY <1>2 DEF Known
  <1>5. doubtful \subseteq doubtful' /\ uncounted \subseteq uncounted' /\ moved \subseteq moved'
    BY DEF Writing, Marked
  <1>6. Aged
    <2>1. user[i] # None => i \in Known
      BY DEF Writing, Known
    <2> QED  BY <1>2, <1>4, <1>5, <2>1 DEF Aged, Writing
  <1>7. Arrives
    <2>1. Comes(i, d.school) => i \in uncounted'
      BY DEF Writing, Marked
    <2> QED  BY <1>2, <1>4, <1>5, <2>1 DEF Arrives
  <1>8. Individuals'
    <2> SUFFICES ASSUME NEW j \in Known'
                 PROVE  Fits(j, user'[j]) /\ (j \notin doubtful' => Ordinary(j, user'[j]))
      BY DEF Individuals
    <2>1. CASE j = i
      BY <1>2, <1>4, <2>1 DEF Writing
    <2>2. CASE j # i
      BY <1>4, <1>5, <2>2 DEF AccountsInv, Individuals
    <2> QED  BY <2>1, <2>2
  <1> QED  BY <1>1, <1>6, <1>7, <1>8

(* The phone of the document is one that nobody has but whom it does not *)
(* tell apart.                                                           *)
LEMMA WrittenKeeps ==
    ASSUME AccountsInv, NEW r \in UserRequests, NEW i, NEW d, Writing(r, i, d),
           NEW w, Continues(r, w),
           \A q \in UserRequests \ {r} : pending[q].op = "create" => pending[q].id # i,
           pending[r].op # "own",
           i \in Schools =>
               \/ i \in halves \cup moved' \/ d.school = i
               \/ \E q \in UserRequests : pending'[q] = Decision("own", i, None),
           \A j \in Known \ doubtful :
               i \notin doubtful' /\ j # i /\ d.phone # None /\ user[j].phone = d.phone
               => PhoneAlike(d, user[j])
    PROVE  AccountsInv'
  <1>1. AccountsTyped' /\ Aged /\ Arrives /\ Individuals'
    BY WrittenTyped
  <1>2. /\ \A j \in Ids : user'[j] = IF j = i THEN d ELSE user[j]
        /\ d \notin {None, Gone}
    BY AccountsAssumption DEF AccountsInv, AccountsTyped, Writing
  <1>3. \A j \in Known' : j \in Ids /\ (j = i \/ (j \in Known /\ user'[j] = user[j]))
    BY <1>2 DEF Known
  <1>4. doubtful \subseteq doubtful' /\ moved \subseteq moved' /\ halves' = halves
    BY DEF Writing, Marked
  <1>5. /\ WritesSound' /\ CreatesApart'
        /\ (\A c \in tokens : TokenTrue(c))' /\ (\A k \in Classes : ClassTrue(k))'
    <2>1. \A q \in UserRequests \ {r} :
             pending[q].op = "create" => user'[pending[q].id] = None
      BY <1>2 DEF AccountsInv, WritesSound, Decided
    <2>2. \A q \in UserRequests \ {r} : \A v \in UserWrites :
             v = pending[q] => MembersCounted(v)'
      BY <1>1, CountsKept
    <2> QED  BY <1>1, <2>1, <2>2, OthersKept
  <1>6. SchoolsWhole'
    <2> SUFFICES ASSUME NEW s \in Known' \cap Schools, user'[s].school # s,
                        s \notin (halves \cup moved)'
                 PROVE  \E q \in UserRequests : pending'[q] = Decision("own", s, None)
      BY DEF SchoolsWhole
    <2>1. CASE s = i
      BY <1>2, <1>3, <1>4, <2>1
    <2>2. CASE s # i
      <3>1. PICK q \in UserRequests : pending[q] = Decision("own", s, None)
        BY <1>3, <1>4, <2>2 DEF AccountsInv, SchoolsWhole
      <3>2. pending[q].op = "own"
        BY <3>1 DEF Decision, Verdict
      <3>3. pending'[q] = pending[q]
        BY <3>2 DEF Continues, AccountsInv, AccountsTyped
      <3> QED  BY <3>1, <3>3
    <2> QED  BY <2>1, <2>2
  <1>7. PhonesDistinct'
    <2> SUFFICES ASSUME NEW j \in Known', NEW k \in Known', j # k,
                        user'[j].phone = user'[k].phone, user'[j].phone # None,
                        j \notin doubtful', k \notin doubtful'
                 PROVE  PhoneAlike(user'[j], user'[k])
      BY DEF PhonesDistinct
    <2>1. CASE j = i
      BY <1>2, <1>3, <1>4, <2>1
    <2>2. CASE k = i
      <3>1. PhoneAlike(user'[k], user'[j])
        BY <1>2, <1>3, <1>4, <2>2
      <3> QED  BY <3>1 DEF PhoneAlike
    <2>3. CASE j # i /\ k # i
      BY <1>3, <1>4, <2>3 DEF AccountsInv, PhonesDistinct
    <2> QED  BY <2>1, <2>2, <2>3
  <1>8. MembersKept'
    <2>1. \A s \in Schools : s \in Ids
      BY DEF Ids
    <2>2. \A s \in Schools : user'[s] = Gone => user[s] = Gone
      BY <1>2, <2>1
    <2> QED  BY <1>1, <2>2, MembersStay
  <1> QED  BY <1>1, <1>5, <1>6, <1>7, <1>8 DEF AccountsInv

LEMMA IdleContinues ==
    ASSUME NEW r \in UserRequests, Responds(r), UNCHANGED <<class, tokens>>
    PROVE  Continues(r, Undecided)
  <1>1. Decided(Undecided)' /\ Checked(Undecided)' /\ MembersCounted(Undecided)'
    BY DEF Undecided, Decision, Verdict, Decided, Checked, MembersCounted
  <1> QED  BY <1>1, IdleSound DEF Responds, Continues

(* Steps that leave the users alone: a request decides, or is over. *)
LEMMA DecidesKeeps ==
    ASSUME AccountsInv, NEW r \in UserRequests, NEW w \in UserWrites,
           pending' = [pending EXCEPT ![r] = w],
           UNCHANGED <<user, class, tokens, doubtful, uncounted>>,
           moved \subseteq moved', moved' \in SUBSET Ids,
           halves \subseteq halves', halves' \in SUBSET Ids,
           requested' \in 0 .. MaxRequests,
           Decided(w), Checked(w), MembersCounted(w),
           w.op = "create" => \A q \in UserRequests : pending[q].id # w.id,
           pending[r].op = "own" => pending[r].id \in halves'
                                    \/ user[pending[r].id].school = pending[r].id
                                    \/ pending[r].id \notin Known
    PROVE  AccountsInv'
  <1>1. \A q \in UserRequests : pending'[q] = IF q = r THEN w ELSE pending[q]
    BY DEF AccountsInv, AccountsTyped
  <1>2. AccountsTyped' /\ Individuals' /\ PhonesDistinct' /\ MembersKept'
    BY DEF AccountsInv, AccountsTyped, Individuals, PhonesDistinct, MembersKept, Known
  <1>3. Known' = Known
    BY DEF Known
  <1>4. /\ \A v : Decided(v) => Decided(v)'
        /\ \A v : Checked(v) => Checked(v)'
        /\ \A v : MembersCounted(v) => MembersCounted(v)'
    BY <1>3 DEF Decided, Checked, Vouched, MembersCounted, NoneLeft
  <1>5. WritesSound' /\ CreatesApart'
    <2>1. ASSUME NEW q \in UserRequests
          PROVE  (Decided(pending[q]) /\ Checked(pending[q]) /\ MembersCounted(pending[q]))'
      <3>1. PICK v \in UserWrites : v = pending'[q]
        BY <1>1 DEF AccountsInv, AccountsTyped
      <3>2. Decided(v) /\ Checked(v) /\ MembersCounted(v)
        BY <1>1, <3>1 DEF AccountsInv, WritesSound
      <3>3. Decided(v)' /\ Checked(v)' /\ MembersCounted(v)'
        BY <1>4, <3>2
      <3> QED  BY <3>1, <3>3 DEF Decided, Checked, Vouched, MembersCounted
    <2> QED  BY <1>1, <2>1 DEF WritesSound, CreatesApart, AccountsInv
  <1>6. (\A c \in tokens : TokenTrue(c))' /\ (\A k \in Classes : ClassTrue(k))'
    BY <1>3 DEF AccountsInv, TokenTrue, ClassTrue
  <1>7. SchoolsWhole'
    <2> SUFFICES ASSUME NEW s \in Known \cap Schools, user[s].school # s,
                        s \notin (halves \cup moved)'
                 PROVE  \E q \in UserRequests : pending'[q] = Decision("own", s, None)
      BY <1>3 DEF SchoolsWhole
    <2>1. PICK q \in UserRequests : pending[q] = Decision("own", s, None)
      BY DEF AccountsInv, SchoolsWhole
    <2>2. pending[q].op = "own" /\ pending[q].id = s
      BY <2>1 DEF Decision, Verdict
    <2> QED  BY <1>1, <2>1, <2>2
  <1> QED  BY <1>2, <1>5, <1>6, <1>7 DEF AccountsInv

LEMMA InsertOneKeeps ==
    ASSUME AccountsInv, NEW r \in UserRequests, InsertOne(r)
    PROVE  AccountsInv'
  <1> DEFINE i == pending[r].id  d == pending[r].doc
  <1>0. PICK v \in UserWrites : v = pending[r]
    BY DEF AccountsInv, AccountsTyped
  <1>1. /\ i \in Ids /\ d \in UserDocs /\ user[i] = None /\ Fits(i, d) /\ Ordinary(i, d)
        /\ Checked(pending[r]) /\ pending[r].op = "create"
    BY DEF AccountsInv, WritesSound, Decided, InsertOne
  <1>2. CASE Duplicate(i, d)
    <2>1. Responds(r) /\ UNCHANGED <<user, class, tokens, marks, requested>>
      BY <1>2 DEF InsertOne, marks
    <2> QED
      BY <1>1, <2>1, IdleSound, DecidesKeeps
      DEF Responds, marks, AccountsInv, AccountsTyped
  <1>3. CASE ~ Duplicate(i, d)
    <2>1. PICK w : w = IF i \in Schools THEN Decision("own", i, None) ELSE Undecided
      OBVIOUS
    <2>2. /\ user' = [user EXCEPT ![i] = d] /\ Marked(r, i, d)
          /\ pending' = [pending EXCEPT ![r] = w]
          /\ UNCHANGED <<class, tokens, requested, halves, moved>>
      BY <1>3, <2>1 DEF InsertOne
    <2>3. user'[i] # None
      BY <1>1, <2>2, AccountsAssumption DEF AccountsInv, AccountsTyped
    <2>4. Continues(r, w)
      <3>1. CASE i \in Schools
        <4>1. w = Verdict("own", i, None, {}, FALSE)
          BY <2>1, <3>1 DEF Decision
        <4>2. w \in UserWrites /\ w.op = "own" /\ w.id = i /\ w.seen = {}
          BY <1>1, <4>1 DEF Verdict, UserWrites, UserOps
        <4>3. Decided(w)' /\ Checked(w)' /\ MembersCounted(w)'
          BY <1>1, <2>3, <3>1, <4>1, <4>2
          DEF Decided, Checked, MembersCounted, Decision
        <4> QED  BY <2>2, <4>2, <4>3 DEF Continues
      <3>2. CASE i \notin Schools
        BY <2>1, <2>2, <3>2, IdleContinues DEF Responds
      <3> QED  BY <3>1, <3>2
    <2>5. Writing(r, i, d)
      <3>1. i \notin Known /\ user[i] # Gone
        BY <1>1, AccountsAssumption DEF Known
      <3> QED  BY <1>1, <2>2, <3>1 DEF Writing, AccountsInv, AccountsTyped
    <2>6. \A q \in UserRequests \ {r} : pending[q].op = "create" => pending[q].id # i
      BY <1>1 DEF AccountsInv, CreatesApart
    <2>7. i \in Schools =>
             \E q \in UserRequests : pending'[q] = Decision("own", i, None)
      BY <2>1, <2>2 DEF AccountsInv, AccountsTyped
    <2>8. ASSUME NEW j \in Known \ doubtful, i \notin doubtful', j # i, d.phone # None,
                 user[j].phone = d.phone
          PROVE  PhoneAlike(d, user[j])
      <3>1. ~ pending[r].unsure /\ j \in pending[r].seen
        BY <2>2, <2>8 DEF Marked, FindByPhone
      <3>2. d.role \in {"teacher", "content_creator", "student"}
        <4>1. i \in People
          BY <1>1, <2>8 DEF Ordinary
        <4> QED  BY <1>1, <4>1, AccountsAssumption, UserDocFields DEF Fits, Roles
      <3>3. j \in Vouched(pending[r])
        BY <2>8, <3>1 DEF Vouched
      <3> QED  BY <1>1, <3>1, <3>2, <3>3 DEF Checked, PhoneAlike
    <2> HIDE DEF i, d
    <2> QED  BY <1>1, <2>4, <2>5, <2>6, <2>7, <2>8, WrittenKeeps
  <1> QED  BY <1>2, <1>3

LEMMA UpdateOneKeeps ==
    ASSUME AccountsInv, NEW r \in UserRequests, UpdateOne(r)
    PROVE  AccountsInv'
  <1> DEFINE i == pending[r].id  x == pending[r].doc
             d == [user[i] EXCEPT ![x[1]] = x[2]]
  <1>1. /\ i \in Ids /\ user[i] # None /\ x \in Renewals
        /\ x[1] = "email" => i \in Schools
        /\ x[1] = "school" => pending[r].unsure
        /\ Checked(pending[r]) /\ pending[r].op = "update"
    BY DEF AccountsInv, WritesSound, Decided, UpdateOne
  <1>2. /\ Responds(r) /\ UNCHANGED <<class, tokens, requested, halves>>
        /\ moved' = IF x[1] = "school" THEN moved \cup {i} ELSE moved
    BY DEF UpdateOne
  <1>3. moved \subseteq moved' /\ moved' \in SUBSET Ids
    BY <1>1, <1>2 DEF AccountsInv, AccountsTyped
  <1>4. CASE UNCHANGED <<user, doubtful, uncounted>>
    BY <1>1, <1>2, <1>3, <1>4, IdleSound, DecidesKeeps
    DEF Responds, AccountsInv, AccountsTyped
  <1>5. CASE i \in Known /\ user' = [user EXCEPT ![i] = d] /\ Marked(r, i, d)
    <2>1. user[i] \in UserDocs /\ user[i] # Gone
      BY <1>5, KnownDoc DEF AccountsInv
    <2>2. /\ d \in UserDocs /\ d.role = user[i].role /\ d.tenant = user[i].tenant
          /\ x[1] # "phone" => d.phone = user[i].phone
          /\ x[1] # "school" => d.school = user[i].school
          /\ x[1] # "email" => d.email = user[i].email
          /\ x[1] \in {"phone", "email", "school"}
      BY <1>1, <2>1, RenewalOf
    <2> HIDE DEF d
    <2>3. Fits(i, d)
      BY <1>5, <2>2 DEF AccountsInv, Individuals, Fits
    <2>4. x[1] = "school" => i \in doubtful' /\ i \in moved'
      BY <1>1, <1>2, <1>5 DEF Marked
    <2>5. i \notin doubtful' => i \notin doubtful /\ Ordinary(i, user[i])
      BY <1>5 DEF Marked, AccountsInv, Individuals
    <2>6. x[1] = "phone" /\ i \notin doubtful' =>
             /\ ~ pending[r].unsure /\ i \in People /\ user[i].role = "student"
             /\ \A j \in Vouched(pending[r]) \ {i} :
                  j \in People /\ user[j].school # user[i].school
             /\ FindByPhone(d.phone) \subseteq {i} \cup pending[r].seen
      BY <1>1, <1>5, <2>5 DEF Checked, Marked
    <2>7. i \notin doubtful' => Ordinary(i, d)
      <3>1. CASE x[1] = "phone"
        BY <2>2, <2>6, <3>1 DEF Ordinary
      <3>2. CASE x[1] = "email"
        <4>1. d.role = "school_admin"
          BY <1>1, <2>3, <3>2 DEF Fits
        <4> QED  BY <2>2, <2>5, <3>2, <4>1 DEF Ordinary
      <3> QED  BY <2>2, <2>4, <3>1, <3>2
    <2>8. Writing(r, i, d)
      BY <1>1, <1>2, <1>3, <1>5, <2>1, <2>2, <2>3, <2>4, <2>7 DEF Writing
    <2>9. Continues(r, Undecided)
      BY <1>2, IdleContinues
    <2>10. \A q \in UserRequests \ {r} : pending[q].op = "create" => pending[q].id # i
      BY <1>1 DEF AccountsInv, WritesSound, Decided
    <2>11. i \in Schools =>
             \/ i \in halves \cup moved' \/ d.school = i
             \/ \E q \in UserRequests : pending'[q] = Decision("own", i, None)
      <3> SUFFICES ASSUME i \in Schools, d.school # i, i \notin halves \cup moved'
                   PROVE  \E q \in UserRequests : pending'[q] = Decision("own", i, None)
        OBVIOUS
      <3>1. user[i].school # i /\ i \notin halves \cup moved
        BY <1>3, <2>2, <2>4
      <3>2. PICK q \in UserRequests : pending[q] = Decision("own", i, None)
        BY <1>5, <3>1 DEF AccountsInv, SchoolsWhole
      <3>3. q # r
        BY <1>1, <3>2 DEF Decision, Verdict
      <3> QED  BY <1>2, <3>2, <3>3 DEF Responds, AccountsInv, AccountsTyped
    <2>12. ASSUME NEW j \in Known \ doubtful, i \notin doubtful', j # i, d.phone # None,
                  user[j].phone = d.phone
           PROVE  PhoneAlike(d, user[j])
      <3>1. CASE x[1] = "phone"
        <4>1. j \in Vouched(pending[r]) \ {i}
          BY <2>6, <2>12, <3>1 DEF Vouched, FindByPhone
        <4> QED  BY <2>2, <2>6, <2>12, <3>1, <4>1 DEF PhoneAlike
      <3>2. CASE x[1] = "email"
        <4>1. d.phone = user[i].phone /\ i \in Schools
          BY <1>1, <2>2, <3>2
        <4> QED  BY <2>5, <2>12, <4>1, AccountsAssumption DEF Ordinary
      <3> QED  BY <2>2, <2>4, <2>12, <3>1, <3>2
    <2> HIDE DEF i, x
    <2>13. pending[r].op # "own"
      BY <1>1
    <2> QED  BY <2>8, <2>9, <2>10, <2>11, <2>12, <2>13, WrittenKeeps
  <1> QED  BY <1>4, <1>5 DEF UpdateOne

LEMMA DeleteOneKeeps ==
    ASSUME AccountsInv, NEW r \in UserRequests, DeleteOne(r)
    PROVE  AccountsInv'
  <1> DEFINE i == pending[r].id
  <1>1. /\ i \in Ids /\ user[i] # None /\ MembersCounted(pending[r])
        /\ pending[r].op = "delete"
    BY DEF AccountsInv, WritesSound, Decided, DeleteOne
  <1>2. /\ user' = [user EXCEPT ![i] = Gone]
        /\ uncounted' = IF pending[r].unsure THEN uncounted \cup {i} ELSE uncounted
        /\ Responds(r)
        /\ UNCHANGED <<class, tokens, requested, halves, doubtful, moved>>
    BY DEF DeleteOne
  <1>3. \A j \in Ids : user'[j] = IF j = i THEN Gone ELSE user[j]
    BY <1>2 DEF AccountsInv, AccountsTyped
  <1>4. \A j \in Known' : j \in Ids /\ j # i /\ j \in Known /\ user'[j] = user[j]
    BY <1>3 DEF Known
  <1>5. AccountsTyped' /\ Aged /\ Arrives
    <2>1. AccountsTyped'
      BY <1>1, <1>2, IdleSound DEF AccountsInv, AccountsTyped, Responds
    <2>2. Aged
      BY <1>2, <1>3, <1>4, AccountsAssumption DEF Aged
    <2>3. Arrives
      BY <1>2, <1>4 DEF Arrives
    <2> QED  BY <2>1, <2>2, <2>3
  <1>6. /\ WritesSound' /\ CreatesApart'
        /\ (\A c \in tokens : TokenTrue(c))' /\ (\A k \in Classes : ClassTrue(k))'
    <2>1. Continues(r, Undecided)
      BY <1>2, IdleContinues
    <2>2. \A q \in UserRequests \ {r} :
             pending[q].op = "create" => user'[pending[q].id] = None
      BY <1>1, <1>3 DEF AccountsInv, WritesSound, Decided
    <2>3. \A q \in UserRequests \ {r} : \A v \in UserWrites :
             v = pending[q] => MembersCounted(v)'
      BY <1>5, CountsKept
    <2> QED  BY <1>5, <2>1, <2>2, <2>3, OthersKept
  <1>7. Individuals' /\ PhonesDistinct'
    BY <1>2, <1>4 DEF AccountsInv, Individuals, PhonesDistinct
  <1>8. SchoolsWhole'
    <2> SUFFICES ASSUME NEW s \in Known' \cap Schools, user[s].school # s,
                        s \notin halves \cup moved
                 PROVE  \E q \in UserRequests : pending'[q] = Decision("own", s, None)
      BY <1>2, <1>4 DEF SchoolsWhole
    <2>1. PICK q \in UserRequests : pending[q] = Decision("own", s, None)
      BY <1>4 DEF AccountsInv, SchoolsWhole
    <2>2. q # r
      BY <1>1, <2>1 DEF Decision, Verdict
    <2> QED  BY <1>2, <2>1, <2>2 DEF Responds, AccountsInv, AccountsTyped
  <1>9. MembersKept'
    <2> SUFFICES ASSUME NEW j \in Known', user[j].role \in {"teacher", "student"},
                        NEW s \in Schools, s = user[j].school, user'[s] = Gone
                 PROVE  {j, s} \cap uncounted' # {}
      BY <1>4 DEF MembersKept
    <2>1. uncounted \subseteq uncounted' /\ s \in Ids /\ j \in Known
      BY <1>2, <1>4 DEF Ids
    <2>2. CASE user[s] = Gone
      BY <2>1, <2>2 DEF AccountsInv, MembersKept
    <2>3. CASE s = i /\ pending[r].unsure
      BY <1>2, <2>3
    <2>4. CASE s = i /\ ~ pending[r].unsure
      BY <1>1, <2>1, <2>4 DEF MembersCounted, NoneLeft
    <2> QED  BY <1>3, <2>1, <2>2, <2>3, <2>4
  <1> QED  BY <1>5, <1>6, <1>7, <1>8, <1>9 DEF AccountsInv

LEMMA SetOwnSchoolKeeps ==
    ASSUME AccountsInv, NEW r \in UserRequests, SetOwnSchool(r)
    PROVE  AccountsInv'
  <1> DEFINE s == pending[r].id  d == [user[s] EXCEPT !.school = s]
  <1>1. /\ s \in Schools /\ s \in Ids /\ user[s] # None /\ pending[r].op = "own"
        /\ pending[r] = Decision("own", s, None)
    BY DEF AccountsInv, WritesSound, Decided, SetOwnSchool
  <1>2. /\ Responds(r)
        /\ UNCHANGED <<class, tokens, requested, halves, doubtful, moved, uncounted>>
    BY DEF SetOwnSchool, marks
  <1>3. CASE s \notin Known
    <2>1. user' = user
      BY <1>3 DEF SetOwnSchool
    <2> QED
      BY <1>1, <1>2, <1>3, <2>1, IdleSound, DecidesKeeps
      DEF Responds, AccountsInv, AccountsTyped
  <1>4. CASE s \in Known
    <2>1. /\ user' = [user EXCEPT ![s] = d] /\ d \in UserDocs
          /\ d.role = user[s].role /\ d.tenant = user[s].tenant
          /\ d.phone = user[s].phone /\ d.email = user[s].email /\ d.school = s
      <3>1. user[s] \in UserDocs
        BY <1>4, KnownDoc DEF AccountsInv
      <3>2. user' = [user EXCEPT ![s] = d]
        BY <1>4 DEF SetOwnSchool
      <3> QED  BY <1>1, <3>1, <3>2, SchoolRenewed
    <2> HIDE DEF d
    <2>2. /\ \A j \in Ids : user'[j] = IF j = s THEN d ELSE user[j]
          /\ d \notin {None, Gone} /\ d.role = "school_admin" /\ s \notin People
      BY <1>1, <1>4, <2>1, AccountsAssumption
      DEF AccountsInv, AccountsTyped, Individuals, Fits
    <2>3. Known' = Known /\ Known \subseteq Ids
      BY <1>1, <1>4, <2>2 DEF Known
    <2>4. AccountsTyped' /\ Aged /\ Arrives
      <3>1. AccountsTyped'
        BY <1>2, <2>1, IdleSound DEF AccountsInv, AccountsTyped, Responds
      <3>2. Aged
        BY <1>2, <1>1, <1>4, <2>1, <2>2, <2>3 DEF Aged
      <3>3. Arrives
        BY <1>2, <2>2, <2>3 DEF Arrives
      <3> QED  BY <3>1, <3>2, <3>3
    <2>5. /\ WritesSound' /\ CreatesApart'
          /\ (\A c \in tokens : TokenTrue(c))' /\ (\A k \in Classes : ClassTrue(k))'
      <3>1. Continues(r, Undecided)
        BY <1>2, IdleContinues
      <3>2. \A q \in UserRequests \ {r} :
               pending[q].op = "create" => user'[pending[q].id] = None
        BY <1>1, <2>2 DEF AccountsInv, WritesSound, Decided
      <3>3. \A q \in UserRequests \ {r} : \A v \in UserWrites :
               v = pending[q] => MembersCounted(v)'
        BY <2>4, CountsKept
      <3> QED  BY <2>4, <3>1, <3>2, <3>3, OthersKept
    <2>6. Individuals'
      <3> SUFFICES ASSUME NEW j \in Known
                   PROVE  Fits(j, user'[j]) /\ (j \notin doubtful => Ordinary(j, user'[j]))
        BY <1>2, <2>3 DEF Individuals
      <3>1. Fits(j, user[j]) /\ (j \notin doubtful => Ordinary(j, user[j]))
        BY DEF AccountsInv, Individuals
      <3>2. CASE j = s
        BY <1>1, <2>1, <2>2, <3>1, <3>2 DEF Fits, Ordinary
      <3>3. CASE j # s
        BY <2>2, <2>3, <3>1, <3>3
      <3> QED  BY <3>2, <3>3
    <2>7. SchoolsWhole'
      <3> SUFFICES ASSUME NEW t \in Known \cap Schools, t # s, user[t].school # t,
                          t \notin halves \cup moved
                   PROVE  \E q \in UserRequests : pending'[q] = Decision("own", t, None)
        BY <1>2, <2>1, <2>2, <2>3 DEF SchoolsWhole
      <3>1. PICK q \in UserRequests : pending[q] = Decision("own", t, None)
        BY DEF AccountsInv, SchoolsWhole
      <3>2. q # r
        BY <1>1, <3>1 DEF Decision, Verdict
      <3> QED  BY <1>2, <3>1, <3>2 DEF Responds, AccountsInv, AccountsTyped
    <2>8. PhonesDistinct'
      <3>1. s \in doubtful \/ user[s].phone = None
        BY <1>4, <2>2 DEF AccountsInv, Individuals, Ordinary
      <3>2. \A j \in Known : user'[j].phone = user[j].phone /\ (j # s => user'[j] = user[j])
        BY <2>1, <2>2, <2>3
      <3> QED  BY <1>2, <2>3, <3>1, <3>2 DEF AccountsInv, PhonesDistinct
    <2>9. MembersKept'
      <3>1. \A t \in Schools : user'[t] = Gone => user[t] = Gone
        BY <2>2 DEF Ids
      <3> QED  BY <2>4, <3>1, MembersStay
    <2> QED  BY <2>4, <2>5, <2>6, <2>7, <2>8, <2>9 DEF AccountsInv
  <1> QED  BY <1>3, <1>4

LEMMA CutRequestKeeps ==
    ASSUME AccountsInv, NEW r \in UserRequests, CutRequest(r)
    PROVE  AccountsInv'
  <1>1. pending[r].op = "own" => pending[r].id \in Ids /\ pending[r].id \in halves'
    BY DEF AccountsInv, WritesSound, Decided, CutRequest
  <1>2. halves \subseteq halves' /\ halves' \in SUBSET Ids
    BY <1>1 DEF CutRequest, AccountsInv, AccountsTyped
  <1> QED
    BY <1>1, <1>2, IdleSound, DecidesKeeps
    DEF CutRequest, Responds, AccountsInv, AccountsTyped

LEMMA CountsKeeps ==
    ASSUME AccountsInv, NEW r \in UserRequests, CountMembers(r)
    PROVE  AccountsInv'
  <1>1. UNCHANGED <<user, class, tokens, requested, marks>> /\ pending[r].op # "own"
    BY DEF CountMembers, Counts
  <1>2. ASSUME NEW op \in UserOps, NEW role \in Roles, NEW next \in UserOps,
               pending[r].op = op, CountBySchoolAndRole(pending[r].id, role) = 0,
               \/ (op = "count_teachers" /\ role = "teacher" /\ next = "count_students")
               \/ (op = "count_students" /\ role = "student" /\ next = "delete"),
               pending' = [pending EXCEPT ![r] = [pending[r] EXCEPT !.op = next]]
        PROVE  AccountsInv'
    <2>1. PICK v \in UserWrites : v = pending[r]
      BY DEF AccountsInv, AccountsTyped
    <2>2. PICK w : w = [v EXCEPT !.op = next]
      OBVIOUS
    <2>3. /\ w \in UserWrites /\ w.op = next /\ w.id = v.id /\ w.doc = v.doc
          /\ w.seen = v.seen /\ w.unsure = v.unsure
      BY <2>2 DEF UserWrites
    <2>4. Decided(v) /\ MembersCounted(v)
      BY <2>1 DEF AccountsInv, WritesSound
    <2>5. NoneLeft(w.id, role)
      <3>1. /\ IsFiniteSet(Known)
            /\ IsFiniteSet({i \in Known : user[i].school = v.id /\ user[i].role = role})
        BY AccountsAssumption, FS_Subset DEF Known
      <3>2. {i \in Known : user[i].school = v.id /\ user[i].role = role} = {}
        BY <1>2, <2>1, <3>1, FS_EmptySet DEF CountBySchoolAndRole
      <3> QED  BY <2>3, <3>2 DEF NoneLeft
    <2>6. Decided(w) /\ Checked(w)
      BY <1>2, <2>1, <2>3, <2>4 DEF Decided, Checked
    <2>7. MembersCounted(w)
      BY <1>2, <2>1, <2>3, <2>4, <2>5 DEF MembersCounted
    <2> QED
      BY <1>1, <1>2, <2>1, <2>2, <2>3, <2>6, <2>7, DecidesKeeps
      DEF marks, AccountsInv, AccountsTyped
  <1>3. CASE Responds(r)
    BY <1>1, <1>3, IdleSound, DecidesKeeps DEF Responds, marks, AccountsInv, AccountsTyped
  <1> QED  BY <1>2, <1>3 DEF CountMembers, Counts, Responds, UserOps, Roles

-----------------------------------------------------------------------------
(* Logins and tokens. *)

LEMMA LoginKeeps ==
    ASSUME AccountsInv, NEW i \in Ids, Login(i)
    PROVE  AccountsInv'
  <1> DEFINE c == CreateAccessToken(i)
  <1>1. /\ i \in Known /\ tokens' = tokens \cup {c}
        /\ UNCHANGED <<user, class, pending, requested, marks>>
    BY DEF Login
  <1>2. user[i] \in UserDocs /\ Fits(i, user[i]) /\ user[i] # None
    BY <1>1, KnownDoc DEF AccountsInv, Individuals
  <1>3. c \in TokenClaims /\ c.sub = i /\ c.role = user[i].role /\ c.school = user[i].school
    BY <1>2, UserDocFields DEF CreateAccessToken, TokenClaims, Fits
  <1>4. c.role \in {"teacher", "content_creator"} => i \in People
    BY <1>2, <1>3 DEF Fits, Ids
  <1> HIDE DEF c
  <1>5. TokenTrue(c)
    BY <1>2, <1>3, <1>4 DEF TokenTrue, Fits
  <1>6. AccountsTyped' /\ Known' = Known
    BY <1>1, <1>3 DEF AccountsInv, AccountsTyped, marks, Known
  <1>7. Individuals' /\ CreatesApart' /\ SchoolsWhole' /\ PhonesDistinct' /\ MembersKept'
    BY <1>1, <1>6 DEF AccountsInv, Individuals, CreatesApart, SchoolsWhole, PhonesDistinct,
                      MembersKept, marks
  <1>8. WritesSound'
    BY <1>1, <1>6
    DEF AccountsInv, WritesSound, Decided, Checked, Vouched, MembersCounted, NoneLeft, marks
  <1>9. (\A x \in tokens : TokenTrue(x))' /\ (\A k \in Classes : ClassTrue(k))'
    BY <1>1, <1>5, <1>6 DEF AccountsInv, TokenTrue, ClassTrue, marks
  <1> QED  BY <1>6, <1>7, <1>8, <1>9 DEF AccountsInv

LEMMA ClassesChange ==
    ASSUME AccountsInv, UNCHANGED <<user, pending, marks>>,
           tokens' \in SUBSET tokens, requested' \in 0 .. MaxRequests,
           class' \in [Classes -> ClassDocs \cup {None, Gone}],
           \A k \in Classes : ClassTrue(k)'
    PROVE  AccountsInv'
  <1>1. AccountsTyped' /\ Known' = Known
    BY DEF AccountsInv, AccountsTyped, marks, Known
  <1>2. Individuals' /\ CreatesApart' /\ SchoolsWhole' /\ PhonesDistinct' /\ MembersKept'
    BY <1>1 DEF AccountsInv, Individuals, CreatesApart, SchoolsWhole, PhonesDistinct,
                MembersKept, marks
  <1>3. WritesSound'
    BY <1>1
    DEF AccountsInv, WritesSound, Decided, Checked, Vouched, MembersCounted, NoneLeft, marks
  <1>4. (\A x \in tokens : TokenTrue(x))'
    BY <1>1 DEF AccountsInv, TokenTrue, marks
  <1> QED  BY <1>1, <1>2, <1>3, <1>4 DEF AccountsInv

LEMMA CountedType ==
    ASSUME AccountsInv, Counted
    PROVE  requested' \in 0 .. MaxRequests
  BY AccountsAssumption DEF AccountsInv, AccountsTyped, Counted

LEMMA ExpiresKeeps ==
    ASSUME AccountsInv, NEW c \in tokens, Expires(c)
    PROVE  AccountsInv'
  <1>1. \A k \in Classes : ClassTrue(k)'
    BY DEF AccountsInv, Expires, ClassTrue, Known, marks
  <1> QED  BY <1>1, ClassesChange DEF Expires, AccountsInv, AccountsTyped

LEMMA UpsertClassKeeps ==
    ASSUME AccountsInv, NEW k \in Classes, NEW c \in tokens, UpsertClass(k, c)
    PROVE  AccountsInv'
  <1>1. /\ c \in TokenClaims /\ TokenTrue(c) /\ c.sub \in People
    BY DEF AccountsInv, AccountsTyped, UpsertClass, RequireRole, TokenTrue
  <1>2. requested' \in 0 .. MaxRequests /\ UNCHANGED <<user, tokens, pending, marks>>
    BY CountedType DEF UpsertClass
  <1>3. PICK members \in SUBSET People :
          \/ class' = [class EXCEPT ![k] =
                [teacher |-> c.sub, school |-> OrBlank(c.school), students |-> members]]
          \/ /\ class[k] \notin {None, Gone}
             /\ class' = [class EXCEPT ![k].students = members]
    BY DEF UpsertClass
  <1>4. CASE class' = [class EXCEPT ![k] =
                [teacher |-> c.sub, school |-> OrBlank(c.school), students |-> members]]
    <2>1. PICK d : d = [teacher |-> c.sub, school |-> OrBlank(c.school), students |-> members]
      OBVIOUS
    <2>2. OrBlank(c.school) \in Schools \cup {Blank}
      BY <1>1 DEF OrBlank, TokenClaims
    <2>3. d \in ClassDocs /\ d.teacher = c.sub /\ d.school = OrBlank(c.school)
      BY <1>1, <2>1, <2>2 DEF ClassDocs
    <2>4. /\ class' \in [Classes -> ClassDocs \cup {None, Gone}]
          /\ \A q \in Classes : class'[q] = IF q = k THEN d ELSE class[q]
      BY <1>4, <2>1, <2>3 DEF AccountsInv, AccountsTyped
    <2>5. ASSUME NEW q \in Classes
          PROVE  ClassTrue(q)'
      <3>1. CASE q = k
        BY <1>1, <1>2, <2>3, <2>4, <3>1 DEF ClassTrue, TokenTrue, Known, marks
      <3>2. CASE q # k
        BY <1>2, <2>4, <3>2 DEF ClassTrue, AccountsInv, Known, marks
      <3> QED  BY <3>1, <3>2
    <2> QED  BY <1>2, <2>4, <2>5, ClassesChange
  <1>5. CASE class[k] \notin {None, Gone} /\ class' = [class EXCEPT ![k].students = members]
    <2>1. PICK d : d = [class[k] EXCEPT !.students = members]
      OBVIOUS
    <2>2. class[k] \in ClassDocs
      BY <1>5 DEF AccountsInv, AccountsTyped
    <2>3. d \in ClassDocs /\ d.teacher = class[k].teacher /\ d.school = class[k].school
      BY <2>1, <2>2 DEF ClassDocs
    <2>4. class' = [class EXCEPT ![k] = d]
      BY <1>5, <2>1
    <2>5. /\ class' \in [Classes -> ClassDocs \cup {None, Gone}]
          /\ \A q \in Classes : class'[q] = IF q = k THEN d ELSE class[q]
      BY <2>3, <2>4 DEF AccountsInv, AccountsTyped
    <2>6. ASSUME NEW q \in Classes
          PROVE  ClassTrue(q)'
      BY <1>2, <1>5, <2>3, <2>5 DEF ClassTrue, AccountsInv, Known, marks
    <2> QED  BY <1>2, <2>5, <2>6, ClassesChange
  <1> QED  BY <1>3, <1>4, <1>5

LEMMA RemoveClassKeeps ==
    ASSUME AccountsInv, NEW k \in Classes, NEW c \in tokens, RemoveClass(k, c)
    PROVE  AccountsInv'
  <1>1. requested' \in 0 .. MaxRequests /\ UNCHANGED <<user, tokens, pending, marks>>
    BY CountedType DEF RemoveClass
  <1>2. /\ class' \in [Classes -> ClassDocs \cup {None, Gone}]
        /\ \A q \in Classes : class'[q] = IF q = k THEN Gone ELSE class[q]
    BY DEF AccountsInv, AccountsTyped, RemoveClass
  <1>3. \A q \in Classes : ClassTrue(q)'
    BY <1>1, <1>2 DEF ClassTrue, AccountsInv, Known, marks
  <1> QED  BY <1>1, <1>2, <1>3, ClassesChange

-----------------------------------------------------------------------------
(* What the services decide. *)

LEMMA AsksKeeps ==
    ASSUME AccountsInv, NEW r \in UserRequests, NEW w \in UserWrites, Asks(r, w),
           Decided(w), Checked(w), MembersCounted(w),
           w.op = "create" => \A q \in UserRequests : pending[q].id # w.id
    PROVE  AccountsInv'
  <1>1. /\ pending[r].op = "idle" /\ requested' \in 0 .. MaxRequests
        /\ pending' = [pending EXCEPT ![r] = w]
        /\ UNCHANGED <<user, class, tokens, marks>>
    BY CountedType DEF Asks
  <1>2. moved' \in SUBSET Ids /\ halves' \in SUBSET Ids
    BY <1>1 DEF marks, AccountsInv, AccountsTyped
  <1> QED  BY <1>1, <1>2, DecidesKeeps DEF marks

LEMMA Found ==
    ASSUME AccountsInv, NEW p
    PROVE  /\ FindByPhone(p) \in SUBSET Ids
           /\ \A j \in FindByPhone(p) : j \in Known /\ user[j].phone = p /\ user[j] # None
  BY DEF FindByPhone, Known

LEMMA CreateAsked ==
    ASSUME AccountsInv, NEW r \in UserRequests, NEW i \in Fresh(Ids),
           NEW d \in UserDocs, Fits(i, d), Ordinary(i, d), NEW S \in SUBSET Known,
           NEW b \in BOOLEAN, Asks(r, Verdict("create", i, d, S, b)),
           ~ b => \A j \in S \ doubtful :
               /\ d.role \in {"teacher", "content_creator"} => user[j].role = "student"
               /\ d.role = "student" => j \in People /\ user[j].school # d.school
    PROVE  AccountsInv'
  <1>1. PICK w : w = Verdict("create", i, d, S, b)
    OBVIOUS
  <1>2. i \in Ids /\ user[i] = None /\ \A q \in UserRequests : pending[q].id # i
    BY DEF Fresh
  <1>3. /\ w \in UserWrites /\ w.op = "create" /\ w.id = i /\ w.doc = d /\ w.seen = S
        /\ w.unsure = b
    <2>1. S \in SUBSET Ids
      BY DEF Known
    <2> QED  BY <1>1, <1>2, <2>1 DEF Verdict, UserWrites, UserOps
  <1>4. Decided(w) /\ Checked(w) /\ MembersCounted(w)
    BY <1>2, <1>3 DEF Decided, Checked, MembersCounted, Known, Vouched
  <1> QED  BY <1>1, <1>2, <1>3, <1>4, AsksKeeps

LEMMA UpdateAsked ==
    ASSUME AccountsInv, NEW r \in UserRequests, NEW i \in Known, NEW x \in Renewals,
           NEW S \in SUBSET Known, NEW b \in BOOLEAN,
           Asks(r, Verdict("update", i, x, S, b)),
           x[1] = "email" => i \in Schools, x[1] = "school" => b,
           x[1] = "phone" /\ ~ b /\ i \notin doubtful =>
               /\ i \in People /\ user[i].role = "student"
               /\ \A j \in S \ (doubtful \cup {i}) :
                    j \in People /\ user[j].school # user[i].school
    PROVE  AccountsInv'
  <1>1. PICK w : w = Verdict("update", i, x, S, b)
    OBVIOUS
  <1>2. i \in Ids /\ user[i] # None /\ S \in SUBSET Ids
    BY DEF Known
  <1>3. /\ w \in UserWrites /\ w.op = "update" /\ w.id = i /\ w.doc = x /\ w.seen = S
        /\ w.unsure = b
    BY <1>1, <1>2 DEF Verdict, UserWrites, UserOps
  <1>4. Decided(w) /\ Checked(w) /\ MembersCounted(w)
    BY <1>2, <1>3 DEF Decided, Checked, MembersCounted, Known, Vouched
  <1> QED  BY <1>1, <1>3, <1>4, AsksKeeps

LEMMA RemovalAsked ==
    ASSUME AccountsInv, NEW r \in UserRequests, NEW i \in Known,
           NEW op \in {"delete", "count_teachers"}, NEW b \in BOOLEAN,
           Asks(r, Verdict(op, i, None, {}, b)),
           op = "delete" /\ i \in Schools => b,
           op = "count_teachers" => i \in Schools /\ ~ b
    PROVE  AccountsInv'
  <1>1. PICK w : w = Verdict(op, i, None, {}, b)
    OBVIOUS
  <1>2. i \in Ids /\ user[i] # None
    BY DEF Known
  <1>3. /\ w \in UserWrites /\ w.op = op /\ w.id = i /\ w.seen = {} /\ w.unsure = b
    BY <1>1, <1>2 DEF Verdict, UserWrites, UserOps
  <1>4. Decided(w) /\ Checked(w) /\ MembersCounted(w)
    BY <1>2, <1>3 DEF Decided, Checked, MembersCounted
  <1> QED  BY <1>1, <1>3, <1>4, AsksKeeps

LEMMA Renewing ==
    /\ \A p \in PhoneNumbers : <<"phone", p>> \in Renewals /\ <<"phone", p>>[1] = "phone"
    /\ \A e \in Emails : <<"email", e>> \in Renewals /\ <<"email", e>>[1] = "email"
    /\ \A s \in Schools : <<"school", s>> \in Renewals /\ <<"school", s>>[1] = "school"
  BY DEF Renewals

(* The caller. *)
LEMMA Caller ==
    ASSUME AccountsInv, NEW c \in tokens
    PROVE  /\ c.school \in Schools \cup {None, Blank} /\ c.tenant \in Tenants
           /\ c.role = "tenant" => c.sub \in Tenants
           /\ OrBlank(c.school) \in Schools \cup {None, Blank}
  BY DEF AccountsInv, AccountsTyped, TokenClaims, TokenTrue, OrBlank

LEMMA FreshOf ==
    ASSUME NEW S \in SUBSET Ids, NEW i \in Fresh(S)
    PROVE  i \in S /\ i \in Fresh(Ids)
  BY DEF Fresh

LEMMA TenantRegisterKeeps ==
    ASSUME AccountsInv, NEW r \in UserRequests, TenantRegister(r)
    PROVE  AccountsInv'
  <1>1. PICK i \in Fresh(Tenants), e \in Emails : RegisterTenant(r, i, e)
    BY DEF TenantRegister
  <1>2. PICK d : d = Doc("tenant", None, None, None, e)
    OBVIOUS
  <1>3. /\ d \in UserDocs /\ d.role = "tenant" /\ d.phone = None
    BY <1>2 DEF Doc, UserDocs, Roles
  <1>4. i \in Tenants /\ i \in Fresh(Ids)
    BY FreshOf DEF Ids
  <1>5. Fits(i, d) /\ Ordinary(i, d)
    BY <1>3, <1>4, AccountsAssumption DEF Fits, Ordinary
  <1>6. Asks(r, Verdict("create", i, d, {}, FALSE))
    BY <1>1, <1>2 DEF RegisterTenant, Decision
  <1> QED  BY <1>3, <1>4, <1>5, <1>6, CreateAsked

LEMMA PostSchoolKeeps ==
    ASSUME AccountsInv, NEW r \in UserRequests, NEW c \in tokens, PostSchool(r, c)
    PROVE  AccountsInv'
  <1>1. PICK i \in Fresh(Schools), e \in Emails : CreateSchool(r, i, e, c.sub)
    BY DEF PostSchool
  <1>2. PICK d : d = Doc("school_admin", c.sub, None, None, e)
    OBVIOUS
  <1>3. c.sub \in Tenants
    BY Caller DEF PostSchool, RequireRole
  <1>4. /\ d \in UserDocs /\ d.role = "school_admin" /\ d.phone = None /\ d.tenant = c.sub
    BY <1>2, <1>3 DEF Doc, UserDocs, Roles
  <1>5. i \in Schools /\ i \in Fresh(Ids)
    BY FreshOf DEF Ids
  <1>6. Fits(i, d) /\ Ordinary(i, d)
    BY <1>3, <1>4, <1>5, AccountsAssumption DEF Fits, Ordinary, Ids
  <1>7. Asks(r, Verdict("create", i, d, {}, FALSE))
    BY <1>1, <1>2 DEF CreateSchool, Decision
  <1> QED  BY <1>4, <1>5, <1>6, <1>7, CreateAsked

LEMMA TeacherRegisterKeeps ==
    ASSUME AccountsInv, NEW r \in UserRequests, NEW c \in tokens, TeacherRegister(r, c)
    PROVE  AccountsInv'
  <1>1. PICK i \in Fresh(People), p \in PhoneNumbers,
             role \in {"teacher", "content_creator"} : RegisterTeacher(r, i, role, p, c)
    BY DEF TeacherRegister
  <1>2. PICK d : d = Doc(role, c.tenant, c.school, p, p)
    OBVIOUS
  <1>3. /\ d \in UserDocs /\ d.role = role /\ d.phone = p /\ d.email = p
        /\ d.tenant \in Tenants
    BY <1>2, Caller DEF Doc, UserDocs, Roles
  <1>4. i \in People /\ i \in Fresh(Ids)
    BY FreshOf DEF Ids
  <1>5. Fits(i, d) /\ Ordinary(i, d)
    BY <1>3, <1>4, AccountsAssumption DEF Fits, Ordinary, Ids
  <1>6. Asks(r, Verdict("create", i, d, FindByPhone(p), FALSE))
    BY <1>1, <1>2 DEF RegisterTeacher
  <1>7. FindByPhone(p) \in SUBSET Known
    BY Found
  <1>8. \A j \in FindByPhone(p) \ doubtful : user[j].role = "student"
    <2> SUFFICES ASSUME NEW j \in FindByPhone(p) \ doubtful
                 PROVE  user[j].role = "student"
      OBVIOUS
    <2>1. /\ j \in Known /\ user[j].phone = p /\ p # None /\ user[j] \in UserDocs
          /\ Fits(j, user[j]) /\ Ordinary(j, user[j])
      BY Found, KnownDoc, AccountsAssumption DEF AccountsInv, Individuals
    <2>2. user[j].email # p
      BY <1>1, <2>1 DEF RegisterTeacher, FindByEmail
    <2>3. user[j].role \in Roles
      BY <2>1, UserDocFields
    <2> QED  BY <2>1, <2>2, <2>3, AccountsAssumption DEF Fits, Ordinary, Roles
  <1> HIDE DEF FindByPhone
  <1> QED  BY <1>3, <1>4, <1>5, <1>6, <1>7, <1>8, CreateAsked

(* A phone that a check finds free in a school. *)
LEMMA PhoneFree ==
    ASSUME AccountsInv, NEW p \in PhoneNumbers, NEW school, NEW self,
           NEW found \in FindOne(FindByPhone(p)),
           found \notin {None, self} => user[found].school # school,
           ~ Hides(found, p, school, self)
    PROVE  \A j \in FindByPhone(p) \ (doubtful \cup {self}) :
               j \in People /\ user[j].school # school
  <1> SUFFICES ASSUME NEW j \in FindByPhone(p) \ (doubtful \cup {self})
               PROVE  j \in People /\ user[j].school # school
    OBVIOUS
  <1>1. /\ j \in Known /\ user[j].phone = p /\ p # None /\ Ordinary(j, user[j])
        /\ j \in Ids /\ j # None
    BY Found, AccountsAssumption DEF AccountsInv, Individuals, Known
  <1>2. user[j].school # school
    BY <1>1 DEF Hides
  <1> QED  BY <1>1, <1>2 DEF Ordinary

LEMMA PostStudentKeeps ==
    ASSUME AccountsInv, NEW r \in UserRequests, NEW c \in tokens, PostStudent(r, c)
    PROVE  AccountsInv'
  <1> DEFINE school == OrBlank(c.school)
  <1>1. PICK i \in Fresh(People), p \in PhoneNumbers :
             CreateStudent(r, i, p, school, c.tenant)
    BY DEF PostStudent
  <1>2. PICK d : d = Doc("student", c.tenant, school, p, None)
    OBVIOUS
  <1>3. PICK found \in FindOne(FindByPhone(p)) :
          /\ found # None => user[found].school # school
          /\ Asks(r, Verdict("create", i, d, FindByPhone(p), Hides(found, p, school, i)))
    BY <1>1, <1>2 DEF CreateStudent
  <1>4. /\ d \in UserDocs /\ d.role = "student" /\ d.phone = p /\ d.tenant \in Tenants
        /\ d.school = school
    BY <1>2, Caller DEF Doc, UserDocs, Roles
  <1> HIDE DEF school
  <1>5. i \in People /\ i \in Fresh(Ids) /\ i \notin Known
    BY FreshOf DEF Ids, Fresh, Known
  <1>6. Fits(i, d) /\ Ordinary(i, d)
    BY <1>4, <1>5, AccountsAssumption DEF Fits, Ordinary, Ids
  <1>7. FindByPhone(p) \in SUBSET Known /\ i \notin FindByPhone(p)
    BY <1>5, Found
  <1>8. ~ Hides(found, p, school, i) => \A j \in FindByPhone(p) \ doubtful :
            j \in People /\ user[j].school # d.school
    BY <1>3, <1>4, <1>7, PhoneFree
  <1>9. Hides(found, p, school, i) \in BOOLEAN
    BY DEF Hides
  <1> QED  BY <1>3, <1>4, <1>5, <1>6, <1>7, <1>8, <1>9, CreateAsked

LEMMA PatchStudentKeeps ==
    ASSUME AccountsInv, NEW r \in UserRequests, NEW c \in tokens, PatchStudent(r, c)
    PROVE  AccountsInv'
  <1>1. PICK i \in Ids, p \in PhoneNumbers : UpdateStudent(r, i, p, c.school)
    BY DEF PatchStudent
  <1>2. i \in Known /\ user[i].school = c.school
    BY <1>1 DEF UpdateStudent
  <1>3. PICK found \in FindOne(FindByPhone(p)) :
          /\ found \notin {None, i} => user[found].school # c.school
          /\ Asks(r, Verdict("update", i, <<"phone", p>>, FindByPhone(p),
                  user[i].role # "student" \/ Hides(found, p, c.school, i)))
    BY <1>1 DEF UpdateStudent
  <1> DEFINE b == user[i].role # "student" \/ Hides(found, p, c.school, i)
  <1>4. b \in BOOLEAN /\ FindByPhone(p) \in SUBSET Known
    BY Found DEF Hides
  <1>5. PICK x \in Renewals : x = <<"phone", p>> /\ x[1] = "phone"
    BY Renewing
  <1>6. ~ b => \A j \in FindByPhone(p) \ (doubtful \cup {i}) :
            j \in People /\ user[j].school # user[i].school
    BY <1>2, <1>3, PhoneFree
  <1>7. ~ b /\ i \notin doubtful => i \in People /\ user[i].role = "student"
    <2> HAVE ~ b /\ i \notin doubtful
    <2>1. user[i].role = "student" /\ Fits(i, user[i])
      BY <1>2 DEF AccountsInv, Individuals
    <2> QED  BY <2>1 DEF Fits, Ids
  <1>8. Asks(r, Verdict("update", i, x, FindByPhone(p), b))
    BY <1>3, <1>5
  <1> HIDE DEF b
  <1> QED  BY <1>2, <1>4, <1>5, <1>6, <1>7, <1>8, UpdateAsked

LEMMA PatchTeacherKeeps ==
    ASSUME AccountsInv, NEW r \in UserRequests, NEW c \in tokens, PatchTeacher(r, c)
    PROVE  AccountsInv'
  <1>1. PICK i \in Known, p \in PhoneNumbers :
             Asks(r, Verdict("update", i, <<"phone", p>>, {}, TRUE))
    BY DEF PatchTeacher, UpdateTeacher
  <1>2. PICK x \in Renewals : x = <<"phone", p>> /\ x[1] = "phone"
    BY Renewing
  <1> QED  BY <1>1, <1>2, UpdateAsked

LEMMA PatchSchoolKeeps ==
    ASSUME AccountsInv, NEW r \in UserRequests, NEW c \in tokens, PatchSchool(r, c)
    PROVE  AccountsInv'
  <1>1. PICK s \in Schools, e \in Emails :
          /\ s \in Known
          /\ Asks(r, Verdict("update", s, <<"email", e>>, {}, FALSE))
    BY DEF PatchSchool, UpdateSchool, FindSchool, Decision
  <1>2. PICK x \in Renewals : x = <<"email", e>> /\ x[1] = "email"
    BY Renewing
  <1> QED  BY <1>1, <1>2, UpdateAsked

LEMMA PostTransferKeeps ==
    ASSUME AccountsInv, NEW r \in UserRequests, NEW c \in tokens, PostTransfer(r, c)
    PROVE  AccountsInv'
  <1>1. PICK i \in Known, s \in Schools :
             Asks(r, Verdict("update", i, <<"school", s>>, {}, TRUE))
    BY DEF PostTransfer, TransferTeacher
  <1>2. PICK x \in Renewals : x = <<"school", s>> /\ x[1] = "school"
    BY Renewing
  <1> QED  BY <1>1, <1>2, UpdateAsked

LEMMA RemovalsKeep ==
    ASSUME AccountsInv, NEW r \in UserRequests, NEW c \in tokens,
           RemoveSchool(r, c) \/ RemoveTeacher(r, c) \/ RemoveStudent(r, c)
    PROVE  AccountsInv'
  <1>1. CASE RemoveSchool(r, c)
    <2>1. PICK s \in Schools :
            s \in Known /\ Asks(r, Verdict("count_teachers", s, None, {}, FALSE))
      BY <1>1 DEF RemoveSchool, DeleteSchool, FindSchool, Decision
    <2> QED  BY <2>1, RemovalAsked
  <1>2. CASE RemoveTeacher(r, c) \/ RemoveStudent(r, c)
    <2>1. PICK i \in Known : Asks(r, Verdict("delete", i, None, {}, i \in Schools))
      BY <1>2 DEF RemoveTeacher, DeleteTeacher, RemoveStudent, DeleteStudent
    <2>2. (i \in Schools) \in BOOLEAN
      OBVIOUS
    <2> QED  BY <2>1, <2>2, RemovalAsked
  <1> QED  BY <1>1, <1>2

-----------------------------------------------------------------------------

LEMMA AccountsStep ==
    ASSUME AccountsInv, AccountsNext
    PROVE  AccountsInv'
  <1>1. ASSUME NEW i \in Ids, Login(i)
        PROVE  AccountsInv'
    BY <1>1, LoginKeeps
  <1>2. ASSUME NEW c \in tokens, Expires(c)
        PROVE  AccountsInv'
    BY <1>2, ExpiresKeeps
  <1>3. ASSUME NEW r \in UserRequests,
               \/ InsertOne(r) \/ UpdateOne(r) \/ DeleteOne(r) \/ SetOwnSchool(r)
               \/ CutRequest(r) \/ CountMembers(r) \/ TenantRegister(r)
        PROVE  AccountsInv'
    BY <1>3, InsertOneKeeps, UpdateOneKeeps, DeleteOneKeeps, SetOwnSchoolKeeps,
       CutRequestKeeps, CountsKeeps, TenantRegisterKeeps
  <1>4. ASSUME NEW r \in UserRequests, NEW c \in tokens,
               \/ PostSchool(r, c) \/ PatchSchool(r, c) \/ RemoveSchool(r, c)
               \/ TeacherRegister(r, c) \/ PatchTeacher(r, c) \/ RemoveTeacher(r, c)
               \/ PostTransfer(r, c) \/ PostStudent(r, c) \/ PatchStudent(r, c)
               \/ RemoveStudent(r, c)
        PROVE  AccountsInv'
    BY <1>4, PostSchoolKeeps, PatchSchoolKeeps, RemovalsKeep, TeacherRegisterKeeps,
       PatchTeacherKeeps, PostTransferKeeps, PostStudentKeeps, PatchStudentKeeps
  <1>5. ASSUME NEW k \in Classes, NEW c \in tokens, UpsertClass(k, c) \/ RemoveClass(k, c)
        PROVE  AccountsInv'
    BY <1>5, UpsertClassKeeps, RemoveClassKeeps
  <1> QED  BY <1>1, <1>2, <1>3, <1>4, <1>5 DEF AccountsNext

LEMMA AccountsStutter ==
    ASSUME AccountsInv, UNCHANGED accountVars
    PROVE  AccountsInv'
  <1>1. \A k \in Classes : ClassTrue(k)'
    BY DEF AccountsInv, accountVars, marks, ClassTrue, Known
  <1> QED
    BY <1>1, ClassesChange DEF AccountsInv, AccountsTyped, accountVars

(* Users, schools and classes, and every request under way on what it has  *)
(* read of them, are as the inductive invariant says in every state.       *)
THEOREM AccountsInvariant == AccountsSpec => []AccountsInv
  <1>1. AccountsInit => AccountsInv
    BY InitAccounts
  <1>2. AccountsInv /\ [AccountsNext]_accountVars => AccountsInv'
    BY AccountsStep, AccountsStutter
  <1> QED  BY <1>1, <1>2, PTL DEF AccountsSpec

LEMMA InvConsistent ==
    ASSUME AccountsInv
    PROVE  AccountsConsistent /\ MembersKept
  <1>1. \A i \in Known : user[i].role \in Roles /\ user[i].tenant \in Tenants \cup {None}
                         /\ user[i].school \in Schools \cup {None, Blank}
    BY KnownDoc, UserDocFields DEF AccountsInv
  <1>2. \A r \in UserRequests : pending[r].op \in UserOps
    BY WriteTyped DEF AccountsInv
  <1>3. AccountsTypeOK
    BY <1>1, <1>2 DEF AccountsTypeOK, AccountsInv, AccountsTyped, TokenClaims, UserOps
  <1>4. ClassesInSchool
    BY DEF ClassesInSchool, AccountsInv, ClassTrue
  <1> QED  BY <1>3, <1>4 DEF AccountsConsistent, AccountsInv

(* Schools are whole, checked phones are distinct and classes are in the   *)
(* schools of their teachers.                                              *)
THEOREM AccountsAgree == AccountsSpec => []AccountsConsistent
  BY AccountsInvariant, InvConsistent, PTL

(* Nobody is left in a school that was deleted, but who came meanwhile. *)
THEOREM NobodyLosesSchool == AccountsSpec => []MembersKept
  BY AccountsInvariant, InvConsistent, PTL

-----------------------------------------------------------------------------
(* Catalogue: a client that reads a list to its end has seen all of it.    *)

ReaderStages == {"idle", "asked", "merging", "done"}
Readers ==
    [stage : ReaderStages, school : TenantSchools \cup {None}, filter : Filters \cup {None},
     after : Nat \cup {None}, first : SUBSET Items, seen : SUBSET Items,
     there : SUBSET Items, looped : BOOLEAN, tied : BOOLEAN, untimed : BOOLEAN]

CatalogueTyped ==
    /\ item \in [Items -> Docs \cup {None}] /\ reader \in Readers
    /\ now \in 0 .. MaxTime /\ changed \in 0 .. MaxChanges

Existing == {i \in Items : item[i] # None}

(* What the reader has still to see is in the list from its cursor on. *)
Ahead ==
    reader.stage \in {"asked", "merging"} =>
        reader.there \ reader.seen \subseteq Lasting(reader)

(* The recordings of a page are as old as its cursor at most; one that is     *)
(* not among them is older than all, and they are more than a page.           *)
FirstHalf ==
    reader.stage = "merging" =>
        /\ \A i \in reader.first :
             /\ item[i] # None
             /\ reader.after # None => item[i].at # None /\ item[i].at =< reader.after
        /\ \A i \in (reader.there \ reader.seen) \cap Recordings(reader) :
             \/ i \in reader.first
             \/ /\ Cardinality(reader.first) = PageSize + 1
                /\ \A j \in reader.first : Age(j) >= Age(i)

CatalogueInv == CatalogueTyped /\ Ahead /\ FirstHalf /\ PagesCover /\ PagesMove

-----------------------------------------------------------------------------
(* The order of the list.                                                    *)

LEMMA SmallestSet ==
    ASSUME NEW S, IsFiniteSet(S), NEW F, F \subseteq SUBSET S, F # {}
    PROVE  \E X \in F : \A Y \in F : Y \subseteq X => Y = X
  <1> DEFINE R == StrictSubsetOrdering(S)
  <1>1. IsWellFoundedOn(R, SUBSET S)
    BY FS_StrictSubsetOrderingWellFounded, FS_FiniteSubsetsOfFinite
  <1>2. \E X \in F : \A Y \in F : ~ (<<Y, X>> \in R)
    <2> HIDE DEF R
    <2> QED  BY <1>1, WFMin
  <1>3. PICK X \in F : \A Y \in F : ~ (<<Y, X>> \in R)
    BY <1>2
  <1>4. \A Y \in F : Y \subseteq X => Y = X
    BY <1>3 DEF StrictSubsetOrdering
  <1> QED  BY <1>4

LEMMA Ages ==
    ASSUME CatalogueTyped
    PROVE  \A i \in Existing : /\ Age(i) \in Nat /\ i \in Nat /\ item[i] \in Docs
                               /\ item[i].at # None => Age(i) = item[i].at
  <1>1. \A i \in Existing : item[i] \in Docs /\ i \in Nat
    BY CatalogueAssumption DEF CatalogueTyped, Existing
  <1>2. \A i \in Existing : item[i].at \in Nat \cup {None}
    BY <1>1 DEF Docs
  <1> QED  BY <1>1, <1>2 DEF Age

LEMMA ListOrder ==
    ASSUME CatalogueTyped
    PROVE  /\ \A i \in Existing : ~ Precedes(i, i)
           /\ \A i, j \in Existing : i # j => Precedes(i, j) \/ Precedes(j, i)
           /\ \A i, j, k \in Existing : Precedes(i, j) /\ Precedes(j, k) => Precedes(i, k)
           /\ \A i, j \in Existing : Precedes(i, j) => Age(i) >= Age(j)
  BY Ages DEF Precedes

LEMMA OldestOf ==
    ASSUME CatalogueTyped, NEW S, S \subseteq Existing, S # {}
    PROVE  \E i \in S : \A j \in S \ {i} : Precedes(j, i)
  <1> DEFINE Older(i) == {j \in S : Precedes(i, j)}
             F == {Older(i) : i \in S}
  <1>1. IsFiniteSet(S)
    BY CatalogueAssumption, FS_Subset DEF Existing
  <1>2. F \subseteq SUBSET S /\ F # {}
    OBVIOUS
  <1>3. PICK X \in F : \A Y \in F : Y \subseteq X => Y = X
    <2> HIDE DEF F
    <2> QED  BY <1>1, <1>2, SmallestSet
  <1>4. PICK i \in S : X = Older(i)
    OBVIOUS
  <1>5. Older(i) = {}
    <2> SUFFICES ASSUME NEW j \in Older(i)
                 PROVE  FALSE
      OBVIOUS
    <2>1. Older(j) \subseteq Older(i) /\ j \notin Older(j)
      BY ListOrder
    <2>2. Older(j) \in F
      OBVIOUS
    <2> QED  BY <1>3, <1>4, <2>1, <2>2
  <1>6. \A j \in S \ {i} : Precedes(j, i)
    BY <1>5, ListOrder
  <1> QED  BY <1>6

LEMMA NewestOf ==
    ASSUME CatalogueTyped, NEW S, S \subseteq Existing, NEW n \in Nat, n <= Cardinality(S)
    PROVE  \E T \in SUBSET S :
              Cardinality(T) = n /\ \A i \in T, j \in S \ T : Precedes(i, j)
  <1> DEFINE F == {T \in SUBSET S : /\ Cardinality(T) >= n
                                    /\ \A i \in T, j \in S \ T : Precedes(i, j)}
  <1>1. IsFiniteSet(S)
    BY CatalogueAssumption, FS_Subset DEF Existing
  <1>2. F \subseteq SUBSET S /\ S \in F
    BY <1>1, FS_CardinalityType
  <1>3. PICK T \in F : \A Y \in F : Y \subseteq T => Y = T
    <2> HIDE DEF F
    <2> QED  BY <1>1, <1>2, SmallestSet
  <1>4. IsFiniteSet(T) /\ Cardinality(T) \in Nat /\ T \subseteq S
    BY <1>1, FS_Subset, FS_CardinalityType
  <1>5. Cardinality(T) = n
    <2> SUFFICES ASSUME Cardinality(T) > n
                 PROVE  FALSE
      BY <1>4
    <2>1. T # {}
      BY FS_EmptySet
    <2>2. PICK i \in T : \A j \in T \ {i} : Precedes(j, i)
      BY <1>4, <2>1, OldestOf
    <2>3. Cardinality(T \ {i}) = Cardinality(T) - 1
      BY <1>4, FS_RemoveElement
    <2>4. \A k \in T \ {i}, j \in S \ (T \ {i}) : Precedes(k, j)
      BY <2>2
    <2>5. T \ {i} \in F
      BY <1>4, <2>3, <2>4
    <2> QED  BY <1>3, <2>5
  <1> QED  BY <1>5

\* The page is the first documents of the list, and at most PageSize.
LEMMA PageOf ==
    ASSUME CatalogueTyped, NEW S, S \subseteq Existing
    PROVE  /\ FirstOf(S) \subseteq S
           /\ Cardinality(FirstOf(S)) =
                IF Cardinality(S) < PageSize THEN Cardinality(S) ELSE PageSize
           /\ \A i \in FirstOf(S), j \in S \ FirstOf(S) : Precedes(i, j)
  <1>1. IsFiniteSet(S) /\ Cardinality(S) \in Nat /\ PageSize \in Nat
    BY CatalogueAssumption, FS_Subset, FS_CardinalityType DEF Existing
  <1> DEFINE n == IF Cardinality(S) < PageSize THEN Cardinality(S) ELSE PageSize
  <1>2. n \in Nat /\ n <= Cardinality(S)
    BY <1>1
  <1>3. \E T \in SUBSET S : Cardinality(T) = n /\ \A i \in T, j \in S \ T : Precedes(i, j)
    <2> HIDE DEF n
    <2> QED  BY <1>2, NewestOf
  <1> QED  BY <1>3 DEF FirstOf

LEMMA CursorIsOldest ==
    ASSUME CatalogueTyped, NEW S, S \subseteq Existing, S # {}
    PROVE  /\ LastOf(S) \in S
           /\ \A j \in S : Age(j) >= Age(LastOf(S))
           /\ \A j \in S \ {LastOf(S)} : Precedes(j, LastOf(S))
  <1>1. \E i \in S : \A j \in S \ {i} : Precedes(j, i)
    BY OldestOf
  <1>2. LastOf(S) \in S /\ \A j \in S \ {LastOf(S)} : Precedes(j, LastOf(S))
    BY <1>1 DEF LastOf
  <1>3. \A j \in S : Age(j) >= Age(LastOf(S))
    BY <1>2, ListOrder, Ages
  <1> QED  BY <1>2, <1>3

-----------------------------------------------------------------------------
(* The client.                                                               *)

LEMMA CatalogueInitially == CatalogueInit => CatalogueInv
  <1> SUFFICES ASSUME CatalogueInit
               PROVE  CatalogueInv
    OBVIOUS
  <1>1. reader \in Readers /\ reader.stage = "idle" /\ reader.looped = FALSE
    BY DEF CatalogueInit, NoReader, Readers, ReaderStages
  <1>2. CatalogueTyped
    BY <1>1, CatalogueAssumption DEF CatalogueInit, CatalogueTyped
  <1> QED  BY <1>1, <1>2 DEF CatalogueInv, Ahead, FirstHalf, PagesCover, PagesMove

\* What is in a list depends on the school, the filter and the cursor.
LEMMA SameList ==
    ASSUME NEW r, NEW q, r.school = q.school, r.filter = q.filter, r.after = q.after
    PROVE  /\ Recordings(r) = Recordings(q) /\ Quizzes(r) = Quizzes(q)
           /\ Lasting(r) = Lasting(q)
  BY DEF Recordings, Quizzes, Lasting

LEMMA InTheList ==
    ASSUME CatalogueTyped, NEW r
    PROVE  /\ Recordings(r) \subseteq Existing /\ Quizzes(r) \subseteq Existing
           /\ Lasting(r) \subseteq Existing
           /\ \A i \in Recordings(r) \cup Quizzes(r) :
                r.after # None => item[i].at # None /\ item[i].at =< r.after
  BY DEF Recordings, Quizzes, Lasting, Existing, Readable, Here, From

LEMMA OpenListKeeps ==
    ASSUME CatalogueInv, NEW s \in TenantSchools \cup {None}, NEW f \in Filters, OpenList(s, f)
    PROVE  CatalogueInv'
  <1>1. CatalogueTyped /\ UNCHANGED <<item, now, changed>>
    BY DEF CatalogueInv, OpenList
  <1>2. PICK r : /\ r = [NoReader EXCEPT !.stage = "asked", !.school = s, !.filter = f]
                 /\ reader' = [r EXCEPT !.there = Lasting(r)]
    BY DEF OpenList
  <1>3. /\ r \in Readers /\ r.stage = "asked" /\ r.looped = FALSE
    BY <1>2 DEF NoReader, Readers, ReaderStages
  <1>4. Lasting(r) \subseteq Items
    BY <1>1, InTheList DEF Existing
  <1>5. /\ reader' \in Readers /\ reader'.stage = "asked" /\ reader'.looped = FALSE
        /\ reader'.there = Lasting(r)
        /\ reader'.school = r.school /\ reader'.filter = r.filter /\ reader'.after = r.after
    BY <1>2, <1>3, <1>4 DEF Readers
  <1>6. CatalogueTyped'
    BY <1>1, <1>5 DEF CatalogueTyped, Readers, ReaderStages
  <1>7. Lasting(r)' = Lasting(r)
    BY <1>1 DEF Lasting, Recordings, Quizzes, Readable, Here, From, Selected, OfType
  <1>8. Lasting(reader)' = Lasting(r)
    BY <1>1, <1>5 DEF Lasting, Recordings, Quizzes, Readable, Here, From, Selected, OfType
  <1>9. Ahead'
    BY <1>5, <1>8 DEF Ahead
  <1> QED  BY <1>5, <1>6, <1>9 DEF CatalogueInv, FirstHalf, PagesCover, PagesMove

\* The newest of a set leave out only what is as old as all of them at least.
LEMMA NewestLeavesOlder ==
    ASSUME CatalogueTyped, NEW S, S \subseteq Existing, NEW n \in Nat, NEW T \in Newest(S, n)
    PROVE  /\ T \subseteq S
           /\ \A i \in S : i \in T \/ (Cardinality(T) = n /\ \A j \in T : Age(j) >= Age(i))
  <1>1. T \subseteq S /\ IsFiniteSet(S)
    BY CatalogueAssumption, FS_Subset DEF Newest, Existing
  <1>2. ASSUME NEW i \in S, i \notin T
        PROVE  Cardinality(T) = n /\ \A j \in T : Age(j) >= Age(i)
    <2>1. Cardinality(T) < Cardinality(S)
      BY <1>1, <1>2, FS_Subset, FS_CardinalityType
    <2>2. Cardinality(T) = n
      BY <2>1, <1>1, FS_CardinalityType DEF Newest
    <2>3. \A j \in T : Age(j) >= Age(i)
      BY <1>2 DEF Newest
    <2> QED  BY <2>2, <2>3
  <1> QED  BY <1>1, <1>2

LEMMA FetchRecordingsKeeps ==
    ASSUME CatalogueInv, FetchRecordings
    PROVE  CatalogueInv'
  <1>1. /\ CatalogueTyped /\ reader.stage = "asked" /\ UNCHANGED <<item, now, changed>>
        /\ PageSize + 1 \in Nat
    BY CatalogueAssumption DEF CatalogueInv, FetchRecordings
  <1>2. PICK T \in Newest(Recordings(reader), PageSize + 1) :
            reader' = [reader EXCEPT !.stage = "merging", !.first = T]
    BY DEF FetchRecordings
  <1>3. Recordings(reader) \subseteq Existing
    BY <1>1, InTheList
  <1>4. /\ T \subseteq Recordings(reader)
        /\ \A i \in Recordings(reader) :
             i \in T \/ (Cardinality(T) = PageSize + 1 /\ \A j \in T : Age(j) >= Age(i))
    BY <1>1, <1>2, <1>3, NewestLeavesOlder
  <1>5. /\ reader' \in Readers /\ reader'.stage = "merging" /\ reader'.first = T
        /\ reader'.looped = reader.looped /\ reader'.tied = reader.tied
        /\ reader'.untimed = reader.untimed
        /\ reader'.there = reader.there /\ reader'.seen = reader.seen
        /\ reader'.school = reader.school /\ reader'.filter = reader.filter
        /\ reader'.after = reader.after
    BY <1>1, <1>2, <1>3, <1>4 DEF CatalogueTyped, Readers, ReaderStages, Existing
  <1>6. CatalogueTyped'
    BY <1>1, <1>5 DEF CatalogueTyped, Readers, ReaderStages
  <1>7. Lasting(reader)' = Lasting(reader) /\ Recordings(reader)' = Recordings(reader)
    BY <1>1, <1>5 DEF Lasting, Recordings, Quizzes, Readable, Here, From, Selected, OfType
  <1>8. Ahead'
    BY <1>1, <1>5, <1>7 DEF Ahead, CatalogueInv
  <1>9. FirstHalf'
    <2>1. \A i \in T : /\ item[i] # None
                       /\ reader.after # None => item[i].at # None /\ item[i].at =< reader.after
      BY <1>1, <1>3, <1>4, InTheList DEF Existing
    <2> QED  BY <1>1, <1>4, <1>5, <1>7, <2>1 DEF FirstHalf, Age
  <1> QED  BY <1>1, <1>5, <1>6, <1>8, <1>9 DEF CatalogueInv, PagesCover, PagesMove

\* What the two halves of a page leave out is as old as more than a page of them.
LEMMA LeftOut ==
    ASSUME CatalogueInv, reader.stage = "merging",
           NEW T \in Newest(Quizzes(reader), PageSize + 1),
           NEW i \in reader.there \ reader.seen
    PROVE  \/ i \in reader.first \cup T
           \/ \E B \in SUBSET (reader.first \cup T) :
                /\ Cardinality(B) = PageSize + 1
                /\ \A j \in B : Age(j) >= Age(i)
  <1>1. CatalogueTyped /\ PageSize + 1 \in Nat /\ Quizzes(reader) \subseteq Existing
    BY CatalogueAssumption, InTheList DEF CatalogueInv
  <1>2. i \in Recordings(reader) \cup Quizzes(reader)
    BY DEF CatalogueInv, Ahead, Lasting
  <1>3. CASE i \in Recordings(reader)
    BY <1>3 DEF CatalogueInv, FirstHalf
  <1>4. CASE i \in Quizzes(reader)
    BY <1>1, <1>4, NewestLeavesOlder
  <1> QED  BY <1>2, <1>3, <1>4

LEMMA FurtherDown ==
    ASSUME CatalogueTyped, NEW r, NEW q, r.school = q.school, r.filter = q.filter,
           NEW i \in Lasting(r), q.after # None => item[i].at =< q.after
    PROVE  i \in Lasting(q)
  BY DEF Lasting, Recordings, Quizzes, From

LEMMA FetchQuizzesKeeps ==
    ASSUME CatalogueInv, FetchQuizzes
    PROVE  CatalogueInv'
  <1>1. /\ CatalogueTyped /\ reader.stage = "merging" /\ UNCHANGED <<item, now, changed>>
        /\ PageSize \in Nat \ {0} /\ reader \in Readers
    BY CatalogueAssumption DEF CatalogueInv, FetchQuizzes, CatalogueTyped
  <1> DEFINE all(T) == reader.first \cup T
             page(T) == FirstOf(all(T))
             more(T) == Cardinality(all(T)) > PageSize
             cursor(T) == CursorOf(LastOf(page(T)))
             even(T) == {i \in all(T) : Age(i) = Age(LastOf(page(T)))}
  <1>2. PICK T \in Newest(Quizzes(reader), PageSize + 1) :
          reader' = [reader EXCEPT
                !.stage = IF more(T) THEN "asked" ELSE "done",
                !.after = IF more(T) THEN cursor(T) ELSE @,
                !.looped = more(T) /\ ~ Moves(cursor(T), reader.after),
                !.untimed = more(T) /\ cursor(T) = None,
                !.tied = Cardinality(even(T)) >= PageSize,
                !.first = {}, !.seen = @ \cup page(T)]
    BY DEF FetchQuizzes
  <1> DEFINE A == all(T)
             P == page(T)
             last == LastOf(P)
  <1>3. Quizzes(reader) \subseteq Existing /\ T \subseteq Quizzes(reader) /\ PageSize + 1 \in Nat
    BY <1>1, <1>2, InTheList, NewestLeavesOlder
  <1>4. A \subseteq Existing
    BY <1>1, <1>3 DEF CatalogueInv, FirstHalf, Readers, Existing
  <1>5. /\ P \subseteq A
        /\ Cardinality(P) = IF Cardinality(A) < PageSize THEN Cardinality(A) ELSE PageSize
        /\ \A i \in P, j \in A \ P : Precedes(i, j)
    BY <1>1, <1>4, PageOf
  <1>6. /\ IsFiniteSet(A) /\ Cardinality(A) \in Nat /\ IsFiniteSet(P) /\ Cardinality(P) \in Nat
        /\ \A B \in SUBSET A : IsFiniteSet(B) /\ Cardinality(B) <= Cardinality(A)
        /\ \A B \in SUBSET P : Cardinality(B) <= Cardinality(P)
    BY <1>4, <1>5, CatalogueAssumption, FS_Subset, FS_CardinalityType DEF Existing
  <1>7. more(T) => /\ P # {} /\ Cardinality(P) = PageSize /\ last \in P
                   /\ \A j \in P : Age(j) >= Age(last)
                   /\ \A j \in A \ P : Age(last) >= Age(j)
    <2> SUFFICES ASSUME more(T)
                 PROVE  /\ P # {} /\ Cardinality(P) = PageSize /\ last \in P
                        /\ \A j \in P : Age(j) >= Age(last)
                        /\ \A j \in A \ P : Age(last) >= Age(j)
      OBVIOUS
    <2>1. Cardinality(P) = PageSize
      BY <1>1, <1>5, <1>6
    <2>2. P # {} /\ P \subseteq Existing
      BY <1>1, <1>4, <1>5, <2>1, FS_EmptySet
    <2>3. last \in P /\ \A j \in P : Age(j) >= Age(last)
      BY <1>1, <2>2, CursorIsOldest
    <2>4. \A j \in A \ P : Age(last) >= Age(j)
      BY <1>1, <1>4, <1>5, <2>3, ListOrder
    <2> QED  BY <2>1, <2>2, <2>3, <2>4
  <1>8. ASSUME more(T), NEW i \in reader.there \ (reader.seen \cup P)
        PROVE  Age(last) >= Age(i)
    <2>1. CASE i \in A
      BY <1>7, <1>8, <2>1
    <2>2. CASE i \notin A
      <3>1. PICK B \in SUBSET A : /\ Cardinality(B) = PageSize + 1
                                  /\ \A j \in B : Age(j) >= Age(i)
        BY <1>1, <1>2, <1>8, <2>2, LeftOut
      <3>2. ~ (B \subseteq P)
        <4>1. SUFFICES ASSUME B \subseteq P
                       PROVE  FALSE
          OBVIOUS
        <4>2. Cardinality(B) <= Cardinality(P)
          BY <1>6, <4>1
        <4>3. Cardinality(P) = PageSize
          BY <1>7, <1>8
        <4> HIDE DEF P
        <4> QED  BY <1>1, <3>1, <4>2, <4>3
      <3>3. PICK j \in B : j \notin P
        BY <3>2
      <3>4. Age(last) >= Age(j) /\ Age(j) >= Age(i)
        BY <1>7, <1>8, <3>1, <3>3
      <3>5. i \in Existing
        BY <1>1, <1>8, InTheList DEF CatalogueInv, Ahead
      <3>6. Age(last) \in Nat /\ Age(j) \in Nat /\ Age(i) \in Nat
        BY <1>1, <1>4, <1>5, <1>7, <1>8, <3>1, <3>3, <3>5, Ages
      <3> QED  BY <3>4, <3>6
    <2> QED  BY <2>1, <2>2
  <1>9. P \subseteq Items /\ (more(T) => cursor(T) \in Nat \cup {None})
    <2>1. more(T) => last \in Existing
      BY <1>4, <1>5, <1>7
    <2>2. more(T) => item[last] \in Docs
      BY <1>1, <2>1, Ages
    <2>3. more(T) => item[last].at \in Nat \cup {None}
      BY <2>2 DEF Docs
    <2> QED  BY <1>4, <1>5, <2>3 DEF Existing, CursorOf
  <1>10. /\ reader'.stage = IF more(T) THEN "asked" ELSE "done"
         /\ reader'.after = IF more(T) THEN cursor(T) ELSE reader.after
         /\ reader'.looped = (more(T) /\ ~ Moves(cursor(T), reader.after))
         /\ reader'.untimed = (more(T) /\ cursor(T) = None)
         /\ reader'.tied = (Cardinality(even(T)) >= PageSize)
         /\ reader'.first = {} /\ reader'.seen = reader.seen \cup P
         /\ reader'.there = reader.there /\ reader'.school = reader.school
         /\ reader'.filter = reader.filter
    <2> HIDE DEF all, page, more, cursor, even
    <2> USE DEF page
    <2> QED  BY <1>1, <1>2 DEF Readers
  <1>11. reader' \in Readers
    <2> DEFINE st == IF more(T) THEN "asked" ELSE "done"
               a == IF more(T) THEN cursor(T) ELSE reader.after
               l == more(T) /\ ~ Moves(cursor(T), reader.after)
               u == more(T) /\ cursor(T) = None
               t == Cardinality(even(T)) >= PageSize
               n == reader.seen \cup P
    <2>1. /\ a \in Nat \cup {None} /\ l \in BOOLEAN /\ u \in BOOLEAN /\ t \in BOOLEAN
          /\ st \in ReaderStages
      BY <1>1, <1>9 DEF Readers, ReaderStages
    <2>2. reader' = [reader EXCEPT !.stage = st,
                !.after = a, !.looped = l, !.untimed = u, !.tied = t,
                !.first = {}, !.seen = n]
      BY <1>2
    <2>3. n \in SUBSET Items /\ {} \in SUBSET Items
      BY <1>1, <1>9 DEF Readers
    <2> HIDE DEF a, l, u, t, n, st
    <2> QED  BY <1>1, <2>1, <2>2, <2>3 DEF Readers
  <1>12. CatalogueTyped'
    BY <1>1, <1>11 DEF CatalogueTyped
  <1>13. Ahead'
    <2> SUFFICES ASSUME more(T), NEW i \in reader.there \ (reader.seen \cup P)
                 PROVE  i \in Lasting(reader)'
      BY <1>10 DEF Ahead
    <2>1. i \in Lasting(reader)
      BY <1>1 DEF CatalogueInv, Ahead
    <2>2. i \in Existing /\ item[i].at # None
      BY <1>1, <2>1, InTheList DEF Lasting
    <2>3. item[i].at = Age(i) /\ Age(last) >= Age(i)
      BY <1>1, <1>8, <2>2, Ages
    <2>4. cursor(T) # None => cursor(T) = Age(last)
      BY DEF CursorOf, Age
    <2>5. i \in Lasting(reader')
      <3>1. reader'.after # None => item[i].at =< reader'.after
        <4>1. Age(last) \in Nat /\ Age(i) \in Nat
          BY <1>1, <1>4, <1>5, <1>7, <2>2, Ages
        <4> QED  BY <1>10, <2>3, <2>4, <4>1
      <3> QED  BY <1>1, <1>10, <2>1, <3>1, FurtherDown
    <2> QED  BY <1>1, <2>5 DEF Lasting, Recordings, Quizzes, Readable, Here, From, Selected, OfType
  <1>14. PagesCover'
    <2> SUFFICES ASSUME ~ more(T), NEW i \in reader.there, i \notin reader.seen
                 PROVE  i \in P
      BY <1>10 DEF PagesCover
    <2>1. Cardinality(P) = Cardinality(A)
      BY <1>1, <1>5, <1>6
    <2>2. P = A
      BY <1>5, <1>6, <2>1, FS_Subset
    <2>3. i \in A \/ \E B \in SUBSET A : Cardinality(B) = PageSize + 1
      BY <1>1, <1>2, LeftOut
    <2>4. Cardinality(A) <= PageSize
      BY <1>1, <1>6
    <2>5. i \in A
      <3> HIDE DEF all
      <3> QED  BY <1>1, <1>6, <2>3, <2>4
    <2> QED  BY <2>2, <2>5
  <1>15. PagesMove'
    <2> SUFFICES ASSUME more(T), ~ Moves(cursor(T), reader.after), cursor(T) # None
                 PROVE  Cardinality(even(T)) >= PageSize
      BY <1>10 DEF PagesMove
    <2>1. reader.after # None /\ ~ (cursor(T) < reader.after) /\ reader.after \in Nat
      BY <1>1 DEF Moves, Readers
    <2>2. \A j \in A : item[j].at # None /\ item[j].at =< reader.after
      BY <1>1, <1>3, <2>1, InTheList DEF CatalogueInv, FirstHalf
    <2>3. \A j \in A : Age(j) \in Nat /\ Age(j) =< reader.after
      BY <1>1, <1>4, <2>2, Ages
    <2>4. Age(last) = cursor(T)
      BY DEF CursorOf, Age
    <2>5. \A j \in P : Age(j) = Age(last)
      <3> SUFFICES ASSUME NEW j \in P
                   PROVE  Age(j) = Age(last)
        OBVIOUS
      <3>1. Age(j) >= Age(last) /\ j \in A /\ last \in A
        BY <1>5, <1>7
      <3>2. Age(j) \in Nat /\ Age(j) =< reader.after /\ Age(last) \in Nat
        BY <2>3, <3>1
      <3>3. ~ (Age(last) < reader.after)
        BY <2>1, <2>4
      <3> HIDE DEF P, last
      <3> QED  BY <2>1, <3>1, <3>2, <3>3
    <2>6. P \subseteq even(T) /\ even(T) \subseteq A
      BY <1>5, <2>5
    <2>7. IsFiniteSet(even(T)) /\ Cardinality(P) <= Cardinality(even(T))
      BY <1>6, <2>6, FS_Subset
    <2> QED  BY <1>1, <1>7, <2>7, FS_CardinalityType
  <1>16. FirstHalf'
    BY <1>10 DEF FirstHalf
  <1> QED  BY <1>12, <1>13, <1>14, <1>15, <1>16 DEF CatalogueInv

LEMMA CloseKeeps ==
    ASSUME CatalogueInv, Close
    PROVE  CatalogueInv'
  <1>1. /\ reader' \in Readers /\ reader'.stage = "idle" /\ reader'.looped = FALSE
        /\ UNCHANGED <<item, now, changed>>
    BY DEF Close, NoReader, Readers, ReaderStages
  <1>2. CatalogueTyped'
    BY <1>1 DEF CatalogueInv, CatalogueTyped, Readers, ReaderStages
  <1> QED  BY <1>1, <1>2 DEF CatalogueInv, Ahead, FirstHalf, PagesCover, PagesMove

LEMMA NothingMovesKeeps ==
    ASSUME CatalogueInv, UNCHANGED <<item, reader, changed>>, now' \in 0 .. MaxTime
    PROVE  CatalogueInv'
  <1>1. /\ Lasting(reader)' = Lasting(reader) /\ Recordings(reader)' = Recordings(reader)
        /\ \A i \in Items : Age(i)' = Age(i)
    BY DEF Lasting, Recordings, Quizzes, Readable, Here, From, Selected, OfType, Age
  <1>2. CatalogueTyped' /\ Ahead' /\ PagesCover' /\ PagesMove'
    BY <1>1 DEF CatalogueInv, CatalogueTyped, Ahead, PagesCover, PagesMove, Readers, ReaderStages
  <1>3. FirstHalf'
    BY <1>1 DEF CatalogueInv, FirstHalf, Age
  <1> QED  BY <1>2, <1>3 DEF CatalogueInv

LEMMA TickKeeps ==
    ASSUME CatalogueInv, Tick
    PROVE  CatalogueInv'
  <1>1. now' \in 0 .. MaxTime /\ UNCHANGED <<item, reader, changed>>
    BY CatalogueAssumption DEF CatalogueInv, CatalogueTyped, Tick
  <1> QED  BY <1>1, NothingMovesKeeps

-----------------------------------------------------------------------------
(* The writes.                                                               *)

\* A document that the reader still waits for has its fields but the title.
LEMMA StillThere ==
    ASSUME CatalogueTyped, NEW i \in Items, NEW doc \in Docs,
           item' = [item EXCEPT ![i] = doc], NEW j \in Existing, Unchanged(j)
    PROVE  /\ item'[j] # None /\ ~ item'[j].deleted
           /\ item'[j].type = item[j].type /\ item'[j].school = item[j].school
           /\ item'[j].at = item[j].at /\ item'[j].theme = item[j].theme
           /\ item'[j].teacher = item[j].teacher /\ item'[j].pull = item[j].pull
  <1>1. item[j] \in Docs /\ j \in Items
    BY DEF CatalogueTyped, Existing
  <1>2. item'[j] # None
    BY <1>1, CatalogueAssumption DEF CatalogueTyped, Existing
  <1>3. ~ item'[j].deleted /\ item'[j] = [item[j] EXCEPT !.title = item'[j].title]
    BY DEF Unchanged
  <1> DEFINE t == item'[j].title
  <1>4. item'[j] = [item[j] EXCEPT !.title = t]
    BY <1>3
  <1> HIDE DEF t
  <1> QED  BY <1>1, <1>2, <1>3, <1>4 DEF Docs

LEMMA WriteKeeps ==
    ASSUME CatalogueInv, NEW i \in Items, NEW doc \in Docs, WriteItem(i, doc),
           item[i] # None => doc.at = item[i].at
    PROVE  CatalogueInv'
  <1>1. /\ CatalogueTyped /\ reader \in Readers /\ item' = [item EXCEPT ![i] = doc]
        /\ item' \in [Items -> Docs \cup {None}] /\ now' = now
        /\ changed' \in 0 .. MaxChanges
    BY CatalogueAssumption DEF CatalogueInv, CatalogueTyped, WriteItem
  <1> DEFINE W == Watched(reader)
  <1>2. reader' = [reader EXCEPT !.there = W] /\ W \in SUBSET Items /\ W \subseteq reader.there
    BY <1>1 DEF WriteItem, Watched, Readers
  <1>3. \A j \in W : Unchanged(j)
    BY DEF Watched
  <1> HIDE DEF W
  <1>4. /\ reader' \in Readers /\ reader'.there = W /\ reader'.stage = reader.stage
        /\ reader'.seen = reader.seen /\ reader'.first = reader.first
        /\ reader'.looped = reader.looped /\ reader'.tied = reader.tied
        /\ reader'.untimed = reader.untimed /\ reader'.school = reader.school
        /\ reader'.filter = reader.filter /\ reader'.after = reader.after
    BY <1>1, <1>2 DEF Readers
  <1>5. CatalogueTyped'
    BY <1>1, <1>4 DEF CatalogueTyped, CatalogueInv, Readers, ReaderStages
  <1>6. \A j \in Existing :
          /\ item'[j] # None /\ item'[j].at = item[j].at
          /\ Age(j)' = Age(j)
    BY <1>1, CatalogueAssumption DEF CatalogueTyped, Existing, Age
  <1>7. ASSUME NEW j \in W, j \in Lasting(reader)
        PROVE  /\ j \in Lasting(reader)' /\ j \in Existing
               /\ j \in Recordings(reader)' => j \in Recordings(reader)
    <2>1. j \in Existing
      BY <1>1, <1>7, InTheList
    <2>2. /\ item'[j] # None /\ ~ item'[j].deleted
          /\ item'[j].type = item[j].type /\ item'[j].school = item[j].school
          /\ item'[j].at = item[j].at /\ item'[j].theme = item[j].theme
          /\ item'[j].teacher = item[j].teacher /\ item'[j].pull = item[j].pull
      BY <1>1, <1>3, <1>7, <2>1, StillThere
    <2>3. j \in Recordings(reader) \cup Quizzes(reader) /\ item[j].at # None
      BY <1>7 DEF Lasting
    <2>4. j \in Readable(reader.school) => j \in Readable(reader.school)'
      BY <1>4, <2>1, <2>2 DEF Readable, Here, Existing
    <2>5. /\ Selected(j, reader.filter)' <=> Selected(j, reader.filter)
          /\ OfType(j, reader.filter)' <=> OfType(j, reader.filter)
          /\ From(j, reader.after)' <=> From(j, reader.after)
      BY <1>4, <2>2 DEF Selected, OfType, From
    <2>6. /\ j \in Recordings(reader) => j \in Recordings(reader)'
          /\ j \in Quizzes(reader) => j \in Quizzes(reader)'
      BY <1>4, <2>2, <2>4, <2>5 DEF Recordings, Quizzes
    <2>7. j \in Quizzes(reader) => item[j].type = "quiz"
      BY DEF Quizzes
    <2>8. j \in Recordings(reader)' => item'[j].type # "quiz"
      BY DEF Recordings
    <2> QED  BY <2>1, <2>2, <2>3, <2>6, <2>7, <2>8 DEF Lasting
  <1>8. reader.stage \in {"asked", "merging"} => \A j \in W \ reader.seen : j \in Lasting(reader)
    BY <1>2 DEF CatalogueInv, Ahead
  <1>9. Ahead'
    BY <1>4, <1>7, <1>8 DEF Ahead
  <1>10. FirstHalf'
    <2> SUFFICES ASSUME reader.stage = "merging"
                 PROVE  FirstHalf'
      BY <1>4 DEF FirstHalf
    <2>1. \A j \in reader.first :
            /\ j \in Existing
            /\ reader.after # None => item[j].at # None /\ item[j].at =< reader.after
      BY <1>1 DEF CatalogueInv, FirstHalf, Existing, Readers
    <2>2. ASSUME NEW j \in W \ reader.seen, j \in Recordings(reader)'
          PROVE  \/ j \in reader.first
                 \/ /\ Cardinality(reader.first) = PageSize + 1
                    /\ \A k \in reader.first : Age(k)' >= Age(j)'
      <3>1. j \in Existing /\ j \in Recordings(reader) /\ j \in reader.there \ reader.seen
        BY <1>2, <1>7, <1>8, <2>2
      <3>2. \/ j \in reader.first
            \/ /\ Cardinality(reader.first) = PageSize + 1
               /\ \A k \in reader.first : Age(k) >= Age(j)
        BY <3>1 DEF CatalogueInv, FirstHalf
      <3> QED  BY <1>6, <2>1, <3>1, <3>2
    <2>3. \A j \in reader.first :
            /\ item'[j] # None
            /\ reader.after # None => item'[j].at # None /\ item'[j].at =< reader.after
      BY <1>6, <2>1
    <2>4. \A j \in (reader'.there \ reader'.seen) \cap Recordings(reader)' :
            \/ j \in reader'.first
            \/ /\ Cardinality(reader'.first) = PageSize + 1
               /\ \A k \in reader'.first : Age(k)' >= Age(j)'
      BY <1>4, <2>2
    <2> QED  BY <1>4, <2>3, <2>4 DEF FirstHalf
  <1>11. PagesCover' /\ PagesMove'
    BY <1>2, <1>4 DEF CatalogueInv, PagesCover, PagesMove
  <1> QED  BY <1>5, <1>9, <1>10, <1>11 DEF CatalogueInv

LEMMA CreateItemKeeps ==
    ASSUME CatalogueInv, NEW i \in Items, NEW s \in TenantSchools \cup {None},
           NEW t \in Themes \cup {None}, NEW c \in BOOLEAN, NEW p \in BOOLEAN,
           CreateContent(i, s, t, c, p) \/ CreateQuiz(i, s, t, c, p)
    PROVE  CatalogueInv'
  <1>1. now \in Nat /\ item[i] = None
    BY CatalogueAssumption DEF CatalogueInv, CatalogueTyped, CreateContent, CreateQuiz
  <1>2. New("story", s, t, c, p) \in Docs /\ New("quiz", s, t, c, p) \in Docs
    BY <1>1, CatalogueAssumption DEF New, Docs
  <1> QED  BY <1>1, <1>2, WriteKeeps DEF CreateContent, CreateQuiz

LEMMA UpdateContentKeeps ==
    ASSUME CatalogueInv, NEW i \in Items, NEW s \in TenantSchools \cup {None},
           NEW t \in Themes \cup {None}, NEW p \in BOOLEAN, UpdateContent(i, s, t, p)
    PROVE  CatalogueInv'
  <1> DEFINE d == [item[i] EXCEPT !.theme = t, !.pull = p, !.title = 1]
  <1>1. WriteItem(i, d) /\ item[i] \in Docs
    BY DEF UpdateContent, Writable, Here, CatalogueInv, CatalogueTyped
  <1>2. d \in Docs /\ d.at = item[i].at
    BY <1>1 DEF Docs
  <1> HIDE DEF d
  <1> QED  BY <1>1, <1>2, WriteKeeps

LEMMA DeleteContentKeeps ==
    ASSUME CatalogueInv, NEW i \in Items, NEW s \in TenantSchools \cup {None},
           DeleteContent(i, s)
    PROVE  CatalogueInv'
  <1> DEFINE d == [item[i] EXCEPT !.deleted = TRUE]
  <1>1. WriteItem(i, d) /\ item[i] \in Docs
    BY DEF DeleteContent, Writable, Here, CatalogueInv, CatalogueTyped
  <1>2. d \in Docs /\ d.at = item[i].at
    BY <1>1 DEF Docs
  <1> HIDE DEF d
  <1> QED  BY <1>1, <1>2, WriteKeeps

-----------------------------------------------------------------------------
(* The theorems.                                                             *)

\* What the reader has still to see stays ahead of its cursor, whatever
\* others write between its requests and between the two queries of one.
THEOREM CatalogueInvariant == CatalogueSpec => []CatalogueInv
  <1>1. CatalogueInv /\ [CatalogueNext]_catalogueVars => CatalogueInv'
    <2> SUFFICES ASSUME CatalogueInv, [CatalogueNext]_catalogueVars
                 PROVE  CatalogueInv'
      OBVIOUS
    <2>1. ASSUME NEW s \in TenantSchools \cup {None}, NEW f \in Filters, OpenList(s, f)
          PROVE  CatalogueInv'
      BY <2>1, OpenListKeeps
    <2>2. CASE FetchRecordings
      BY <2>2, FetchRecordingsKeeps
    <2>3. CASE FetchQuizzes
      BY <2>3, FetchQuizzesKeeps
    <2>4. CASE Close
      BY <2>4, CloseKeeps
    <2>5. CASE Tick
      BY <2>5, TickKeeps
    <2>6. ASSUME NEW i \in Items, NEW s \in TenantSchools \cup {None},
                 NEW t \in Themes \cup {None}, NEW p \in BOOLEAN, NEW c \in BOOLEAN,
                 CreateContent(i, s, t, c, p) \/ CreateQuiz(i, s, t, c, p)
          PROVE  CatalogueInv'
      BY <2>6, CreateItemKeeps
    <2>7. ASSUME NEW i \in Items, NEW s \in TenantSchools \cup {None},
                 NEW t \in Themes \cup {None}, NEW p \in BOOLEAN, UpdateContent(i, s, t, p)
          PROVE  CatalogueInv'
      BY <2>7, UpdateContentKeeps
    <2>8. ASSUME NEW i \in Items, NEW s \in TenantSchools \cup {None}, DeleteContent(i, s)
          PROVE  CatalogueInv'
      BY <2>8, DeleteContentKeeps
    <2>9. CASE UNCHANGED catalogueVars
      <3>1. UNCHANGED <<item, reader, changed>> /\ now' \in 0 .. MaxTime
        BY <2>9 DEF catalogueVars, CatalogueInv, CatalogueTyped
      <3> QED  BY <3>1, NothingMovesKeeps
    <2> QED  BY <2>1, <2>2, <2>3, <2>4, <2>5, <2>6, <2>7, <2>8, <2>9 DEF CatalogueNext
  <1> QED  BY CatalogueInitially, <1>1, PTL DEF CatalogueSpec

\* A theme is offered to exactly those for whom it finds a recording.
LEMMA ThemesFind ==
    ASSUME CatalogueTyped
    PROVE  ThemesLead
  <1> SUFFICES ASSUME NEW s \in TenantSchools \cup {None}, NEW t \in Themes
               PROVE  t \in ThemesFor(s) <=>
                        \E e \in {item[i].type : i \in Here} :
                          Recordings([school |-> s, after |-> None,
                              filter |-> [teacher |-> FALSE, exp |-> e, theme |-> t]]) # {}
    BY DEF ThemesLead
  <1> DEFINE q(e) == [school |-> s, after |-> None,
                      filter |-> [teacher |-> FALSE, exp |-> e, theme |-> t]]
  <1>1. t # None
    BY CatalogueAssumption
  <1>2. \A i \in Here : item[i] \in Docs /\ item[i].type # None
    <2>1. \A i \in Here : item[i] \in Docs
      BY DEF Here, CatalogueTyped
    <2>2. \A i \in Here : item[i].type \in Exps \cup {"quiz"}
      BY <2>1 DEF Docs
    <2> QED  BY <2>1, <2>2, CatalogueAssumption
  <1>3. \A e : e # None =>
          (\A i : i \in Recordings(q(e)) <=>
             /\ e # "quiz" /\ i \in Readable(s) /\ item[i].type # "quiz"
             /\ item[i].pull /\ item[i].theme = t /\ item[i].type = e)
    BY <1>1 DEF Recordings, From, Selected, OfType
  <1>4. ASSUME t \in ThemesFor(s)
        PROVE  \E e \in {item[i].type : i \in Here} : Recordings(q(e)) # {}
    <2>1. PICK i \in OfThemes(s) : t = item[i].theme
      BY <1>4 DEF ThemesFor
    <2>2. i \in Here /\ i \in Readable(s) /\ item[i].type # "quiz" /\ item[i].pull
      BY <2>1 DEF OfThemes, Readable
    <2>3. i \in Recordings(q(item[i].type))
      BY <1>2, <1>3, <2>1, <2>2
    <2> QED  BY <2>2, <2>3
  <1>5. ASSUME NEW j \in Here, Recordings(q(item[j].type)) # {}
        PROVE  t \in ThemesFor(s)
    <2>1. PICK i : i \in Recordings(q(item[j].type))
      BY <1>5
    <2>2. i \in OfThemes(s) /\ item[i].theme = t
      BY <1>2, <1>3, <2>1 DEF OfThemes
    <2> QED  BY <1>1, <2>2 DEF ThemesFor
  <1> QED  BY <1>4, <1>5

\* Whatever others write meanwhile, a client that read a list to its end has
\* seen all that was there all along; a page that does not get further is
\* full of one age or ends with what has no age; and each theme leads
\* somewhere.
THEOREM ListShowsAll == CatalogueSpec => []CatalogueWhole
  <1>1. CatalogueInv => CatalogueWhole
    <2> SUFFICES ASSUME CatalogueInv
                 PROVE  CatalogueWhole
      OBVIOUS
    <2>1. CatalogueTypeOK
      BY DEF CatalogueInv, CatalogueTyped, CatalogueTypeOK, Readers, ReaderStages
    <2> QED  BY <2>1, ThemesFind DEF CatalogueInv, CatalogueWhole
  <1> QED  BY CatalogueInvariant, <1>1, PTL

----------------------------------------------------------------------------
(* IvrMenu: the machines.  A selection is a function on 1 .. n; the menus  *)
(* of each level are those below the options of the level above.           *)

Chosen(n, sel) == sel = [i \in 1 .. n |-> sel[i]]

AtLevel(ds, n) ==
    LET one == Deeper(ds, {<<>>})
        two == Deeper(ds, one)
        three == Deeper(ds, two)
    IN  CASE n = 0 -> {<<>>} [] n = 1 -> one [] n = 2 -> two [] n = 3 -> three
          [] n = 4 -> Deeper(ds, three)

LEMMA SelectionsByLevel ==
    ASSUME NEW ds, NEW sel \in Selections(ds)
    PROVE  \E n \in 0 .. 4 : sel \in AtLevel(ds, n)
  BY DEF Selections, AtLevel

LEMMA LevelsSelected ==
    ASSUME NEW ds, NEW n \in 0 .. 4
    PROVE  AtLevel(ds, n) \subseteq Selections(ds)
  BY DEF Selections, AtLevel

LEMMA LevelBelow ==
    ASSUME NEW ds, NEW n \in 0 .. 3
    PROVE  AtLevel(ds, n + 1) = Deeper(ds, AtLevel(ds, n))
  BY DEF AtLevel

LEMMA OneMoreChoice ==
    ASSUME NEW n \in Nat, NEW sel, Chosen(n, sel), NEW x
    PROVE  /\ Chosen(n + 1, Append(sel, x))
           /\ Len(Append(sel, x)) = n + 1
           /\ Front(Append(sel, x)) = sel /\ Last(Append(sel, x)) = x
  <1> DEFINE S == {sel[i] : i \in 1 .. n} \union {x}
             longer == Append(sel, x)
  <1>1. sel \in Seq(S) /\ Len(sel) = n
    <2>1. sel \in [1 .. n -> S]
      BY DEF Chosen
    <2> QED
      BY <2>1
  <1>2. longer \in Seq(S) /\ Len(longer) = n + 1 /\ longer[n + 1] = x
        /\ \A i \in 1 .. n : longer[i] = sel[i]
    BY <1>1
  <1>3. longer = [i \in 1 .. n + 1 |-> longer[i]]
    <2>1. longer \in [1 .. n + 1 -> S]
      BY <1>2, LenProperties
    <2> QED
      BY <2>1
  <1>4. Front(longer) = [i \in 1 .. n |-> longer[i]]
    BY <1>2 DEF Front
  <1>5. Front(longer) = sel
    BY <1>2, <1>4 DEF Chosen
  <1> QED
    BY <1>2, <1>3, <1>5 DEF Chosen, Last

LEMMA LevelsChosen ==
    ASSUME NEW ds
    PROVE  \A n \in 0 .. 4 : \A sel \in AtLevel(ds, n) : Chosen(n, sel) /\ Len(sel) = n
  <1> DEFINE Good(n) == \A sel \in AtLevel(ds, n) : Chosen(n, sel) /\ Len(sel) = n
  <1>1. Good(0)
    <2>1. AtLevel(ds, 0) = {<<>>}
      BY DEF AtLevel
    <2>2. Chosen(0, <<>>) /\ Len(<<>>) = 0
      BY DEF Chosen
    <2> QED
      BY <2>1, <2>2
  <1>2. ASSUME NEW n \in 0 .. 3, Good(n)
        PROVE  Good(n + 1)
    <2>1. SUFFICES ASSUME NEW sel \in AtLevel(ds, n + 1)
                   PROVE  Chosen(n + 1, sel) /\ Len(sel) = n + 1
      OBVIOUS
    <2>2. PICK up, p, k : up \in AtLevel(ds, n) /\ sel = ChildSelection(ds, up, p, k)
      BY LevelBelow DEF Deeper
    <2>3. Chosen(n, up) /\ n \in Nat
      BY <1>2, <2>2
    <2>4. sel = Append(up, Offered(ds, up)[p * PerPage + k])
      BY <2>2 DEF ChildSelection
    <2> QED
      BY <2>3, <2>4, OneMoreChoice
  <1> HIDE DEF Good
  <1>3. Good(0 + 1)
    BY <1>1, <1>2
  <1>4. Good(1 + 1)
    BY <1>3, <1>2
  <1>5. Good(2 + 1)
    BY <1>4, <1>2
  <1>6. Good(3 + 1)
    BY <1>5, <1>2
  <1>7. \A n \in 0 .. 4 : Good(n)
    BY <1>1, <1>3, <1>4, <1>5, <1>6
  <1> QED
    BY <1>7 DEF Good

LEMMA OffersCounted ==
    ASSUME NEW ds, IsFiniteSet(ds), NEW n \in 0 .. 3, NEW sel \in AtLevel(ds, n)
    PROVE  Len(Offered(ds, sel)) \in Nat
  <1> DEFINE is == Filtered(ds, sel)
  <1>1. Len(sel) = n
    BY LevelsChosen, n \in 0 .. 4
  <1>2. IsFiniteSet(is)
    BY FS_Subset DEF Filtered
  <1>3. /\ IsFiniteSet({i.lang : i \in is}) /\ IsFiniteSet({i.theme : i \in is})
        /\ IsFiniteSet({i.type : i \in is}) /\ IsFiniteSet({i.title : i \in is})
    <2>1. IsFiniteSet({i.lang : i \in is})
      <3>1. [i \in is |-> i.lang] \in Surjection(is, {i.lang : i \in is})
        BY DEF Surjection
      <3> QED
        BY <1>2, <3>1, FS_Surjection
    <2>2. IsFiniteSet({i.theme : i \in is})
      <3>1. [i \in is |-> i.theme] \in Surjection(is, {i.theme : i \in is})
        BY DEF Surjection
      <3> QED
        BY <1>2, <3>1, FS_Surjection
    <2>3. IsFiniteSet({i.type : i \in is})
      <3>1. [i \in is |-> i.type] \in Surjection(is, {i.type : i \in is})
        BY DEF Surjection
      <3> QED
        BY <1>2, <3>1, FS_Surjection
    <2>4. IsFiniteSet({i.title : i \in is})
      <3>1. [i \in is |-> i.title] \in Surjection(is, {i.title : i \in is})
        BY DEF Surjection
      <3> QED
        BY <1>2, <3>1, FS_Surjection
    <2> QED
      BY <2>1, <2>2, <2>3, <2>4
  <1>4. IsFiniteSet({i.lang : i \in is} \cap SpokenLangs)
        /\ IsFiniteSet({i.type : i \in is} \cap SpokenTypes)
    BY <1>3, FS_Subset
  <1>5. Len(HandleLanguage(is)) \in Nat
    <2>1. Cardinality({i.lang : i \in is} \cap SpokenLangs) \in Nat
      BY <1>4, FS_CardinalityType
    <2> QED
      BY <2>1 DEF HandleLanguage, Arranged
  <1>6. Len(HandleTheme(is)) \in Nat
    <2>1. Cardinality({i.theme : i \in is}) \in Nat
      BY <1>3, FS_CardinalityType
    <2> QED
      BY <2>1 DEF HandleTheme, Sorted, Arranged
  <1>7. Len(HandleType(is)) \in Nat
    <2>1. Cardinality({i.type : i \in is} \cap SpokenTypes) \in Nat
      BY <1>4, FS_CardinalityType
    <2> QED
      BY <2>1 DEF HandleType, Sorted, Arranged
  <1>8. Len(HandleTitle(is)) \in Nat
    <2>1. Cardinality({i.title : i \in is}) \in Nat
      BY <1>3, FS_CardinalityType
    <2> QED
      BY <2>1 DEF HandleTitle, Sorted, Arranged
  <1> QED
    BY <1>1, <1>5, <1>6, <1>7, <1>8 DEF Offered

LEMMA PageOfOption ==
    ASSUME NEW m \in Nat
    PROVE  PagesOf(m) \in Nat /\ \A n \in 1 .. m : (n - 1) \div PerPage \in 0 .. PagesOf(m) - 1
  <1> DEFINE P == PerPage
  <1>1. P \in Nat /\ P > 0
    BY MenuAssumption
  <1> HIDE DEF P
  <1>2. ASSUME NEW x \in Nat
        PROVE  /\ x \div P \in Nat
               /\ P * (x \div P) <= x /\ x < P * (x \div P) + P
    BY <1>1, <1>2
  <1>3. (m + P - 1) \div P \in Nat
    BY <1>1, <1>2
  <1>4. ASSUME NEW n \in 1 .. m
        PROVE  (n - 1) \div P \in 0 .. ((m + P - 1) \div P) - 1
    <2> DEFINE q == (n - 1) \div P
               r == (m + P - 1) \div P
    <2>1. q \in Nat /\ P * q <= n - 1
      BY <1>2
    <2>2. r \in Nat /\ m + P - 1 < P * r + P
      BY <1>1, <1>2
    <2> HIDE DEF q, r
    <2>3. P * q + P <= m + P - 1
      BY <1>1, <2>1
    <2>4. P * q < P * r
      BY <1>1, <2>1, <2>2, <2>3
    <2>5. q < r
      <3>1. SUFFICES ASSUME r <= q PROVE FALSE
        BY <2>1, <2>2
      <3>2. P * r <= P * q
        BY <1>1, <2>1, <2>2, <3>1
      <3> QED
        BY <1>1, <2>1, <2>2, <2>4, <3>2
    <2> QED
      BY <2>1, <2>2, <2>5 DEF q, r
  <1> QED
    BY <1>3, <1>4 DEF P, PagesOf

LEMMA ChildBelow ==
    ASSUME NEW ds \in Contents, NEW n \in 0 .. 3, NEW sel \in AtLevel(ds, n),
           NEW p \in 0 .. Pages(ds, sel) - 1, NEW k \in IndexesPossible(ds, sel, p)
    PROVE  ChildSelection(ds, sel, p, k) \in AtLevel(ds, n + 1)
  BY LevelBelow DEF Deeper

\* Every selection but the first is below the page on which it was made.
LEMMA MadeOnPage ==
    ASSUME NEW ds \in Contents, NEW n \in 0 .. 3, NEW sel \in AtLevel(ds, n + 1)
    PROVE  /\ Front(sel) \in AtLevel(ds, n)
           /\ Len(Offered(ds, Front(sel))) \in Nat
           /\ \E i \in 1 .. Len(Offered(ds, Front(sel))) : Offered(ds, Front(sel))[i] = Last(sel)
  <1>1. PICK up, p, k : /\ up \in AtLevel(ds, n) /\ p \in 0 .. Pages(ds, up) - 1
                        /\ k \in IndexesPossible(ds, up, p)
                        /\ sel = ChildSelection(ds, up, p, k)
    BY LevelBelow DEF Deeper
  <1>2. Chosen(n, up) /\ n \in Nat
    BY <1>1, LevelsChosen, n \in 0 .. 4
  <1>3. Front(sel) = up /\ Last(sel) = Offered(ds, up)[p * PerPage + k]
    BY <1>1, <1>2, OneMoreChoice DEF ChildSelection
  <1> DEFINE m == Len(Offered(ds, up))
  <1>4. m \in Nat
    BY <1>1, OffersCounted, MenuAssumption
  <1>5. p * PerPage + k \in 1 .. m
    <2>1. p \in Nat /\ PerPage \in Nat
      BY <1>1, MenuAssumption
    <2>2. p * PerPage \in Nat
      BY <2>1
    <2> HIDE DEF m
    <2>3. k \in 1 .. (IF m - p * PerPage < PerPage THEN m - p * PerPage ELSE PerPage)
      BY <1>1 DEF IndexesPossible, m
    <2> QED
      BY <1>4, <2>1, <2>2, <2>3
  <1> QED
    BY <1>1, <1>3, <1>4, <1>5

\* The states of a machine, by the level of their selection.
LEMMA StatesOfLevel ==
    ASSUME NEW ds, NEW n \in 0 .. 4, NEW sel \in AtLevel(ds, n)
    PROVE  /\ n < 4 => \A p \in 0 .. Pages(ds, sel) - 1 : State("menu", sel, p, 0) \in States(ds)
           /\ n = 4 /\ Leaf(ds, sel).type = Quiz => QuizStates(ds, sel) \subseteq States(ds)
           /\ n = 4 /\ Leaf(ds, sel).type # Quiz => State("play", sel, 0, 0) \in States(ds)
  <1>1. Len(sel) = n /\ sel \in Selections(ds)
    BY LevelsChosen, LevelsSelected
  <1> QED
    BY <1>1 DEF States, PlayStates, Levels

LEMMA LevelOfState ==
    ASSUME NEW ds, NEW s \in States(ds)
    PROVE  \E n \in 0 .. 4 :
             /\ s.sel \in AtLevel(ds, n) /\ Len(s.sel) = n
             /\ \/ n < 4 /\ s.n \in 0 .. Pages(ds, s.sel) - 1 /\ s = State("menu", s.sel, s.n, 0)
                \/ n = 4 /\ Leaf(ds, s.sel).type = Quiz /\ s \in QuizStates(ds, s.sel)
                \/ n = 4 /\ Leaf(ds, s.sel).type # Quiz /\ s = State("play", s.sel, 0, 0)
  <1>1. PICK sel \in Selections(ds) :
          s \in IF Len(sel) < Levels
                THEN {State("menu", sel, p, 0) : p \in 0 .. Pages(ds, sel) - 1}
                ELSE IF Leaf(ds, sel).type = Quiz THEN QuizStates(ds, sel)
                ELSE PlayStates(sel)
    BY DEF States
  <1>2. PICK n \in 0 .. 4 : sel \in AtLevel(ds, n)
    BY SelectionsByLevel
  <1>3. Len(sel) = n
    BY <1>2, LevelsChosen
  <1>4. CASE n < 4
    <2>1. PICK p \in 0 .. Pages(ds, sel) - 1 : s = State("menu", sel, p, 0)
      BY <1>1, <1>3, <1>4 DEF Levels
    <2>2. s.sel = sel /\ s.n = p
      BY <2>1 DEF State
    <2> QED
      BY <1>2, <1>3, <1>4, <2>1, <2>2
  <1>5. CASE n = 4 /\ Leaf(ds, sel).type = Quiz
    <2>1. s \in QuizStates(ds, sel)
      BY <1>1, <1>3, <1>5 DEF Levels
    <2>2. s.sel = sel
      BY <2>1 DEF QuizStates, QuizEnds, Answers, State
    <2> QED
      BY <1>2, <1>3, <1>5, <2>1, <2>2
  <1>6. CASE n = 4 /\ Leaf(ds, sel).type # Quiz
    <2>1. s = State("play", sel, 0, 0)
      BY <1>1, <1>3, <1>6 DEF Levels, PlayStates
    <2>2. s.sel = sel
      BY <2>1 DEF State
    <2> QED
      BY <1>2, <1>3, <1>6, <2>1, <2>2
  <1> QED
    BY <1>4, <1>5, <1>6

\* What a title stands for is one of the documents.
LEMMA LeafFound ==
    ASSUME NEW ds \in Contents, Builds(ds), NEW sel \in AtLevel(ds, 4)
    PROVE  /\ Leaf(ds, sel).secs \in Nat
           /\ Leaf(ds, sel).questions \in Seq([options : Nat, correct : Nat])
  <1>1. sel \in Selections(ds) /\ Len(sel) = Levels
    BY LevelsChosen, LevelsSelected DEF Levels
  <1>2. Filtered(ds, sel) # {}
    BY <1>1 DEF Builds
  <1>3. Leaf(ds, sel) \in ds
    BY <1>2 DEF Leaf, Filtered
  <1> QED
    BY <1>3, MenuAssumption

\* The states below an option, and the page above a selection.
LEMMA FirstThere ==
    ASSUME NEW ds \in Contents, NEW n \in 0 .. 4, NEW sel \in AtLevel(ds, n),
           NEW t \in First(ds, sel)
    PROVE  t \in States(ds) /\ t.kind \in {"menu", "start", "play"}
  <1>1. Len(sel) = n
    BY LevelsChosen
  <1>2. CASE n < 4
    <2>1. t = State("menu", sel, 0, 0) /\ Pages(ds, sel) # 0
      BY <1>1, <1>2 DEF First, Levels
    <2>2. Pages(ds, sel) \in Nat
      <3>1. Len(Offered(ds, sel)) \in Nat
        BY <1>2, OffersCounted, MenuAssumption
      <3> QED
        BY <3>1, PageOfOption DEF Pages
    <2>3. 0 \in 0 .. Pages(ds, sel) - 1
      BY <2>1, <2>2
    <2>4. t \in States(ds)
      BY <1>2, <2>1, <2>3, StatesOfLevel
    <2> QED
      BY <2>1, <2>4 DEF State
  <1>3. CASE n = 4
    <2>1. t = State(IF Leaf(ds, sel).type = Quiz THEN "start" ELSE "play", sel, 0, 0)
      BY <1>1, <1>3 DEF First, Levels
    <2>2. t.kind \in {"start", "play"}
      BY <2>1 DEF State
    <2>3. t \in States(ds)
      <3>1. CASE Leaf(ds, sel).type = Quiz
        BY <1>3, <2>1, <3>1, StatesOfLevel DEF QuizStates, QuizEnds
      <3>2. CASE Leaf(ds, sel).type # Quiz
        BY <1>3, <2>1, <3>2, StatesOfLevel
      <3> QED
        BY <3>1, <3>2
    <2> QED
      BY <2>2, <2>3
  <1> QED
    BY <1>2, <1>3

LEMMA ParentThere ==
    ASSUME NEW ds \in Contents, NEW n \in 1 .. 4, NEW sel \in AtLevel(ds, n)
    PROVE  ParentBlock(ds, sel) \in States(ds) /\ ParentBlock(ds, sel).kind = "menu"
  <1> DEFINE up == Front(sel)
             m == Len(Offered(ds, up))
             at == CHOOSE i \in 1 .. m : Offered(ds, up)[i] = Last(sel)
  <1>1. PICK k \in 0 .. 3 : k + 1 = n
    <2>1. n - 1 \in 0 .. 3 /\ (n - 1) + 1 = n
      OBVIOUS
    <2> QED
      BY <2>1
  <1>2. up \in AtLevel(ds, k) /\ m \in Nat /\ \E i \in 1 .. m : Offered(ds, up)[i] = Last(sel)
    BY <1>1, MadeOnPage
  <1>3. at \in 1 .. m
    BY <1>2
  <1>4. ParentBlock(ds, sel) = State("menu", up, (at - 1) \div PerPage, 0)
    BY DEF ParentBlock
  <1>5. (at - 1) \div PerPage \in 0 .. Pages(ds, up) - 1
    BY <1>2, <1>3, PageOfOption DEF Pages
  <1>6. ParentBlock(ds, sel) \in States(ds)
    <2>1. k \in 0 .. 4 /\ k < 4
      BY <1>1
    <2> QED
      BY <1>2, <1>4, <1>5, <2>1, StatesOfLevel
  <1> QED
    BY <1>4, <1>6 DEF State

\* How a quiz goes on.
QuizGoesOn(ds, s, t) ==
    /\ t.sel = s.sel
    /\ \/ s.kind = "start" /\ t.kind = "ask" /\ t.n = 1
       \/ s.kind = "ask" /\ t = s
       \/ s.kind = "ask" /\ t.kind = "told" /\ t.n = s.n
       \/ s.kind = "told" /\ t.kind = "ask" /\ t.n = s.n + 1
       \/ s.kind = "told" /\ t.kind = "final" /\ s.n = Len(Leaf(ds, s.sel).questions)

\* A key leads from a state of a machine to a state of it.
LEMMA MenuClosed ==
    ASSUME NEW ds \in Contents, Builds(ds), NEW s \in States(ds), s.kind = "menu",
           NEW e \in Transitions(ds, s)
    PROVE  e[2] \in States(ds) /\ e[2].kind \in {"menu", "start", "play"}
  <1>1. PICK n \in 0 .. 3 : /\ s.sel \in AtLevel(ds, n) /\ Len(s.sel) = n
                            /\ s.n \in 0 .. Pages(ds, s.sel) - 1
                            /\ s = State("menu", s.sel, s.n, 0)
    <2>1. s \notin QuizStates(ds, s.sel) /\ s # State("play", s.sel, 0, 0)
      BY DEF QuizStates, QuizEnds, Answers, State
    <2> QED
      BY <2>1, LevelOfState
  <1>2. e \in OptionTransitions(ds, s) \/ e \in PageTransitions(ds, s)
        \/ e \in LevelTransitions(ds, s)
    BY DEF Transitions
  <1>3. CASE e \in OptionTransitions(ds, s)
    <2>1. PICK k \in IndexesPossible(ds, s.sel, s.n) :
            e[2] \in First(ds, ChildSelection(ds, s.sel, s.n, k))
      BY <1>3 DEF OptionTransitions
    <2>2. ChildSelection(ds, s.sel, s.n, k) \in AtLevel(ds, n + 1)
      BY <1>1, ChildBelow
    <2>3. n + 1 \in 0 .. 4
      OBVIOUS
    <2> QED
      BY <2>1, <2>2, <2>3, FirstThere
  <1>4. CASE e \in PageTransitions(ds, s)
    <2>1. Pages(ds, s.sel) \in Nat
      <3>1. Len(Offered(ds, s.sel)) \in Nat
        BY <1>1, OffersCounted, MenuAssumption
      <3> QED
        BY <3>1, PageOfOption DEF Pages
    <2>2. PICK p \in 0 .. Pages(ds, s.sel) - 1 : e[2] = State("menu", s.sel, p, 0)
      <3>1. CASE e = <<RepeatKey, s>>
        BY <1>1, <3>1
      <3>2. CASE s.n # 0 /\ e = <<PrevKey, [s EXCEPT !.n = @ - 1]>>
        <4>1. e[2] = State("menu", s.sel, s.n - 1, 0) /\ s.n - 1 \in 0 .. Pages(ds, s.sel) - 1
          BY <1>1, <2>1, <3>2 DEF State
        <4> QED
          BY <4>1
      <3>3. CASE s.n # Pages(ds, s.sel) - 1 /\ e = <<NextKey, [s EXCEPT !.n = @ + 1]>>
        <4>1. e[2] = State("menu", s.sel, s.n + 1, 0) /\ s.n + 1 \in 0 .. Pages(ds, s.sel) - 1
          BY <1>1, <2>1, <3>3 DEF State
        <4> QED
          BY <4>1
      <3> QED
        BY <1>4, <3>1, <3>2, <3>3 DEF PageTransitions
    <2>3. e[2] \in States(ds)
      BY <1>1, <2>2, StatesOfLevel, n \in 0 .. 4
    <2> QED
      BY <2>2, <2>3 DEF State
  <1>5. CASE e \in LevelTransitions(ds, s)
    <2>1. s.sel # <<>> /\ e[2] = ParentBlock(ds, s.sel)
      BY <1>5 DEF LevelTransitions
    <2>2. n \in 1 .. 4
      BY <1>1, <2>1 DEF AtLevel
    <2> QED
      BY <1>1, <2>1, <2>2, ParentThere
  <1> QED
    BY <1>2, <1>3, <1>4, <1>5

LEMMA QuizClosed ==
    ASSUME NEW ds \in Contents, Builds(ds), NEW s \in States(ds), s.kind # "menu",
           NEW e \in Transitions(ds, s)
    PROVE  /\ e[2] \in States(ds)
           /\ e[2].kind \in {"menu", "start", "play"} \/ QuizGoesOn(ds, s, e[2])
  <1> DEFINE t == e[2]
             qs == Leaf(ds, s.sel).questions
  <1>1. /\ s.sel \in AtLevel(ds, 4)
        /\ \/ Leaf(ds, s.sel).type = Quiz /\ s \in QuizStates(ds, s.sel)
           \/ Leaf(ds, s.sel).type # Quiz /\ s = State("play", s.sel, 0, 0)
    BY LevelOfState DEF State
  <1>2. ParentBlock(ds, s.sel) \in States(ds) /\ ParentBlock(ds, s.sel).kind = "menu"
    BY <1>1, ParentThere, 4 \in 1 .. 4
  <1>3. qs \in Seq([options : Nat, correct : Nat])
    BY <1>1, LeafFound
  <1>4. Len(qs) \in Nat /\ DOMAIN qs = 1 .. Len(qs) /\ \A q \in 1 .. Len(qs) : qs[q].options \in Nat
    <2> HIDE DEF qs
    <2>1. Len(qs) \in Nat /\ DOMAIN qs = 1 .. Len(qs)
          /\ qs \in [1 .. Len(qs) -> [options : Nat, correct : Nat]]
      BY <1>3, LenProperties
    <2>2. \A q \in 1 .. Len(qs) : qs[q] \in [options : Nat, correct : Nat]
      BY <2>1
    <2> QED
      BY <2>1, <2>2
  <1>5. CASE s = State("play", s.sel, 0, 0)
    <2>1. t = ParentBlock(ds, s.sel) \/ t = s
      BY <1>5 DEF Transitions, PlayTransitions, State
    <2>2. s.kind = "play"
      BY <1>5 DEF State
    <2> QED
      BY <1>2, <2>1, <2>2
  <1>6. CASE Leaf(ds, s.sel).type = Quiz /\ s \in QuizStates(ds, s.sel)
    <2>1. QuizStates(ds, s.sel) \subseteq States(ds)
      BY <1>1, <1>6, StatesOfLevel, 4 \in 0 .. 4
    <2> HIDE DEF qs
    <2>2. \/ s = State("start", s.sel, 0, 0) \/ s = State("final", s.sel, 0, 0)
          \/ \E q \in 1 .. Len(qs) : s = State("ask", s.sel, q, 0)
          \/ \E q \in 1 .. Len(qs) : \E o \in 1 .. qs[q].options : s = State("told", s.sel, q, o)
      BY <1>4, <1>6 DEF QuizStates, QuizEnds, Answers, qs, State
    <2>3. /\ \A q \in 1 .. Len(qs) : State("ask", s.sel, q, 0) \in QuizStates(ds, s.sel)
          /\ \A q \in 1 .. Len(qs) : \A o \in 1 .. qs[q].options :
               State("told", s.sel, q, o) \in QuizStates(ds, s.sel)
          /\ State("final", s.sel, 0, 0) \in QuizStates(ds, s.sel)
      BY <1>4 DEF QuizStates, QuizEnds, Answers, qs
    <2> DEFINE End == IF s.n = Len(qs) THEN State("final", s.sel, 0, 0)
                      ELSE State("ask", s.sel, s.n + 1, 0)
    <2>4. CASE s = State("start", s.sel, 0, 0)
      <3>1. s.kind = "start" /\ s.n = 0
        BY <2>4 DEF State
      <3>2. Len(qs) > 1 /\ t = End
        BY <3>1 DEF Transitions, QuizTransitions, qs
      <3>3. t = State("ask", s.sel, 1, 0) /\ 1 \in 1 .. Len(qs)
        BY <1>4, <3>1, <3>2
      <3> QED
        BY <2>1, <2>3, <3>1, <3>3 DEF QuizGoesOn, State
    <2>5. CASE s = State("final", s.sel, 0, 0)
      <3>1. t = ParentBlock(ds, s.sel)
        BY <2>5 DEF Transitions, QuizTransitions, State
      <3> QED
        BY <1>2, <3>1
    <2>6. ASSUME NEW q \in 1 .. Len(qs), s = State("ask", s.sel, q, 0)
          PROVE  t \in States(ds) /\ QuizGoesOn(ds, s, t)
      <3>1. s.kind = "ask" /\ s.n = q
        BY <2>6 DEF State
      <3>2. t = s \/ \E o \in 1 .. qs[q].options : t = State("told", s.sel, q, o)
        BY <3>1 DEF Transitions, QuizTransitions, qs
      <3>3. CASE t = s
        BY <3>1, <3>3 DEF QuizGoesOn
      <3>4. ASSUME NEW o \in 1 .. qs[q].options, t = State("told", s.sel, q, o)
            PROVE  t \in States(ds) /\ QuizGoesOn(ds, s, t)
        BY <2>1, <2>3, <3>1, <3>4 DEF QuizGoesOn, State
      <3> QED
        BY <3>2, <3>3, <3>4
    <2>7. ASSUME NEW q \in 1 .. Len(qs), NEW o, s = State("told", s.sel, q, o)
          PROVE  t \in States(ds) /\ QuizGoesOn(ds, s, t)
      <3>1. s.kind = "told" /\ s.n = q
        BY <2>7 DEF State
      <3>2. t = End
        BY <3>1 DEF Transitions, QuizTransitions, qs
      <3>3. CASE q = Len(qs)
        <4>1. t = State("final", s.sel, 0, 0)
          BY <3>1, <3>2, <3>3
        <4> QED
          BY <2>1, <2>3, <3>1, <3>3, <4>1 DEF QuizGoesOn, State, qs
      <3>4. CASE q # Len(qs)
        <4>1. t = State("ask", s.sel, q + 1, 0) /\ q + 1 \in 1 .. Len(qs)
          <5>1. q + 1 \in 1 .. Len(qs)
            <6>1. Len(qs) \in Nat
              BY <1>4
            <6>2. q \in Nat /\ q <= Len(qs) /\ q # Len(qs)
              BY <3>4, <6>1
            <6> QED
              BY <6>1, <6>2
          <5> QED
            BY <3>1, <3>2, <3>4, <5>1
        <4> QED
          BY <2>1, <2>3, <3>1, <4>1 DEF QuizGoesOn, State
      <3> QED
        BY <3>3, <3>4
    <2> QED
      BY <2>2, <2>4, <2>5, <2>6, <2>7
  <1> QED
    BY <1>1, <1>5, <1>6

----------------------------------------------------------------------------
(* IvrMenu: the calls.  What is known of a call depends on nothing but its *)
(* machine, so that rebuilds and restarts leave it alone.                  *)

Built == [id : 1 .. MaxBuilds, of : DOMAIN Fsm]
Places == {InitState} \union UNION {States(ds) : ds \in DOMAIN Fsm}
Calls == [stage : Stages, fsm : Built \union {None}, at : Places, fresh : BOOLEAN,
          score : Int, speed : 1 .. TopSpeed, paused : BOOLEAN, to : Places,
          by : Processes \union {None}]

CheckOpen == {"checked", "late"}
KeyInFlight == {"checked", "late", "counted"}

HasMachine(c) ==
    /\ c.stage \in Ongoing \union {"asked", "late"} =>
         c.fsm \in Built /\ c.at \in States(c.fsm.of)
    /\ c.stage = "none" => c.at = InitState

HasRecording(c) ==
    /\ c.stage \in KeyInFlight =>
         c.to \in States(c.fsm.of) /\ c.to.kind = "play" /\ c.by \in Processes
    /\ c.by # None => c.stage \in KeyInFlight

Posed(c) == IF c.at.kind = "final" THEN Len(Leaf(c.fsm.of, c.at.sel).questions)
            ELSE c.at.n - 1
Scored(c, posed) == \E right \in 0 .. posed : c.score = right * Right - (posed - right) * Wrong
HasScore(c) ==
    c.stage \in Ongoing \union {"asked"} /\ c.at.kind \in {"ask", "told", "final"} =>
        Posed(c) \in Nat /\ Scored(c, Posed(c))

CallFits(c) == c \in Calls /\ HasMachine(c) /\ HasRecording(c) /\ HasScore(c)

\* At most one check of the limit is open, with room for its recording,
\* unless two have overlapped.
RoomForCheck ==
    ~ overlapped =>
        /\ usage <= DailyLimit
        /\ \A l \in Checking :
             /\ usage + Duration(call[l], call[l].to) <= DailyLimit
             /\ \A k \in Checking : k = l

\* The seconds that are counted and still to be played.
OwedBy(l) == {<<l, k>> : k \in 1 .. Duration(call[l], call[l].to)}
Owed == UNION {OwedBy(l) : l \in {k \in Legs : call[k].stage = "counted"}}
HeardWasCounted == IsFiniteSet(Owed) /\ heard + Cardinality(Owed) <= usage

MachinesTyped ==
    /\ content \in Contents
    /\ cache \in [Processes -> SUBSET Built]
    /\ latest \in [Processes -> Built \union {None}]
    /\ \A p \in Processes : latest[p] # None => latest[p] \in cache[p]
    /\ builds \in 0 .. MaxBuilds /\ ended \in 0 .. MaxFaults

CallsTyped ==
    /\ usage \in Nat /\ heard \in Nat /\ overlapped \in BOOLEAN
    /\ call \in [Legs -> Calls] /\ \A l \in Legs : CallFits(call[l])

MenuInv == MachinesTyped /\ CallsTyped /\ RoomForCheck /\ HeardWasCounted

LEMMA MachineBuilt ==
    ASSUME NEW ds \in DOMAIN Fsm
    PROVE  /\ ds \in Contents /\ Builds(ds)
           /\ DOMAIN Fsm[ds] = States(ds)
           /\ \A s \in States(ds) : Fsm[ds][s] = Transitions(ds, s)
  BY DEF Fsm

LEMMA LengthOfRecording ==
    ASSUME NEW c, c.fsm \in Built, NEW s \in States(c.fsm.of)
    PROVE  Duration(c, s) \in Nat /\ (Duration(c, s) > 0 => s.kind = "play")
  <1>1. c.fsm.of \in Contents /\ Builds(c.fsm.of)
    BY MachineBuilt DEF Built
  <1>2. CASE s.kind = "play"
    <2>1. s.sel \in AtLevel(c.fsm.of, 4)
      BY <1>2, LevelOfState DEF State
    <2> QED
      BY <1>1, <1>2, <2>1, LeafFound DEF Duration
  <1>3. CASE s.kind # "play"
    BY <1>3 DEF Duration
  <1> QED
    BY <1>2, <1>3

\* A document that is new, or deleted.
LEMMA EmptyFits == CallFits(NoCall) /\ CallFits(Over)
  <1>1. InitState \in Places /\ 1 \in 1 .. TopSpeed
    BY MenuAssumption DEF Places
  <1>2. NoCall \in Calls /\ Over \in Calls
    <2>1. NoCall \in Calls
      BY <1>1 DEF NoCall, Calls, Stages
    <2>2. Over \in [stage : Stages, fsm : Built \union {None}, at : Places, fresh : BOOLEAN,
                    score : Int, speed : 1 .. TopSpeed, paused : BOOLEAN, to : Places,
                    by : Processes \union {None}]
      BY <2>1 DEF Over, Calls, Stages
    <2> QED
      BY <2>1, <2>2 DEF Calls
  <1>3. NoCall.stage = "none" /\ NoCall.at = InitState /\ Over.stage = "over" /\ NoCall.by = None /\ Over.by = None
    BY DEF NoCall, Over
  <1> QED
    BY <1>2, <1>3 DEF CallFits, HasMachine, HasRecording, HasScore, Ongoing, KeyInFlight

LEMMA DeletedFits ==
    ASSUME NEW c, CallFits(c)
    PROVE  /\ CallFits(Deleted(c)) /\ Deleted(c).stage \in {"late", "over"}
           /\ Deleted(c).stage = "late" =>
                c.stage = "checked" /\ Deleted(c).fsm = c.fsm /\ Deleted(c).to = c.to
  <1>1. CASE c.stage = "checked"
    <2> DEFINE d == [c EXCEPT !.stage = "late"]
    <2>1. c \in Calls
      BY DEF CallFits
    <2>2. d \in Calls /\ d.stage = "late" /\ d.fsm = c.fsm /\ d.at = c.at /\ d.to = c.to /\ d.by = c.by
      BY <2>1 DEF Calls, Stages
    <2> HIDE DEF d
    <2>3. CallFits(d)
      BY <1>1, <2>2 DEF CallFits, HasMachine, HasRecording, HasScore, Ongoing, KeyInFlight
    <2>4. Deleted(c) = d
      BY <1>1 DEF Deleted, d
    <2> QED
      BY <1>1, <2>2, <2>3, <2>4
  <1>2. CASE c.stage # "checked"
    <2>1. Deleted(c) = Over /\ Over.stage = "over"
      BY <1>2 DEF Deleted, Over, NoCall
    <2> QED
      BY <2>1, EmptyFits
  <1> QED
    BY <1>1, <1>2

\* A key leads to another state of the machine, and the score goes with it.
LEMMA KeyMoves ==
    ASSUME NEW c, CallFits(c), c.stage \in Ongoing, NEW e \in Fsm[c.fsm.of][c.at]
    PROVE  /\ e[2] \in States(c.fsm.of) /\ e[2] \in Places
           /\ PostOperation(c) \in Int
           /\ e[2].kind \in {"menu", "start", "play"} \/ QuizGoesOn(c.fsm.of, c.at, e[2])
  <1> DEFINE ds == c.fsm.of
  <1>1. c \in Calls /\ c.fsm \in Built /\ c.at \in States(ds)
    BY DEF CallFits, HasMachine
  <1>2. ds \in DOMAIN Fsm
    BY <1>1 DEF Built
  <1>3. ds \in Contents /\ Builds(ds) /\ Fsm[ds][c.at] = Transitions(ds, c.at)
    BY <1>1, <1>2, MachineBuilt
  <1>4. e \in Transitions(ds, c.at)
    BY <1>3
  <1>5. e[2] \in States(ds)
        /\ (e[2].kind \in {"menu", "start", "play"} \/ QuizGoesOn(ds, c.at, e[2]))
    BY <1>1, <1>3, <1>4, MenuClosed, QuizClosed
  <1>6. e[2] \in Places
    BY <1>2, <1>5 DEF Places
  <1>7. PostOperation(c) \in Int
    <2>1. c.score \in Int /\ Right \in Int /\ Wrong \in Int
      BY <1>1, MenuAssumption DEF Calls
    <2> QED
      BY <2>1 DEF PostOperation
  <1> QED
    BY <1>5, <1>6, <1>7

LEMMA ScoreMoves ==
    ASSUME NEW c, CallFits(c), c.stage \in Ongoing, NEW e \in Fsm[c.fsm.of][c.at],
           NEW d, d.fsm = c.fsm, d.at = e[2], d.score = PostOperation(c)
    PROVE  HasScore(d)
  <1> DEFINE ds == c.fsm.of
             t == e[2]
             qs == Leaf(ds, c.at.sel).questions
  <1>1. c \in Calls /\ c.fsm \in Built /\ c.at \in States(ds)
    BY DEF CallFits, HasMachine
  <1>2. ds \in DOMAIN Fsm
    BY <1>1 DEF Built
  <1>3. ds \in Contents /\ Builds(ds)
    BY <1>2, MachineBuilt
  <1>4. SUFFICES ASSUME t.kind \in {"ask", "told", "final"}
                 PROVE  Posed(d) \in Nat /\ Scored(d, Posed(d))
    BY DEF HasScore
  <1>5. QuizGoesOn(ds, c.at, t)
    BY <1>4, KeyMoves
  <1>6. c.score \in Int /\ Right \in Nat /\ Wrong \in Nat
    BY <1>1, MenuAssumption DEF Calls
  <1>7. c.at.kind \in {"ask", "told"} => c.at.n - 1 \in Nat /\ Scored(c, c.at.n - 1)
    BY DEF CallFits, HasScore, Posed
  <1>8. CASE c.at.kind = "start" /\ t.kind = "ask" /\ t.n = 1
    <2>1. d.score = 0 /\ Posed(d) = 0
      BY <1>8 DEF PostOperation, Posed
    <2>2. 0 \in 0 .. 0 /\ 0 * Right - (0 - 0) * Wrong = 0
      BY <1>6
    <2> QED
      BY <2>1, <2>2 DEF Scored
  <1>9. CASE c.at.kind = "ask" /\ (t = c.at \/ (t.kind = "told" /\ t.n = c.at.n))
    <2>1. d.score = c.score /\ Posed(d) = c.at.n - 1
      BY <1>9 DEF PostOperation, Posed
    <2> QED
      BY <1>7, <1>9, <2>1 DEF Scored
  <1>10. CASE c.at.kind = "told" /\ (   (t.kind = "ask" /\ t.n = c.at.n + 1)
                                     \/ (t.kind = "final" /\ c.at.n = Len(qs)))
    <2>1. Posed(d) = c.at.n /\ c.at.n \in Nat
      <3>1. c.at.n - 1 \in Nat /\ c.at.n \in Int
        <4>1. PICK q : q \in 1 .. Len(qs) /\ c.at.n = q
          <5>1. c.at \in QuizStates(ds, c.at.sel) /\ c.at.sel \in AtLevel(ds, 4)
            BY <1>1, <1>10, LevelOfState DEF State
          <5>2. DOMAIN qs = 1 .. Len(qs)
            BY <1>3, <5>1, LeafFound
          <5> QED
            BY <1>10, <5>1, <5>2 DEF QuizStates, QuizEnds, Answers, State
        <4>2. Len(qs) \in Nat
          <5>1. c.at.sel \in AtLevel(ds, 4)
            BY <1>1, <1>10, LevelOfState DEF State
          <5> QED
            BY <1>3, <5>1, LeafFound, LenProperties
        <4> QED
          BY <4>1, <4>2
      <3>2. d.at.sel = c.at.sel
        BY <1>5 DEF QuizGoesOn
      <3>3. c.at.n + 1 - 1 = c.at.n /\ c.at.n \in Nat
        BY <3>1
      <3> QED
        BY <1>10, <3>2, <3>3 DEF Posed
    <2>2. PICK right \in 0 .. c.at.n - 1 : c.score = right * Right - (c.at.n - 1 - right) * Wrong
      BY <1>7, <1>10 DEF Scored
    <2>3. d.score = c.score + Right \/ d.score = c.score - Wrong
      BY <1>6, <1>10 DEF PostOperation
    <2> DEFINE n == c.at.n
    <2>4. n \in Nat /\ right \in Nat /\ right <= n - 1
      BY <2>1, <2>2
    <2>5. CASE d.score = c.score + Right
      <3>1. (right + 1) * Right = right * Right + Right /\ n - (right + 1) = n - 1 - right
        BY <1>6, <2>4
      <3>2. d.score = (right + 1) * Right - (n - (right + 1)) * Wrong
        <4>1. right * Right \in Int /\ (n - 1 - right) * Wrong \in Int
          BY <1>6, <2>4
        <4> QED
          BY <1>6, <2>2, <2>4, <2>5, <3>1, <4>1
      <3>3. right + 1 \in 0 .. n
        BY <2>4
      <3> QED
        BY <2>1, <3>2, <3>3 DEF Scored
    <2>6. CASE d.score = c.score - Wrong
      <3>1. (n - right) * Wrong = (n - 1 - right) * Wrong + Wrong
        BY <1>6, <2>4
      <3>2. d.score = right * Right - (n - right) * Wrong
        <4>1. right * Right \in Int /\ (n - 1 - right) * Wrong \in Int
          BY <1>6, <2>4
        <4> QED
          BY <1>6, <2>2, <2>4, <2>6, <3>1, <4>1
      <3>3. right \in 0 .. n
        BY <2>4
      <3> QED
        BY <2>1, <3>2, <3>3 DEF Scored
    <2> QED
      BY <2>3, <2>5, <2>6
  <1>11. \/ c.at.kind = "start" /\ t.kind = "ask" /\ t.n = 1
         \/ c.at.kind = "ask" /\ t = c.at
         \/ c.at.kind = "ask" /\ t.kind = "told" /\ t.n = c.at.n
         \/ c.at.kind = "told" /\ t.kind = "ask" /\ t.n = c.at.n + 1
         \/ c.at.kind = "told" /\ t.kind = "final" /\ c.at.n = Len(qs)
    BY <1>5 DEF QuizGoesOn
  <1>12. \/ c.at.kind = "start" /\ t.kind = "ask" /\ t.n = 1
         \/ c.at.kind = "ask" /\ (t = c.at \/ (t.kind = "told" /\ t.n = c.at.n))
         \/ c.at.kind = "told" /\ (   (t.kind = "ask" /\ t.n = c.at.n + 1)
                                     \/ (t.kind = "final" /\ c.at.n = Len(qs)))
    BY <1>11
  <1> QED
    BY <1>8, <1>9, <1>10, <1>12

\* No call comes to have a key in flight, or another recording to play.
NoNewKey ==
    \A l \in Legs : call'[l].stage \in KeyInFlight =>
        /\ call'[l].stage \in CheckOpen => call[l].stage \in CheckOpen
        /\ call'[l].stage = "counted" => call[l].stage = "counted"
        /\ call'[l].fsm = call[l].fsm /\ call'[l].to = call[l].to

LEMMA LimitsStay ==
    ASSUME MenuInv, usage' = usage, heard' = heard, overlapped' \in BOOLEAN,
           overlapped => overlapped', NoNewKey
    PROVE  RoomForCheck' /\ HeardWasCounted'
  <1>1. \A l \in Legs : call'[l].stage \in KeyInFlight =>
          Duration(call'[l], call'[l].to) = Duration(call[l], call[l].to)
    BY DEF NoNewKey, Duration
  <1>2. Checking' \subseteq Checking
    BY DEF Checking, NoNewKey, KeyInFlight, CheckOpen
  <1>3. RoomForCheck'
    <2>1. \A l \in Checking' : Duration(call'[l], call'[l].to) = Duration(call[l], call[l].to)
      BY <1>1 DEF Checking, KeyInFlight
    <2> QED
      BY <1>2, <2>1 DEF MenuInv, RoomForCheck
  <1>4. Owed' \subseteq Owed
    BY <1>1 DEF Owed, OwedBy, NoNewKey, KeyInFlight
  <1>5. HeardWasCounted'
    <2>1. IsFiniteSet(Owed) /\ heard + Cardinality(Owed) <= usage
      BY DEF MenuInv, HeardWasCounted
    <2>2. IsFiniteSet(Owed') /\ Cardinality(Owed') <= Cardinality(Owed)
      BY <1>4, <2>1, FS_Subset
    <2>3. Cardinality(Owed) \in Nat /\ Cardinality(Owed') \in Nat
      BY <2>1, <2>2, FS_CardinalityType
    <2>4. heard \in Nat /\ usage \in Nat
      BY DEF MenuInv, CallsTyped
    <2> QED
      BY <2>1, <2>2, <2>3, <2>4 DEF HeardWasCounted
  <1> QED
    BY <1>3, <1>5

LEMMA OneCallChanges ==
    ASSUME MenuInv, NEW l \in Legs, NEW c, CallFits(c), call' = [call EXCEPT ![l] = c],
           usage' = usage, heard' = heard, overlapped' \in BOOLEAN, overlapped => overlapped',
           c.stage \in KeyInFlight =>
             /\ c.stage \in CheckOpen => call[l].stage \in CheckOpen
             /\ c.stage = "counted" => call[l].stage = "counted"
             /\ c.fsm = call[l].fsm /\ c.to = call[l].to
    PROVE  CallsTyped' /\ RoomForCheck' /\ HeardWasCounted'
  <1>1. call \in [Legs -> Calls] /\ usage \in Nat /\ heard \in Nat
        /\ \A k \in Legs : CallFits(call[k])
    BY DEF MenuInv, CallsTyped
  <1>2. c \in Calls
    BY DEF CallFits
  <1>3. call' \in [Legs -> Calls] /\ call'[l] = c /\ \A k \in Legs \ {l} : call'[k] = call[k]
    BY <1>1, <1>2
  <1>4. \A k \in Legs : CallFits(call'[k])
    BY <1>1, <1>3
  <1>5. CallsTyped'
    BY <1>1, <1>3, <1>4 DEF CallsTyped, CallFits, HasMachine, HasRecording, HasScore
  <1>6. NoNewKey
    BY <1>3 DEF NoNewKey
  <1> QED
    BY <1>5, <1>6, LimitsStay

LEMMA CachesStay ==
    ASSUME MenuInv, UNCHANGED <<content, cache, latest, builds, ended>>
    PROVE  MachinesTyped'
  BY DEF MenuInv, MachinesTyped

\* What a call is, and what its machine is.
LEMMA CallKnown ==
    ASSUME MenuInv, NEW l \in Legs
    PROVE  call[l] \in Calls /\ CallFits(call[l]) /\ call \in [Legs -> Calls]
  BY DEF MenuInv, CallsTyped

LEMMA ChangeContentFits == MenuInv /\ ChangeContent => MenuInv'
  <1> SUFFICES ASSUME MenuInv, ChangeContent PROVE MenuInv'
    OBVIOUS
  <1>1. MachinesTyped'
    BY DEF MenuInv, MachinesTyped, ChangeContent
  <1>2. CallsTyped'
    BY DEF MenuInv, CallsTyped, ChangeContent
  <1>3. RoomForCheck' /\ HeardWasCounted'
    BY LimitsStay DEF ChangeContent, NoNewKey, MenuInv, CallsTyped
  <1> QED
    BY <1>1, <1>2, <1>3 DEF MenuInv

LEMMA InstantiateFits ==
    ASSUME MenuInv, NEW p \in Processes, Instantiate(p),
           UNCHANGED <<content, call, usage, heard, overlapped, ended>>
    PROVE  MenuInv'
  <1> DEFINE m == Machine(content)
  <1>1. m \in Built /\ builds + 1 \in 0 .. MaxBuilds
    BY MenuAssumption DEF MenuInv, MachinesTyped, Instantiate, Machine, Built
  <1> HIDE DEF m
  <1>2. cache' = [cache EXCEPT ![p] = @ \union {m}] /\ latest' = [latest EXCEPT ![p] = m]
        /\ builds' = builds + 1
    BY DEF Instantiate, m
  <1>3. MachinesTyped'
    BY <1>1, <1>2 DEF MenuInv, MachinesTyped
  <1>4. CallsTyped'
    BY DEF MenuInv, CallsTyped
  <1>5. RoomForCheck' /\ HeardWasCounted'
    BY LimitsStay DEF NoNewKey, MenuInv, CallsTyped
  <1> QED
    BY <1>3, <1>4, <1>5 DEF MenuInv

LEMMA StartEndsFits ==
    ASSUME MenuInv, NEW l \in Legs, StartEnds(l)
    PROVE  MenuInv'
  <1>1. PICK s \in MakeVonageCall : call' = [call EXCEPT ![l].stage = s]
    BY DEF StartEnds
  <1> DEFINE c == [call[l] EXCEPT !.stage = s]
  <1>2. call[l] \in Calls /\ CallFits(call[l]) /\ call \in [Legs -> Calls]
    BY CallKnown
  <1>3. c \in Calls /\ c.stage = s /\ c.fsm = call[l].fsm /\ c.at = call[l].at
        /\ c.by = call[l].by /\ c.score = call[l].score
    BY <1>2 DEF Calls, MakeVonageCall, Stages
  <1>4. call' = [call EXCEPT ![l] = c]
    BY <1>1, <1>2
  <1>5. call[l].stage = "asked"
    BY DEF StartEnds
  <1> HIDE DEF c
  <1>6. CallFits(c)
    BY <1>2, <1>3, <1>5
       DEF CallFits, HasMachine, HasRecording, HasScore, Ongoing, KeyInFlight, MakeVonageCall,
           Posed, Scored
  <1>7. c.stage \notin KeyInFlight
    BY <1>3 DEF MakeVonageCall, KeyInFlight
  <1>8. CallsTyped' /\ RoomForCheck' /\ HeardWasCounted'
    BY <1>4, <1>6, <1>7, OneCallChanges DEF StartEnds, MenuInv, CallsTyped
  <1> QED
    BY <1>8, CachesStay DEF StartEnds, MenuInv

\* HangupCall, in any of the actions that hang up.
LEMMA HangupFits ==
    ASSUME MenuInv, NEW l \in Legs, call' = HangupCall(l), overlapped' \in BOOLEAN,
           overlapped => overlapped',
           UNCHANGED <<content, cache, latest, builds, usage, heard, ended>>
    PROVE  MenuInv'
  <1> DEFINE c == Deleted(call[l])
  <1>1. call[l] \in Calls /\ CallFits(call[l]) /\ call \in [Legs -> Calls]
    BY CallKnown
  <1>2. call' = [call EXCEPT ![l] = c]
    BY <1>1 DEF HangupCall
  <1>3. CallFits(c) /\ (c.stage \in KeyInFlight =>
                         /\ c.stage \in CheckOpen => call[l].stage \in CheckOpen
                         /\ c.stage = "counted" => call[l].stage = "counted"
                         /\ c.fsm = call[l].fsm /\ c.to = call[l].to)
    BY <1>1, DeletedFits DEF KeyInFlight, CheckOpen
  <1> HIDE DEF c
  <1>4. CallsTyped' /\ RoomForCheck' /\ HeardWasCounted'
    BY <1>2, <1>3, OneCallChanges
  <1> QED
    BY <1>4, CachesStay DEF MenuInv

LEMMA CallEndsFits ==
    ASSUME MenuInv, NEW l \in Legs, CallEnds(l)
    PROVE  MenuInv'
  BY HangupFits DEF CallEnds, MenuInv, CallsTyped

LEMMA ServerErrorFits ==
    ASSUME MenuInv, NEW l \in Legs, NEW p \in Processes, ServerError(l, p)
    PROVE  MenuInv'
  BY HangupFits DEF ServerError, MenuInv, CallsTyped

\* A live call whose document says something else of the player or the time.
LEMMA LiveCallFits ==
    ASSUME MenuInv, NEW l \in Legs, NEW c, call' = [call EXCEPT ![l] = c],
           call[l].stage = "live", c \in Calls, c.stage = "live", c.fsm = call[l].fsm,
           c.at = call[l].at, c.score = call[l].score, c.by = call[l].by,
           UNCHANGED <<content, cache, latest, builds, usage, heard, overlapped, ended>>
    PROVE  MenuInv'
  <1>1. CallFits(call[l])
    BY CallKnown
  <1>2. CallFits(c)
    BY <1>1 DEF CallFits, HasMachine, HasRecording, HasScore, Ongoing, KeyInFlight, Posed, Scored
  <1>3. c.stage \notin KeyInFlight
    BY DEF KeyInFlight
  <1>4. CallsTyped' /\ RoomForCheck' /\ HeardWasCounted'
    BY <1>2, <1>3, OneCallChanges DEF MenuInv, CallsTyped
  <1> QED
    BY <1>4, CachesStay DEF MenuInv

LEMMA GoesStaleFits ==
    ASSUME MenuInv, NEW l \in Legs, GoesStale(l)
    PROVE  MenuInv'
  <1> DEFINE c == [call[l] EXCEPT !.fresh = FALSE]
  <1>1. call[l] \in Calls /\ call \in [Legs -> Calls]
    BY CallKnown
  <1>2. c \in Calls /\ c.stage = call[l].stage /\ c.fsm = call[l].fsm /\ c.at = call[l].at
        /\ c.by = call[l].by /\ c.score = call[l].score
    BY <1>1 DEF Calls
  <1>3. call' = [call EXCEPT ![l] = c] /\ call[l].stage = "live"
    BY <1>1 DEF GoesStale
  <1> HIDE DEF c
  <1> QED
    BY <1>2, <1>3, LiveCallFits DEF GoesStale

LEMMA ChangeSpeedFits ==
    ASSUME MenuInv, NEW l \in Legs, NEW p \in Processes, ChangeSpeed(l, p)
    PROVE  MenuInv'
  <1>1. call[l] \in Calls /\ call \in [Legs -> Calls]
    BY CallKnown
  <1>2. PICK v : /\ v \in {call[l].speed, IncreaseSpeed(call[l].speed),
                            DecreaseSpeed(call[l].speed)}
                 /\ call' = [call EXCEPT ![l].speed = v, ![l].fresh = TRUE]
    BY DEF ChangeSpeed
  <1>3. v \in 1 .. TopSpeed
    BY <1>1, <1>2, MenuAssumption DEF Calls, IncreaseSpeed, DecreaseSpeed
  <1> DEFINE c == [call[l] EXCEPT !.speed = v, !.fresh = TRUE]
  <1>4. c \in Calls /\ c.stage = call[l].stage /\ c.fsm = call[l].fsm /\ c.at = call[l].at
        /\ c.by = call[l].by /\ c.score = call[l].score
    BY <1>1, <1>3 DEF Calls
  <1>5. call' = [call EXCEPT ![l] = c] /\ call[l].stage = "live"
    BY <1>1, <1>2 DEF ChangeSpeed
  <1> HIDE DEF c
  <1> QED
    BY <1>4, <1>5, LiveCallFits DEF ChangeSpeed

LEMMA TogglePauseFits ==
    ASSUME MenuInv, NEW l \in Legs, NEW p \in Processes, TogglePause(l, p)
    PROVE  MenuInv'
  <1>1. call[l] \in Calls /\ call \in [Legs -> Calls]
    BY CallKnown
  <1> DEFINE c == [call[l] EXCEPT !.paused = ~ @, !.fresh = TRUE]
  <1>2. c \in Calls /\ c.stage = call[l].stage /\ c.fsm = call[l].fsm /\ c.at = call[l].at
        /\ c.by = call[l].by /\ c.score = call[l].score
    BY <1>1 DEF Calls
  <1>3. call' = [call EXCEPT ![l] = c] /\ call[l].stage = "live"
    BY <1>1 DEF TogglePause
  <1>4. UNCHANGED <<content, cache, latest, builds, usage, heard, overlapped, ended>>
    BY DEF TogglePause
  <1> HIDE DEF c
  <1> QED
    BY <1>2, <1>3, <1>4, LiveCallFits

LEMMA ReplayFits ==
    ASSUME MenuInv, NEW l \in Legs, NEW p \in Processes, Replay(l, p)
    PROVE  MenuInv'
  <1>1. call[l] \in Calls /\ call \in [Legs -> Calls]
    BY CallKnown
  <1> DEFINE c == [call[l] EXCEPT !.fresh = TRUE]
  <1>2. c \in Calls /\ c.stage = call[l].stage /\ c.fsm = call[l].fsm /\ c.at = call[l].at
        /\ c.by = call[l].by /\ c.score = call[l].score
    BY <1>1 DEF Calls
  <1>3. call' = [call EXCEPT ![l] = c] /\ call[l].stage = "live"
    BY <1>1 DEF Replay
  <1> HIDE DEF c
  <1> QED
    BY <1>2, <1>3, LiveCallFits DEF Replay

\* Calls of an hour ago are ended; the state of the others stays.
LEMMA StaleFits ==
    ASSUME MenuInv
    PROVE  /\ \A k \in Legs : CallFits(DeleteStale[k])
           /\ \A k \in Legs : DeleteStale[k].stage \in KeyInFlight =>
                /\ DeleteStale[k].stage \in CheckOpen => call[k].stage \in CheckOpen
                /\ DeleteStale[k].stage = "counted" => call[k].stage = "counted"
                /\ DeleteStale[k].fsm = call[k].fsm /\ DeleteStale[k].to = call[k].to
  <1> SUFFICES ASSUME NEW k \in Legs
               PROVE  /\ CallFits(DeleteStale[k])
                      /\ DeleteStale[k].stage \in KeyInFlight =>
                           /\ DeleteStale[k].stage \in CheckOpen => call[k].stage \in CheckOpen
                           /\ DeleteStale[k].stage = "counted" => call[k].stage = "counted"
                           /\ DeleteStale[k].fsm = call[k].fsm /\ DeleteStale[k].to = call[k].to
    OBVIOUS
  <1>1. CallFits(call[k])
    BY CallKnown
  <1>2. DeleteStale[k] = call[k] \/ DeleteStale[k] = Deleted(call[k])
    BY DEF DeleteStale
  <1> QED
    BY <1>1, <1>2, DeletedFits DEF KeyInFlight, CheckOpen

LEMMA StartCallFlowFits ==
    ASSUME MenuInv, NEW l \in Legs, NEW p \in Processes, StartCallFlow(l, p)
    PROVE  MenuInv'
  <1>1. UNCHANGED <<content, cache, latest, builds, usage, heard, overlapped, ended>>
    BY DEF StartCallFlow
  <1> DEFINE old == DeleteStale
  <1>2. \A k \in Legs : CallFits(old[k])
    BY StaleFits
  <1>3. old \in [Legs -> Calls]
    BY <1>2 DEF CallFits, DeleteStale
  <1>4. call[l].stage = "none" /\ old[l] = call[l]
    BY DEF StartCallFlow, DeleteStale, Ongoing
  <1>5. ASSUME \A k \in Legs : CallFits(call'[k]), call' \in [Legs -> Calls], NoNewKey
        PROVE  MenuInv'
    <2>1. CallsTyped'
      BY <1>1, <1>5 DEF CallsTyped, MenuInv, CallFits, HasMachine, HasRecording, HasScore
    <2>2. RoomForCheck' /\ HeardWasCounted'
      BY <1>1, <1>5, LimitsStay DEF MenuInv, CallsTyped
    <2> QED
      BY <1>1, <2>1, <2>2, CachesStay DEF MenuInv
  <1>6. CASE call' = DeleteStale
    BY <1>2, <1>3, <1>5, <1>6, StaleFits DEF NoNewKey
  <1>7. CASE /\ latest[p] # None /\ InitState \in DOMAIN Fsm[latest[p].of]
             /\ call' = [DeleteStale EXCEPT ![l].stage = "asked", ![l].fsm = latest[p]]
    <2> DEFINE c == [old[l] EXCEPT !.stage = "asked", !.fsm = latest[p]]
    <2>1. latest[p] \in Built
      BY <1>7 DEF MenuInv, MachinesTyped
    <2>2. call' = [old EXCEPT ![l] = c]
      BY <1>3, <1>7
    <2>3. c \in Calls /\ c.stage = "asked" /\ c.fsm = latest[p] /\ c.at = call[l].at
          /\ c.by = call[l].by
      BY <1>3, <1>4, <2>1 DEF Calls, Stages
    <2> HIDE DEF c, old
    <2>4. CallFits(call[l])
      BY CallKnown
    <2>5. c.at = InitState /\ c.by = None
      BY <1>4, <2>3, <2>4 DEF CallFits, HasMachine, HasRecording, KeyInFlight
    <2>6. InitState \in States(c.fsm.of)
      BY <1>7, <2>1, <2>3, MachineBuilt DEF Built
    <2>7. InitState.kind = "menu"
      BY DEF InitState, State
    <2>8. CallFits(c)
      BY <2>1, <2>3, <2>5, <2>6, <2>7
         DEF CallFits, HasMachine, HasRecording, HasScore, Ongoing, KeyInFlight
    <2>9. call' \in [Legs -> Calls] /\ call'[l] = c /\ \A k \in Legs \ {l} : call'[k] = old[k]
      BY <1>3, <2>2, <2>3
    <2>10. \A k \in Legs : CallFits(call'[k])
      BY <1>2, <2>8, <2>9
    <2>11. NoNewKey
      BY <2>3, <2>9, StaleFits DEF NoNewKey, KeyInFlight, CheckOpen, old
    <2> QED
      BY <1>5, <2>9, <2>10, <2>11
  <1> QED
    BY <1>6, <1>7 DEF StartCallFlow

LEMMA GetNextActionsFits ==
    ASSUME MenuInv, NEW l \in Legs, NEW p \in Processes, GetNextActions(l, p)
    PROVE  MenuInv'
  <1>1. call[l] \in Calls /\ CallFits(call[l]) /\ call \in [Legs -> Calls]
    BY CallKnown
  <1>2. PICK e \in Fsm[call[l].fsm.of][call[l].at] :
          call' = [call EXCEPT ![l].at = e[2], ![l].fresh = TRUE,
                               ![l].score = PostOperation(call[l])]
    BY DEF GetNextActions, Steps
  <1> DEFINE c == [call[l] EXCEPT !.at = e[2], !.fresh = TRUE, !.score = PostOperation(call[l])]
  <1>3. call[l].stage = "live" /\ call[l].stage \in Ongoing
    BY DEF GetNextActions, Ongoing
  <1>4. e[2] \in States(call[l].fsm.of) /\ e[2] \in Places /\ PostOperation(call[l]) \in Int
    BY <1>1, <1>3, KeyMoves
  <1>5. c \in Calls /\ c.stage = "live" /\ c.fsm = call[l].fsm /\ c.at = e[2]
        /\ c.by = call[l].by /\ c.score = PostOperation(call[l])
    BY <1>1, <1>3, <1>4 DEF Calls
  <1>6. call' = [call EXCEPT ![l] = c]
    BY <1>1, <1>2
  <1> HIDE DEF c
  <1>7. HasScore(c)
    BY <1>1, <1>3, <1>5, ScoreMoves
  <1>8. CallFits(c)
    BY <1>1, <1>3, <1>4, <1>5, <1>7 DEF CallFits, HasMachine, HasRecording, Ongoing, KeyInFlight
  <1>9. CallsTyped' /\ RoomForCheck' /\ HeardWasCounted'
    BY <1>5, <1>6, <1>8, OneCallChanges DEF KeyInFlight, GetNextActions, MenuInv, CallsTyped
  <1> QED
    BY <1>9, CachesStay DEF GetNextActions, MenuInv

LEMMA CheckDailyLimitFits ==
    ASSUME MenuInv, NEW l \in Legs, NEW p \in Processes, CheckDailyLimit(l, p)
    PROVE  MenuInv'
  <1>1. UNCHANGED <<content, cache, latest, builds, usage, heard, ended>>
        /\ call[l].stage = "live" /\ overlapped' = (overlapped \/ Checking # {})
    BY DEF CheckDailyLimit
  <1>2. overlapped \in BOOLEAN /\ overlapped' \in BOOLEAN /\ (overlapped => overlapped')
    BY <1>1 DEF MenuInv, CallsTyped
  <1>3. PICK e \in Fsm[call[l].fsm.of][call[l].at] :
          /\ Duration(call[l], e[2]) > 0
          /\ IF Exceeds(Duration(call[l], e[2])) THEN call' = HangupCall(l)
             ELSE call' = [call EXCEPT ![l].stage = "checked", ![l].to = e[2], ![l].by = p]
    BY DEF CheckDailyLimit, Steps
  <1>4. CASE call' = HangupCall(l)
    BY <1>1, <1>2, <1>4, HangupFits
  <1>5. CASE /\ ~ Exceeds(Duration(call[l], e[2]))
             /\ call' = [call EXCEPT ![l].stage = "checked", ![l].to = e[2], ![l].by = p]
    <2>1. call[l] \in Calls /\ CallFits(call[l]) /\ call \in [Legs -> Calls]
      BY CallKnown
    <2> DEFINE c == [call[l] EXCEPT !.stage = "checked", !.to = e[2], !.by = p]
    <2>2. call[l].stage \in Ongoing /\ call[l].fsm \in Built
      BY <1>1, <2>1 DEF CallFits, HasMachine, Ongoing
    <2>3. e[2] \in States(call[l].fsm.of) /\ e[2] \in Places
      BY <2>1, <2>2, KeyMoves
    <2>4. e[2].kind = "play" /\ Duration(call[l], e[2]) \in Nat
      BY <1>3, <2>2, <2>3, LengthOfRecording
    <2>5. c \in Calls /\ c.stage = "checked" /\ c.fsm = call[l].fsm /\ c.at = call[l].at
          /\ c.by = p /\ c.to = e[2] /\ c.score = call[l].score
      BY <2>1, <2>3 DEF Calls, Stages
    <2>6. call' = [call EXCEPT ![l] = c]
      BY <1>5, <2>1
    <2> HIDE DEF c
    <2>7. CallFits(c)
      BY <1>1, <2>1, <2>3, <2>4, <2>5
         DEF CallFits, HasMachine, HasRecording, HasScore, Ongoing, KeyInFlight, Posed, Scored
    <2>8. call' \in [Legs -> Calls] /\ call'[l] = c /\ \A k \in Legs \ {l} : call'[k] = call[k]
      BY <2>1, <2>5, <2>6
    <2>9. \A k \in Legs : CallFits(call'[k])
      BY <2>7, <2>8, CallKnown
    <2>10. CallsTyped'
      BY <1>1, <1>2, <2>8, <2>9
         DEF CallsTyped, MenuInv, CallFits, HasMachine, HasRecording, HasScore
    <2>11. Checking' = Checking \union {l}
      BY <2>5, <2>8 DEF Checking
    <2>12. Duration(c, c.to) = Duration(call[l], e[2])
      BY <2>5 DEF Duration
    <2>13. RoomForCheck'
      <3>1. SUFFICES ASSUME ~ overlapped'
                     PROVE  /\ usage' <= DailyLimit
                            /\ \A k \in Checking' :
                                 /\ usage' + Duration(call'[k], call'[k].to) <= DailyLimit
                                 /\ \A j \in Checking' : j = k
        BY DEF RoomForCheck
      <3>2. Checking = {} /\ ~ overlapped
        BY <1>1, <3>1
      <3>3. Checking' = {l} /\ usage <= DailyLimit
        BY <2>11, <3>2 DEF MenuInv, RoomForCheck
      <3>4. usage + Duration(call[l], e[2]) <= DailyLimit
        <4>1. usage \in Nat /\ DailyLimit \in Nat
          BY MenuAssumption DEF MenuInv, CallsTyped
        <4> QED
          BY <1>5, <2>4, <4>1 DEF Exceeds
      <3> QED
        BY <1>1, <2>8, <2>12, <3>3, <3>4
    <2>14. Owed' = Owed
      <3>1. {k \in Legs : call'[k].stage = "counted"} = {k \in Legs : call[k].stage = "counted"}
        BY <1>1, <2>5, <2>8
      <3>2. \A k \in Legs : call[k].stage = "counted" => call'[k] = call[k]
        BY <1>1, <2>8
      <3>3. \A k \in {j \in Legs : call[j].stage = "counted"} : OwedBy(k)' = OwedBy(k)
        BY <3>2 DEF OwedBy
      <3> QED
        BY <3>1, <3>3 DEF Owed
    <2>15. HeardWasCounted'
      BY <1>1, <2>14 DEF MenuInv, HeardWasCounted
    <2> QED
      BY <1>1, <2>10, <2>13, <2>15, CachesStay DEF MenuInv
  <1> QED
    BY <1>3, <1>4, <1>5

LEMMA SecondsOwed ==
    ASSUME NEW l, NEW d \in Nat
    PROVE  /\ IsFiniteSet({<<l, k>> : k \in 1 .. d})
           /\ Cardinality({<<l, k>> : k \in 1 .. d}) = d
  <1> DEFINE S == {<<l, k>> : k \in 1 .. d}
  <1>1. [k \in 1 .. d |-> <<l, k>>] \in Bijection(1 .. d, S)
    BY DEF Bijection, Injection, Surjection, IsInjective
  <1>2. IsFiniteSet(1 .. d) /\ Cardinality(1 .. d) = d
    BY FS_Interval
  <1> QED
    BY <1>1, <1>2, FS_Bijection DEF ExistsBijection

LEMMA CountFits ==
    ASSUME MenuInv, NEW l \in Legs, Count(l)
    PROVE  MenuInv'
  <1> DEFINE d == Duration(call[l], call[l].to)
             c == IF call[l].stage = "late" THEN Over ELSE [call[l] EXCEPT !.stage = "counted"]
  <1>1. call[l] \in Calls /\ CallFits(call[l]) /\ call \in [Legs -> Calls]
    BY CallKnown
  <1>2. /\ UNCHANGED <<content, cache, latest, builds, heard, overlapped, ended>>
        /\ usage' = usage + d /\ l \in Checking /\ call[l].stage \in CheckOpen
        /\ call' = [call EXCEPT ![l] = c]
    BY <1>1 DEF Count, Checking, CheckOpen
  <1>3. d \in Nat
    <2>1. call[l].fsm \in Built /\ call[l].to \in States(call[l].fsm.of)
      BY <1>1, <1>2 DEF CallFits, HasMachine, HasRecording, Ongoing, KeyInFlight, CheckOpen
    <2> QED
      BY <2>1, LengthOfRecording
  <1>4. CallFits(c) /\ c.stage \notin CheckOpen
        /\ (c.stage = "counted" => c.fsm = call[l].fsm /\ c.to = call[l].to)
    <2>1. CASE call[l].stage = "late"
      BY <2>1, EmptyFits DEF Over, NoCall, CheckOpen
    <2>2. CASE call[l].stage = "checked"
      <3> DEFINE b == [call[l] EXCEPT !.stage = "counted"]
      <3>1. b \in Calls /\ b.stage = "counted" /\ b.fsm = call[l].fsm /\ b.at = call[l].at
            /\ b.by = call[l].by /\ b.to = call[l].to /\ b.score = call[l].score
        BY <1>1 DEF Calls, Stages
      <3>2. c = b
        BY <2>2
      <3> HIDE DEF b, c
      <3>3. CallFits(b)
        BY <1>1, <2>2, <3>1
           DEF CallFits, HasMachine, HasRecording, HasScore, Ongoing, KeyInFlight, Posed, Scored
      <3> QED
        BY <3>1, <3>2, <3>3 DEF CheckOpen
    <2> QED
      BY <1>2, <2>1, <2>2 DEF CheckOpen
  <1> HIDE DEF c
  <1>5. c \in Calls
    BY <1>4 DEF CallFits
  <1>6. call' \in [Legs -> Calls] /\ call'[l] = c /\ \A k \in Legs \ {l} : call'[k] = call[k]
    BY <1>1, <1>2, <1>5
  <1>7. \A k \in Legs : CallFits(call'[k])
    BY <1>4, <1>6, CallKnown
  <1>8. usage \in Nat /\ heard \in Nat
    BY DEF MenuInv, CallsTyped
  <1> HIDE DEF d
  <1>9. CallsTyped'
    BY <1>2, <1>3, <1>6, <1>7, <1>8
       DEF CallsTyped, MenuInv, CallFits, HasMachine, HasRecording, HasScore
  <1>10. Checking' = Checking \ {l}
    BY <1>4, <1>6 DEF Checking, CheckOpen
  <1>11. RoomForCheck'
    <2>1. SUFFICES ASSUME ~ overlapped'
                   PROVE  usage' <= DailyLimit /\ Checking' = {}
      BY DEF RoomForCheck
    <2>2. /\ usage + d <= DailyLimit /\ \A k \in Checking : k = l
      BY <1>2, <2>1 DEF MenuInv, RoomForCheck, d
    <2> QED
      BY <1>2, <1>10, <2>2
  <1>12. HeardWasCounted'
    <2>1. IsFiniteSet(Owed) /\ heard + Cardinality(Owed) <= usage
      BY DEF MenuInv, HeardWasCounted
    <2> DEFINE new == {<<l, k>> : k \in 1 .. d}
    <2>2. IsFiniteSet(new) /\ Cardinality(new) = d
      BY <1>3, SecondsOwed
    <2>3. Owed' \subseteq Owed \union new
      <3>1. SUFFICES ASSUME NEW k \in Legs, call'[k].stage = "counted"
                     PROVE  OwedBy(k)' \subseteq Owed \union new
        BY DEF Owed
      <3>2. CASE k = l
        <4>1. Duration(call'[l], call'[l].to) = d
          BY <1>4, <1>6, <3>1, <3>2 DEF Duration, d
        <4> QED
          BY <3>2, <4>1 DEF OwedBy
      <3>3. CASE k # l
        <4>1. call'[k] = call[k] /\ OwedBy(k)' = OwedBy(k)
          BY <1>6, <3>3 DEF OwedBy
        <4> QED
          BY <3>1, <4>1 DEF Owed
      <3> QED
        BY <3>2, <3>3
    <2>4. IsFiniteSet(Owed \union new)
          /\ Cardinality(Owed \union new)
             = Cardinality(Owed) + Cardinality(new) - Cardinality(Owed \cap new)
      BY <2>1, <2>2, FS_Union
    <2>5. IsFiniteSet(Owed') /\ Cardinality(Owed') <= Cardinality(Owed \union new)
      BY <2>3, <2>4, FS_Subset
    <2>6. IsFiniteSet(Owed \cap new)
      BY <2>1, FS_Subset
    <2>7. /\ Cardinality(Owed) \in Nat /\ Cardinality(Owed \cap new) \in Nat
          /\ Cardinality(Owed') \in Nat
      BY <2>1, <2>5, <2>6, FS_CardinalityType
    <2> HIDE DEF new
    <2> QED
      BY <1>2, <1>3, <1>8, <2>1, <2>2, <2>4, <2>5, <2>7 DEF HeardWasCounted
  <1> QED
    BY <1>2, <1>9, <1>11, <1>12, CachesStay DEF MenuInv

LEMMA SaveOngoingCallFits ==
    ASSUME MenuInv, NEW l \in Legs, SaveOngoingCall(l)
    PROVE  MenuInv'
  <1> DEFINE d == Duration(call[l], call[l].to)
             c == [call[l] EXCEPT !.stage = "live", !.at = call[l].to, !.to = InitState,
                                  !.by = None, !.fresh = TRUE, !.score = PostOperation(call[l])]
  <1>1. call[l] \in Calls /\ CallFits(call[l]) /\ call \in [Legs -> Calls]
    BY CallKnown
  <1>2. /\ UNCHANGED <<content, cache, latest, builds, usage, overlapped, ended>>
        /\ heard' = heard + d /\ call[l].stage = "counted" /\ call' = [call EXCEPT ![l] = c]
    BY <1>1 DEF SaveOngoingCall
  <1>3. /\ call[l].fsm \in Built /\ call[l].to \in States(call[l].fsm.of)
        /\ call[l].to.kind = "play" /\ call[l].to \in Places
    BY <1>1, <1>2 DEF CallFits, HasMachine, HasRecording, Ongoing, KeyInFlight, Calls
  <1>4. d \in Nat
    BY <1>3, LengthOfRecording
  <1>5. PostOperation(call[l]) \in Int
    <2>1. call[l].score \in Int /\ Right \in Int /\ Wrong \in Int
      BY <1>1, MenuAssumption DEF Calls
    <2> QED
      BY <2>1 DEF PostOperation
  <1>6. c \in Calls /\ c.stage = "live" /\ c.fsm = call[l].fsm /\ c.at = call[l].to /\ c.by = None
    <2>1. InitState \in Places
      BY DEF Places
    <2> QED
      BY <1>1, <1>3, <1>5, <2>1 DEF Calls, Stages
  <1> HIDE DEF c
  <1>7. CallFits(c)
    BY <1>3, <1>6 DEF CallFits, HasMachine, HasRecording, HasScore, Ongoing, KeyInFlight
  <1>8. call' \in [Legs -> Calls] /\ call'[l] = c /\ \A k \in Legs \ {l} : call'[k] = call[k]
    BY <1>1, <1>2, <1>6
  <1>9. \A k \in Legs : CallFits(call'[k])
    BY <1>7, <1>8, CallKnown
  <1>10. usage \in Nat /\ heard \in Nat
    BY DEF MenuInv, CallsTyped
  <1>11. CallsTyped'
    <2> HIDE DEF d
    <2> QED
      BY <1>2, <1>4, <1>8, <1>9, <1>10
         DEF CallsTyped, MenuInv, CallFits, HasMachine, HasRecording, HasScore
  <1>12. RoomForCheck'
    <2>1. Checking' = Checking
      BY <1>2, <1>6, <1>8 DEF Checking
    <2>2. \A k \in Checking : call'[k] = call[k]
      BY <1>2, <1>8 DEF Checking
    <2> QED
      BY <1>2, <2>1, <2>2 DEF MenuInv, RoomForCheck
  <1>13. HeardWasCounted'
    <2>1. IsFiniteSet(Owed) /\ heard + Cardinality(Owed) <= usage
      BY DEF MenuInv, HeardWasCounted
    <2> DEFINE played == {<<l, k>> : k \in 1 .. d}
    <2>2. IsFiniteSet(played) /\ Cardinality(played) = d
      BY <1>4, SecondsOwed
    <2>3. played \subseteq Owed
      BY <1>2 DEF Owed, OwedBy
    <2>4. Owed' \subseteq Owed \ played
      <3>1. SUFFICES ASSUME NEW k \in Legs, call'[k].stage = "counted"
                     PROVE  OwedBy(k)' \subseteq Owed \ played
        BY DEF Owed
      <3>2. k # l
        BY <1>6, <1>8, <3>1
      <3>3. call'[k] = call[k] /\ OwedBy(k)' = OwedBy(k) /\ call[k].stage = "counted"
        BY <1>8, <3>1, <3>2 DEF OwedBy
      <3>4. OwedBy(k) \subseteq Owed
        BY <3>3 DEF Owed
      <3>5. OwedBy(k) \cap played = {}
        BY <3>2 DEF OwedBy
      <3> QED
        BY <3>3, <3>4, <3>5
    <2>5. IsFiniteSet(Owed \ played)
          /\ Cardinality(Owed \ played) = Cardinality(Owed) - Cardinality(Owed \cap played)
      BY <2>1, <2>2, FS_Difference
    <2>6. Owed \cap played = played
      BY <2>3
    <2>7. IsFiniteSet(Owed') /\ Cardinality(Owed') <= Cardinality(Owed \ played)
      BY <2>4, <2>5, FS_Subset
    <2>8. Cardinality(Owed) \in Nat /\ Cardinality(Owed') \in Nat
          /\ Cardinality(Owed \ played) \in Nat
      BY <2>1, <2>5, <2>7, FS_CardinalityType
    <2> HIDE DEF played, d
    <2> QED
      BY <1>2, <1>4, <1>10, <2>1, <2>2, <2>5, <2>6, <2>7, <2>8 DEF HeardWasCounted
  <1> QED
    BY <1>2, <1>11, <1>12, <1>13, CachesStay DEF MenuInv

LEMMA RestartFits ==
    ASSUME MenuInv, NEW p \in Processes, Restart(p)
    PROVE  MenuInv'
  <1>1. /\ UNCHANGED <<content, builds, usage, heard, overlapped>>
        /\ ended < MaxFaults /\ ended' = ended + 1
        /\ cache' = [cache EXCEPT ![p] = {}] /\ latest' = [latest EXCEPT ![p] = None]
    BY DEF Restart
  <1>2. MachinesTyped'
    BY <1>1, MenuAssumption DEF MenuInv, MachinesTyped
  <1>3. /\ DOMAIN call' = Legs /\ call' = [k \in Legs |-> call'[k]]
        /\ \A k \in Legs :
             \/ call'[k] = call[k]
             \/ call'[k] = Over
             \/ /\ call[k].by = p /\ call[k].stage # "late"
                /\ call'[k] = [call[k] EXCEPT !.stage = "live", !.to = InitState, !.by = None]
    BY DEF Restart
  <1>4. ASSUME NEW k \in Legs, call[k].by = p, call[k].stage # "late",
               call'[k] = [call[k] EXCEPT !.stage = "live", !.to = InitState, !.by = None]
        PROVE  CallFits(call'[k]) /\ call'[k].stage = "live"
    <2>1. call[k] \in Calls /\ CallFits(call[k])
      BY CallKnown
    <2>2. InitState \in Places
      BY DEF Places
    <2> DEFINE c == [call[k] EXCEPT !.stage = "live", !.to = InitState, !.by = None]
    <2>3. c \in Calls /\ c.stage = "live" /\ c.fsm = call[k].fsm /\ c.at = call[k].at
          /\ c.by = None /\ c.score = call[k].score
      BY <2>1, <2>2 DEF Calls, Stages
    <2> HIDE DEF c
    <2>4. call[k].stage \in {"checked", "counted"}
      BY <1>4, <2>1, MenuAssumption DEF CallFits, HasRecording, KeyInFlight
    <2>5. CallFits(c)
      BY <2>1, <2>3, <2>4
         DEF CallFits, HasMachine, HasRecording, HasScore, Ongoing, KeyInFlight, Posed, Scored
    <2> QED
      BY <1>4, <2>3, <2>5 DEF c
  <1>5. Over.stage = "over"
    BY DEF Over, NoCall
  <1>6. \A k \in Legs : CallFits(call'[k])
    BY <1>3, <1>4, CallKnown, EmptyFits
  <1>7. call' \in [Legs -> Calls]
    BY <1>3, <1>6 DEF CallFits
  <1>8. CallsTyped'
    BY <1>1, <1>6, <1>7 DEF CallsTyped, MenuInv, CallFits, HasMachine, HasRecording, HasScore
  <1>9. NoNewKey
    BY <1>3, <1>4, <1>5 DEF NoNewKey, KeyInFlight
  <1>10. RoomForCheck' /\ HeardWasCounted'
    BY <1>1, <1>9, LimitsStay DEF MenuInv, CallsTyped
  <1> QED
    BY <1>2, <1>8, <1>10 DEF MenuInv

LEMMA MenuStarts == Init => MenuInv
  <1> SUFFICES ASSUME Init PROVE MenuInv
    OBVIOUS
  <1>1. MachinesTyped
    BY MenuAssumption DEF Init, MachinesTyped
  <1>2. \A l \in Legs : call[l] = NoCall
    BY DEF Init
  <1>3. NoCall \in Calls /\ NoCall.stage = "none"
    BY EmptyFits DEF CallFits, NoCall
  <1>4. CallsTyped
    BY <1>2, <1>3, EmptyFits DEF Init, CallsTyped
  <1>5. Checking = {}
    BY <1>2, <1>3 DEF Checking
  <1>6. RoomForCheck
    BY <1>5, MenuAssumption DEF Init, RoomForCheck
  <1>7. Owed = {}
    BY <1>2, <1>3 DEF Owed
  <1>8. HeardWasCounted
    BY <1>7, FS_EmptySet DEF Init, HeardWasCounted
  <1> QED
    BY <1>1, <1>4, <1>6, <1>8 DEF MenuInv

LEMMA MenuSteps == MenuInv /\ [Next]_vars => MenuInv'
  <1> SUFFICES ASSUME MenuInv, [Next]_vars PROVE MenuInv'
    OBVIOUS
  <1>1. CASE ChangeContent
    BY <1>1, ChangeContentFits
  <1>2. ASSUME NEW p \in Processes, UpdateIvrStructure(p) \/ EnsureFsmLoaded(p)
        PROVE  MenuInv'
    BY <1>2, InstantiateFits DEF UpdateIvrStructure, EnsureFsmLoaded
  <1>3. ASSUME NEW p \in Processes, Restart(p) PROVE MenuInv'
    BY <1>3, RestartFits
  <1>4. ASSUME NEW l \in Legs,
               StartEnds(l) \/ CallEnds(l) \/ GoesStale(l) \/ Count(l) \/ SaveOngoingCall(l)
        PROVE  MenuInv'
    BY <1>4, StartEndsFits, CallEndsFits, GoesStaleFits, CountFits, SaveOngoingCallFits
  <1>5. ASSUME NEW l \in Legs, NEW p \in Processes,
               \/ StartCallFlow(l, p) \/ ServerError(l, p) \/ TogglePause(l, p)
               \/ ChangeSpeed(l, p) \/ Replay(l, p)
               \/ GetNextActions(l, p) \/ CheckDailyLimit(l, p)
        PROVE  MenuInv'
    BY <1>5, StartCallFlowFits, ServerErrorFits, TogglePauseFits, ChangeSpeedFits, ReplayFits,
       GetNextActionsFits, CheckDailyLimitFits
  <1>6. CASE UNCHANGED vars
    <2>1. UNCHANGED <<content, cache, latest, builds, call, usage, heard, overlapped, ended>>
      BY <1>6 DEF vars
    <2>2. MachinesTyped' /\ CallsTyped'
      BY <2>1 DEF MenuInv, MachinesTyped, CallsTyped
    <2>3. RoomForCheck' /\ HeardWasCounted'
      BY <2>1, LimitsStay DEF MenuInv, CallsTyped, NoNewKey
    <2> QED
      BY <2>2, <2>3 DEF MenuInv
  <1> QED
    BY <1>1, <1>2, <1>3, <1>4, <1>5, <1>6 DEF Next

\* IvrMenu (ivr_service.py, fsm.py): whatever is rebuilt, restarted or pressed
\* at once, a call is in a state of its own machine, with the score of its
\* attempt, and each second that is played is one that was counted.
THEOREM MenuInvariant == Spec => []MenuInv
  BY MenuStarts, MenuSteps, PTL DEF Spec

LEMMA MenuConsequence == MenuInv => CallsConsistent
  <1> SUFFICES ASSUME MenuInv PROVE CallsConsistent
    OBVIOUS
  <1>1. TypeOK
    <2>1. \A m \in Machines : m.id \in 1 .. MaxBuilds /\ m.of \in Contents
      BY MachineBuilt DEF MenuInv, MachinesTyped, Machines, Built
    <2>2. \A l \in Legs : /\ call[l].stage \in Stages /\ call[l].by \in Processes \cup {None}
                          /\ call[l].speed \in 1 .. TopSpeed /\ call[l].paused \in BOOLEAN
      BY CallKnown DEF Calls
    <2> QED
      BY <2>1, <2>2 DEF TypeOK, MenuInv, MachinesTyped, CallsTyped
  <1>2. InItsMachine
    <2>1. ASSUME NEW l \in Legs, call[l].stage \in Ongoing
          PROVE  call[l].at \in DOMAIN Fsm[call[l].fsm.of]
      <3>1. call[l].fsm \in Built /\ call[l].at \in States(call[l].fsm.of)
        BY <2>1, CallKnown DEF CallFits, HasMachine
      <3> QED
        BY <3>1, MachineBuilt DEF Built
    <2> QED
      BY <2>1 DEF InItsMachine
  <1>3. ScoreOfAttempt
    BY CallKnown DEF CallFits, HasScore, Scored, Posed, ScoreOfAttempt
  <1>4. LimitKept
    <2>1. Cardinality(Owed) \in Nat /\ heard + Cardinality(Owed) <= usage
      BY FS_CardinalityType DEF MenuInv, HeardWasCounted
    <2>2. heard \in Nat /\ usage \in Nat
      BY DEF MenuInv, CallsTyped
    <2> QED
      BY <2>1, <2>2 DEF MenuInv, RoomForCheck, LimitKept
  <1> QED
    BY <1>1, <1>2, <1>3, <1>4 DEF CallsConsistent

\* IvrMenu: CallsConsistent, for every menu, number of calls, processes,
\* restarts and rebuilds.
THEOREM CallsAgree == Spec => []CallsConsistent
  BY MenuInvariant, MenuConsequence, PTL

-----------------------------------------------------------------------------
(* Migrations: no document is lost, doubled or left behind.                *)

\* What a migration other than 001 looks for.
Due(m, d) ==
    \/ m = "003" /\ d.coll = "quizData" /\ d.key = 0
    \/ m = "004" /\ d.coll = "users" /\ d.old # {}
    \/ m = "005" /\ d.coll = "contentsV3" /\ "key" \in d.old
    \/ m = "005b" /\ d.coll = "contentsV3" /\ d.old = {"nested"}
    \/ m = "006" /\ d.coll = "classes" /\ d.old \ {"version"} # {}
    \/ m = "007" /\ d.coll = "conferenceState" /\ "key" \in d.old
    \/ m = "008" /\ d.coll = "comprehension" /\ d.old # {}
    \/ m = "009" /\ d.coll = "fsmcontexts" /\ d.old # {}
    \/ m = "010" /\ d.coll = "logs" /\ d.old # {}
    \/ m = "011" /\ d.coll = "logentries" /\ d.old # {}
    \/ m = "012" /\ d.coll = "callsLogs" /\ d.key = 0
    \/ m = "013" /\ d.coll = "ivrfsms" /\ d.key = 0
    \/ m = "014" /\ d.coll = "conferenceState" /\ d.key = 0
    \/ m = "015" /\ d.coll = "conferences" /\ d.key = 0
    \/ m = "016" /\ d.coll = "users" /\ "text" \in {d.ref, d.tenant}
    \/ m = "017" /\ d.coll = "contentsV3" /\ d.key = 0
    \/ m = "018" /\ d.coll = "contentsV3" /\ Lower(d.type) # d.type
    \/ m = "019" /\ d.coll = "contentsV3" /\ d.type = "quiz"
    \/ m = "020" /\ d.coll = "contentsV3" /\ d.heard /\ d.old = {} /\ ~ d.processed

\* A document that the platform does not find has not been written to.
Hidden(d) == d.key = 0 \/ (d.coll # "users" /\ "key" \in d.old)
Migratable(d) == Understood(d) /\ (Hidden(d) => ~ d.edit)

\* Where a document comes from.
HasOrigin(l, d) ==
    \/ d.coll = "users" /\ d.of \in Things(l.legacy)
    \/ \E o \in l.docs : o.of = d.of /\ o.coll = d.coll /\ Lower(o.type) = Lower(d.type)

Sound(l, ds) ==
    /\ ds \subseteq StoredDocuments /\ IsFiniteSet(ds)
    /\ \A d, e \in ds : d.of = e.of /\ d.key = e.key => d = e
    /\ \A d, e \in ds : d.of = e.of /\ d.coll = "users" => d = e
    /\ \A d \in ds : Migratable(d) /\ HasOrigin(l, d)

About(ds, o) == {d \in ds : d.of = o}
FewCopies ==
    \A o \in Things(EverLeft) :
        Cardinality(About(docs, o)) <= 1 + cuts + Cardinality(About(half, o))

EditFound(o) ==
    \/ \E d \in docs : d.of = o /\ d.edit
    \/ \E l \in left.docs : l.of = o /\ Stray(l)

\* A document that was read is still what was read, but for the platform's
\* writes; while copies are made of those that were read, there are none.
UpToEdit(d, r) == d = r \/ d = [r EXCEPT !.edit = TRUE]
Read(r) ==
    /\ r \in StoredDocuments /\ Due(Current, r)
    /\ \A d \in SameId(r) : UpToEdit(d, r)
    /\ \A q \in batch \union half : q.of = r.of /\ q.key = r.key => q = r
    /\ Current \in Rekeying => r \in docs

Reading ==
    /\ stage = 0 => batch = {} /\ half = {}
    /\ stage = 1 => batch \subseteq Legacy /\ half = {}
    /\ stage > 1 => \A r \in batch \union half : Read(r)
    /\ half = {} \/ \E h \in half :
        /\ half = {h} /\ h \notin batch /\ Current \in Rekeying
        /\ \E d \in docs : d.of = h.of /\ d.key # 0

\* A run from the first migration on has left nothing to do behind it.
UserOf(s) == \E d \in docs : d.coll = "users" /\ d.of = s.of
Swept ==
    /\ \A d \in docs : \A j \in 2 .. stage :
        Due(Order[j], d) => j = stage /\ \E r \in batch \union half : d \in SameId(r)
    /\ \A s \in Legacy : s.of \in removed \/ UserOf(s) \/ (stage = 1 /\ s \in batch)

Planned ==
    /\ stage \in 0 .. Len(Order) /\ plan \in (1 .. Len(Order)) \X (1 .. Len(Order))
    /\ stage # 0 => plan[1] <= stage /\ stage <= plan[2] /\ ~ complete

Preserved ==
    /\ left \in Populations /\ cuts \in Nat
    /\ Sound(left, docs)
    /\ NothingLost /\ FewCopies /\ OnlyLegacyReturns /\ NoClash
    /\ \A o \in edited : EditFound(o)

MigrationsInv ==
    /\ Preserved /\ Planned /\ Reading
    /\ stage # 0 /\ plan[1] = 1 => Swept
    /\ CompleteIsShaped

-----------------------------------------------------------------------------
(* The migrations are in order, and know what they look for. *)

LEMMA MigrationPlaces ==
    /\ Len(Order) = 22
    /\ \A i \in 1 .. 22 :
        /\ Order[i] = "001" <=> i = 1
        /\ Order[i] = "002" <=> i = 2
        /\ Order[i] = "005" => i = 5
        /\ Order[i] = "005b" => i = 6
        /\ Order[i] = "018" => i = 19
        /\ Order[i] = "019" <=> i = 20
        /\ Order[i] = "020" <=> i = 21
        /\ Order[i] = "021" <=> i = 22
  <1>1. Len(Order) = 22
    BY DEF Order
  <1>2. ASSUME NEW i \in 1 .. 22
        PROVE  /\ Order[i] = "001" <=> i = 1
               /\ Order[i] = "002" <=> i = 2
               /\ Order[i] = "005" => i = 5
               /\ Order[i] = "005b" => i = 6
               /\ Order[i] = "018" => i = 19
               /\ Order[i] = "019" <=> i = 20
               /\ Order[i] = "020" <=> i = 21
               /\ Order[i] = "021" <=> i = 22
    <2>1. \/ i = 1 \/ i = 2 \/ i = 3 \/ i = 4 \/ i = 5 \/ i = 6 \/ i = 7 \/ i = 8
          \/ i = 9 \/ i = 10 \/ i = 11 \/ i = 12 \/ i = 13 \/ i = 14 \/ i = 15
          \/ i = 16 \/ i = 17 \/ i = 18 \/ i = 19 \/ i = 20 \/ i = 21 \/ i = 22
      BY SMT
    <2> QED  BY <2>1 DEF Order
  <1> QED  BY <1>1, <1>2

LEMMA AllPlaces ==
    \A m \in {"003", "004", "005", "005b", "006", "007", "008", "009", "010", "011", "012",
              "013", "014", "015", "016", "017", "018", "019", "020"} :
        \E i \in 2 .. 22 : Order[i] = m
  <1>1. /\ Order[3] = "003" /\ Order[4] = "004" /\ Order[5] = "005" /\ Order[6] = "005b"
        /\ Order[7] = "006" /\ Order[8] = "007" /\ Order[9] = "008" /\ Order[10] = "009"
        /\ Order[11] = "010" /\ Order[12] = "011" /\ Order[13] = "012" /\ Order[14] = "013"
        /\ Order[15] = "014" /\ Order[16] = "015" /\ Order[17] = "016" /\ Order[18] = "017"
        /\ Order[19] = "018" /\ Order[20] = "019" /\ Order[21] = "020"
    BY DEF Order
  <1> QED  BY <1>1

LEMMA FoundByName ==
    ASSUME NEW m, m # "001"
    PROVE  Find(m) = {d \in docs : Due(m, d)}
  <1>1. CASE m = "003"
    BY <1>1 DEF Find, Due, QuizData, StringIds, In
  <1>2. CASE m = "004"
    BY <1>2 DEF Find, Due, Users, In
  <1>3. CASE m = "005"
    BY <1>3 DEF Find, Due, KeyedContents, In
  <1>4. CASE m = "005b"
    BY <1>4 DEF Find, Due, Durations, In
  <1>5. CASE m = "006"
    BY <1>5 DEF Find, Due, OldClasses, In
  <1>6. CASE m = "007"
    BY <1>6 DEF Find, Due, ConferenceStates, In
  <1>7. CASE m = "008"
    BY <1>7 DEF Find, Due, Comprehensions, In
  <1>8. CASE m = "009"
    BY <1>8 DEF Find, Due, FsmContexts, In
  <1>9. CASE m = "010"
    BY <1>9 DEF Find, Due, Logs, In
  <1>10. CASE m = "011"
    BY <1>10 DEF Find, Due, LogEntries, In
  <1>11. CASE m = "012"
    BY <1>11 DEF Find, Due, CallLogs, StringIds, In
  <1>12. CASE m = "013"
    BY <1>12 DEF Find, Due, Fsms, StringIds, In
  <1>13. CASE m = "014"
    BY <1>13 DEF Find, Due, StatesById, StringIds, In
  <1>14. CASE m = "015"
    BY <1>14 DEF Find, Due, Conferences, StringIds, In
  <1>15. CASE m = "016"
    BY <1>15 DEF Find, Due, TextRefs, In
  <1>16. CASE m = "017"
    BY <1>16 DEF Find, Due, ContentsById, StringIds, In
  <1>17. CASE m = "018"
    BY <1>17 DEF Find, Due, MixedCase, In
  <1>18. CASE m = "019"
    BY <1>18 DEF Find, Due, StrayQuizzes, In
  <1>19. CASE m = "020"
    BY <1>19 DEF Find, Due, Unmarked, In
  <1>20. CASE m \notin {"003", "004", "005", "005b", "006", "007", "008", "009", "010", "011",
                       "012", "013", "014", "015", "016", "017", "018", "019", "020"}
    <2>1. \A d : ~ Due(m, d)
      BY <1>20 DEF Due
    <2>2. Find(m) = {}
      BY <1>20 DEF Find
    <2> QED  BY <2>1, <2>2
  <1> QED  BY <1>1, <1>2, <1>3, <1>4, <1>5, <1>6, <1>7, <1>8, <1>9, <1>10, <1>11, <1>12, <1>13,
              <1>14, <1>15, <1>16, <1>17, <1>18, <1>19, <1>20

LEMMA FoundIsDue ==
    ASSUME NEW i \in 2 .. 22
    PROVE  Find(Order[i]) = {d \in docs : Due(Order[i], d)}
  BY FoundByName, MigrationPlaces

LEMMA LegacyIsFound == Find(Order[1]) = Legacy
  BY MigrationPlaces DEF Find

\* StoredDocuments that no migration looks for are what the platform reads.
LEMMA NothingDueIsShaped ==
    ASSUME NEW d \in StoredDocuments, Migratable(d), \A i \in 2 .. 22 : ~ Due(Order[i], d)
    PROVE  Shaped(d)
  <1>1. \A m \in {"003", "004", "005", "005b", "006", "007", "008", "009", "010", "011",
                  "012", "013", "014", "015", "016", "017", "018", "019", "020"} : ~ Due(m, d)
    <2> TAKE m \in {"003", "004", "005", "005b", "006", "007", "008", "009", "010", "011",
                    "012", "013", "014", "015", "016", "017", "018", "019", "020"}
    <2>1. PICK i \in 2 .. 22 : Order[i] = m
      BY AllPlaces
    <2> QED  BY <2>1
  <1>2. d.key # 0
    BY <1>1 DEF Migratable, Understood, Due
  <1>3. d.coll = "conferenceState" => "key" \notin d.old
    BY <1>1 DEF Due
  <1>4. d.coll = "classes" => d.old \subseteq {"version"}
    BY <1>1 DEF Due
  <1>5. d.coll = "contentsV3" => "key" \notin d.old /\ d.old # {"nested"}
    BY <1>1 DEF Due
  <1>6. d.coll \in {"users", "comprehension", "fsmcontexts", "logs", "logentries"} => d.old = {}
    BY <1>1 DEF Due
  <1>7. d.old = {} \/ d.coll = "classes" \/ (d.coll = "conferenceState" /\ d.old = {"version"})
    BY <1>2, <1>3, <1>5, <1>6 DEF Migratable, Understood
  <1>8. "text" \notin {d.ref, d.tenant}
    <2>1. d.coll = "users" => "text" \notin {d.ref, d.tenant}
      BY <1>1 DEF Due
    <2> QED  BY <2>1, <1>2, <1>5 DEF Migratable, Understood
  <1>9. d.coll = "contentsV3" =>
            d.type # "quiz" /\ Lower(d.type) = d.type /\ (d.heard => d.processed)
    BY <1>1, <1>7 DEF Due
  <1> QED  BY <1>2, <1>4, <1>7, <1>8, <1>9 DEF Shaped

-----------------------------------------------------------------------------
(* Sets of documents: some are taken out, changed in place, or added. *)

LEMMA Lowered ==
    ASSUME NEW t
    PROVE  /\ Lower(Lower(t)) = Lower(t)
           /\ Lower(t) \in {t, "story", "quiz"}
  BY DEF Lower

LEMMA FewerSound ==
    ASSUME NEW l, NEW ds, Sound(l, ds), NEW es \in SUBSET ds
    PROVE  /\ Sound(l, es)
           /\ \A o : Cardinality(About(es, o)) <= Cardinality(About(ds, o))
  <1>1. Sound(l, es)
    BY FS_Subset DEF Sound
  <1>2. ASSUME NEW o PROVE Cardinality(About(es, o)) <= Cardinality(About(ds, o))
    <2>1. IsFiniteSet(About(ds, o))
      BY FS_Subset DEF About, Sound
    <2> QED  BY <2>1, FS_Subset DEF About
  <1> QED  BY <1>1, <1>2

\* A document is changed in place.
InPlaceOf(d, e) ==
    /\ e \in StoredDocuments /\ Migratable(e)
    /\ e.of = d.of /\ e.key = d.key /\ e.coll = d.coll /\ Lower(e.type) = Lower(d.type)

LEMMA ChangedSound ==
    ASSUME NEW l, NEW ds, Sound(l, ds), NEW f,
           \A d \in ds : InPlaceOf(d, f[d])
    PROVE  LET es == {f[d] : d \in ds}
           IN  /\ Sound(l, es)
               /\ \A o : Cardinality(About(es, o)) <= Cardinality(About(ds, o))
  <1> DEFINE es == {f[d] : d \in ds}
  <1>1. es \subseteq StoredDocuments /\ \A e \in es : Migratable(e)
    BY DEF InPlaceOf
  <1>2. IsFiniteSet(es)
    <2>1. [d \in ds |-> f[d]] \in Surjection(ds, es)
      BY DEF Surjection
    <2> QED  BY <2>1, FS_Surjection DEF Sound
  <1>3. \A d, e \in es : d.of = e.of /\ d.key = e.key => d = e
    BY DEF Sound, InPlaceOf
  <1>4. \A d, e \in es : d.of = e.of /\ d.coll = "users" => d = e
    BY DEF Sound, InPlaceOf
  <1>5. ASSUME NEW d \in ds PROVE HasOrigin(l, f[d])
    BY DEF Sound, HasOrigin, InPlaceOf
  <1>6. ASSUME NEW o PROVE Cardinality(About(es, o)) <= Cardinality(About(ds, o))
    <2> DEFINE g == [d \in About(ds, o) |-> f[d]]
    <2>1. IsFiniteSet(About(ds, o))
      BY FS_Subset DEF About, Sound
    <2>2. g \in Surjection(About(ds, o), About(es, o))
      <3>1. g \in [About(ds, o) -> About(es, o)]
        BY DEF About, InPlaceOf
      <3>2. ASSUME NEW e \in About(es, o) PROVE \E d \in About(ds, o) : g[d] = e
        BY DEF About, InPlaceOf
      <3> QED  BY <3>1, <3>2 DEF Surjection
    <2> QED  BY <2>1, <2>2, FS_Surjection
  <1> QED  BY <1>1, <1>2, <1>3, <1>4, <1>5, <1>6 DEF Sound

LEMMA MoreSound ==
    ASSUME NEW l, NEW ds, Sound(l, ds), NEW e \in StoredDocuments, Migratable(e), HasOrigin(l, e),
           \A d \in ds : d.of = e.of => d.key # e.key /\ d.coll # "users" /\ e.coll # "users"
    PROVE  /\ Sound(l, ds \union {e})
           /\ Cardinality(About(ds \union {e}, e.of)) <= Cardinality(About(ds, e.of)) + 1
           /\ \A o : o # e.of => About(ds \union {e}, o) = About(ds, o)
  <1>1. IsFiniteSet(About(ds, e.of)) /\ IsFiniteSet(ds \union {e})
    BY FS_Subset, FS_AddElement DEF About, Sound
  <1>2. About(ds \union {e}, e.of) = About(ds, e.of) \union {e}
    BY DEF About
  <1>3. Cardinality(About(ds \union {e}, e.of)) <= Cardinality(About(ds, e.of)) + 1
    <2> DEFINE S == About(ds, e.of)
    <2>1. Cardinality(S) \in Nat /\ IsFiniteSet(S)
      BY <1>1, FS_CardinalityType
    <2>2. Cardinality(S \union {e}) = IF e \in S THEN Cardinality(S) ELSE Cardinality(S) + 1
      BY <2>1, FS_AddElement
    <2> HIDE DEF S
    <2>3. Cardinality(S \union {e}) <= Cardinality(S) + 1
      BY <2>1, <2>2
    <2> QED  BY <2>3, <1>2 DEF S
  <1>4. Sound(l, ds \union {e})
    BY <1>1 DEF Sound
  <1>5. \A o : o # e.of => About(ds \union {e}, o) = About(ds, o)
    BY DEF About
  <1> QED  BY <1>3, <1>4, <1>5

\* All documents about one thing are of one collection.
LEMMA OneCollection ==
    ASSUME NEW p \in Populations, NEW ds, Sound(p, ds)
    PROVE  /\ \A d, e \in ds : d.of = e.of => d.coll = e.coll /\ Lower(d.type) = Lower(e.type)
           /\ \A d \in ds, s \in p.legacy : d.of = s.of => d.coll = "users"
  <1>0. /\ \A d, e \in p.legacy \union p.docs : d.of = e.of => d = e
        /\ \A s \in p.legacy : s.coll \in LegacyColls
        /\ \A d \in p.docs : d.coll \notin LegacyColls
    BY PopulationsAssumption
  <1> USE <1>0 DEF Sound, HasOrigin, Things
  <1>1. \A d \in ds : d.of \in Things(p.legacy) => d.coll = "users"
    OBVIOUS
  <1>2. ASSUME NEW d \in ds, NEW e \in ds, d.of = e.of
        PROVE  d.coll = e.coll /\ Lower(d.type) = Lower(e.type)
    <2>1. CASE d.coll = "users"
      BY <1>2, <2>1
    <2>2. CASE e.coll = "users"
      BY <1>2, <2>2
    <2>3. CASE d.coll # "users" /\ e.coll # "users"
      <3>1. PICK o \in p.docs : o.of = d.of /\ o.coll = d.coll /\ Lower(o.type) = Lower(d.type)
        BY <2>3
      <3>2. PICK q \in p.docs : q.of = e.of /\ q.coll = e.coll /\ Lower(q.type) = Lower(e.type)
        BY <2>3
      <3> QED  BY <3>1, <3>2, <1>2
    <2> QED  BY <2>1, <2>2, <2>3
  <1> QED  BY <1>1, <1>2

-----------------------------------------------------------------------------
(* What the platform and the migrations make of one document. *)

LEMMA EditedInPlace ==
    ASSUME NEW d \in StoredDocuments, Migratable(d), ~ Hidden(d)
    PROVE  LET e == [d EXCEPT !.edit = TRUE]
           IN  /\ InPlaceOf(d, e) /\ e.edit /\ e.email = d.email /\ e.tenant = d.tenant
               /\ \A m : Due(m, e) => Due(m, d)
               /\ \A r : UpToEdit(d, r) => UpToEdit(e, r)
  <1> DEFINE e == [d EXCEPT !.edit = TRUE]
  <1>1. /\ e \in StoredDocuments /\ e.edit
        /\ e.coll = d.coll /\ e.of = d.of /\ e.key = d.key /\ e.old = d.old /\ e.ref = d.ref
        /\ e.tenant = d.tenant /\ e.email = d.email /\ e.type = d.type /\ e.heard = d.heard
        /\ e.processed = d.processed
    BY DEF StoredDocuments
  <1>2. \A r : UpToEdit(d, r) => UpToEdit(e, r)
    BY DEF UpToEdit, StoredDocuments
  <1> HIDE DEF e
  <1>3. Migratable(e) /\ \A m : Due(m, e) => Due(m, d)
    BY <1>1 DEF Migratable, Hidden, Understood, Due
  <1> QED  BY <1>1, <1>2, <1>3 DEF InPlaceOf, e

\* $rename and $unset of the fields that were there.
LEMMA NamesChanged ==
    ASSUME NEW d \in StoredDocuments, Migratable(d), NEW names \in SUBSET d.old,
           d.coll \in {"users", "classes", "comprehension", "fsmcontexts", "logs", "logentries",
                       "contentsV3", "conferenceState"},
           names = {} \/ (d.coll = "conferenceState" /\ names = {"version"})
    PROVE  LET e == [d EXCEPT !.old = names]
           IN  /\ InPlaceOf(d, e) \/ d.ref = "text"
               /\ d.coll # "contentsV3" => InPlaceOf(d, e)
               /\ e.edit = d.edit
               /\ \A m : Due(m, e) => Due(m, d) \/ m = "020"
  <1> DEFINE e == [d EXCEPT !.old = names]
  <1>1. /\ e \in StoredDocuments /\ e.old = names
        /\ e.coll = d.coll /\ e.of = d.of /\ e.key = d.key /\ e.edit = d.edit /\ e.ref = d.ref
        /\ e.tenant = d.tenant /\ e.email = d.email /\ e.type = d.type /\ e.heard = d.heard
        /\ e.processed = d.processed
    BY DEF StoredDocuments
  <1> HIDE DEF e
  <1>2. Migratable(e) \/ (d.coll = "contentsV3" /\ d.ref = "text")
    BY <1>1 DEF Migratable, Hidden, Understood
  <1>3. \A m : Due(m, e) => Due(m, d) \/ m = "020"
    BY <1>1 DEF Due
  <1> QED  BY <1>1, <1>2, <1>3 DEF InPlaceOf, e

\* A write that finds the document by _id does what its migration is for,
\* and leaves no earlier one anything to do.
Forward(d, e) ==
    \A m : Due(m, e) => Due(m, d) \/ m = "020" \/ (m = "019" /\ Current = "018")

LEMMA RewrittenForward ==
    ASSUME Current \in InPlace, NEW r \in StoredDocuments, Due(Current, r),
           NEW d \in StoredDocuments, Migratable(d), UpToEdit(d, r)
    PROVE  /\ InPlaceOf(d, Rewritten(r, d)) /\ Rewritten(r, d).edit = d.edit
           /\ ~ Due(Current, Rewritten(r, d)) /\ Forward(d, Rewritten(r, d))
  <1> DEFINE e == Rewritten(r, d)
  <1>1. /\ d.coll = r.coll /\ d.of = r.of /\ d.key = r.key /\ d.old = r.old /\ d.ref = r.ref
        /\ d.tenant = r.tenant /\ d.email = r.email /\ d.type = r.type /\ d.heard = r.heard
        /\ d.processed = r.processed /\ d.alias = r.alias
    BY DEF UpToEdit, StoredDocuments
  <1>2. Due(Current, d)
    BY <1>1 DEF Due
  <1>3. CASE Current \in {"004", "006", "008", "009", "010", "011"}
    <2>1. e = [d EXCEPT !.old = {}]
      <3>1. d.old \ r.old = {}
        BY <1>1
      <3> QED  BY <1>3, <3>1 DEF Rewritten, Renamed, StoredDocuments
    <2>2. d.coll \in {"users", "classes", "comprehension", "fsmcontexts", "logs", "logentries"}
      BY <1>2, <1>3 DEF Due
    <2>3. InPlaceOf(d, e) /\ e.edit = d.edit /\ e.old = {} /\ e.coll = d.coll
      BY <2>1, <2>2, NamesChanged DEF StoredDocuments
    <2>4. ~ Due(Current, e)
      BY <1>3, <2>3 DEF Due
    <2>5. Forward(d, e)
      <3>1. \A m : Due(m, [d EXCEPT !.old = {}]) => Due(m, d) \/ m = "020"
        BY <2>2, NamesChanged
      <3> QED  BY <2>1, <3>1 DEF Forward
    <2> QED  BY <2>3, <2>4, <2>5
  <1>4. CASE Current = "007"
    <2>1. d.coll = "conferenceState" /\ "key" \in d.old
      BY <1>2, <1>4 DEF Due
    <2> DEFINE names == d.old \ (r.old \ {"version"})
    <2>2. names \in SUBSET d.old /\ (names = {} \/ names = {"version"})
      BY <1>1
    <2>3. e = [d EXCEPT !.old = names]
      BY <1>4 DEF Rewritten, ConferenceState, StoredDocuments
    <2> HIDE DEF names
    <2>4. InPlaceOf(d, e) /\ e.edit = d.edit /\ e.old = names /\ e.coll = d.coll
      BY <2>1, <2>2, <2>3, NamesChanged DEF StoredDocuments
    <2>5. ~ Due(Current, e)
      BY <1>4, <2>1, <2>2, <2>4 DEF Due
    <2>6. Forward(d, e)
      BY <2>1, <2>2, <2>3, <2>4, NamesChanged DEF Forward
    <2> QED  BY <2>4, <2>5, <2>6
  <1>5. CASE Current = "005"
    <2>1. d.coll = "contentsV3" /\ "key" \in d.old
      BY <1>2, <1>5 DEF Due
    <2>2. d = r
      <3>1. ~ d.edit
        BY <2>1 DEF Migratable, Hidden
      <3> QED  BY <3>1 DEF UpToEdit, StoredDocuments
    <2>3. e = [d EXCEPT !.old = {}, !.ref = "oid"]
      BY <1>5, <2>2 DEF Rewritten, Content
    <2>4. /\ e \in StoredDocuments /\ e.old = {} /\ e.ref = "oid"
          /\ e.coll = d.coll /\ e.of = d.of /\ e.key = d.key /\ e.edit = d.edit
          /\ e.tenant = d.tenant /\ e.type = d.type
      BY <2>3 DEF StoredDocuments, Refs
    <2> HIDE DEF e
    <2>5. InPlaceOf(d, e) /\ ~ Due(Current, e)
      BY <1>5, <2>1, <2>4 DEF InPlaceOf, Migratable, Hidden, Understood, Due
    <2>6. \A m : Due(m, e) => Due(m, d) \/ m = "020"
      BY <2>1, <2>3, <2>4 DEF Due, StoredDocuments
    <2> QED  BY <2>4, <2>5, <2>6 DEF e, Forward
  <1>6. CASE Current = "005b"
    <2>1. d.coll = "contentsV3" /\ d.old = {"nested"}
      BY <1>2, <1>6 DEF Due
    <2>2. e = [d EXCEPT !.old = {}]
      BY <1>6, <2>1 DEF Rewritten, StoredDocuments
    <2>3. d.ref # "text"
      BY <2>1 DEF Migratable, Understood
    <2>4. InPlaceOf(d, e) /\ e.edit = d.edit /\ e.old = {} /\ e.coll = d.coll
      BY <2>1, <2>2, <2>3, NamesChanged DEF StoredDocuments
    <2>5. ~ Due(Current, e)
      BY <1>6, <2>4 DEF Due
    <2>6. Forward(d, e)
      <3>1. \A m : Due(m, [d EXCEPT !.old = {}]) => Due(m, d) \/ m = "020"
        BY <2>1, NamesChanged
      <3> QED  BY <2>2, <3>1 DEF Forward
    <2> QED  BY <2>4, <2>5, <2>6
  <1>7. CASE Current = "016"
    <2>1. d.coll = "users"
      BY <1>2, <1>7 DEF Due
    <2>2. e = Coerced(d)
      BY <1>7 DEF Rewritten
    <2>3. /\ e \in StoredDocuments /\ "text" \notin {e.ref, e.tenant}
          /\ e.coll = d.coll /\ e.of = d.of /\ e.key = d.key /\ e.edit = d.edit
          /\ e.old = d.old /\ e.type = d.type
      BY <2>2 DEF Coerced, StoredDocuments, Refs
    <2> HIDE DEF e
    <2>4. InPlaceOf(d, e) /\ ~ Due(Current, e)
      BY <1>7, <2>1, <2>3 DEF InPlaceOf, Migratable, Hidden, Understood, Due
    <2>5. \A m : Due(m, e) => Due(m, d)
      BY <2>1, <2>3 DEF Due
    <2> QED  BY <2>3, <2>4, <2>5 DEF e, Forward
  <1>8. CASE Current = "018"
    <2>1. d.coll = "contentsV3"
      BY <1>2, <1>8 DEF Due
    <2>2. e = [d EXCEPT !.type = Lower(d.type)]
      BY <1>1, <1>8 DEF Rewritten
    <2>3. Lower(d.type) \in {x.type : x \in EverLeft} \union {"story", "quiz"}
      BY Lowered DEF StoredDocuments
    <2>4. /\ e \in StoredDocuments /\ e.type = Lower(d.type)
          /\ e.coll = d.coll /\ e.of = d.of /\ e.key = d.key /\ e.edit = d.edit
          /\ e.old = d.old /\ e.ref = d.ref /\ e.tenant = d.tenant /\ e.heard = d.heard
          /\ e.processed = d.processed
      BY <2>2, <2>3 DEF StoredDocuments
    <2> HIDE DEF e
    <2>5. Lower(e.type) = e.type /\ Lower(e.type) = Lower(d.type)
      BY <2>4, Lowered
    <2>6. InPlaceOf(d, e) /\ ~ Due(Current, e)
      BY <1>8, <2>1, <2>4, <2>5 DEF InPlaceOf, Migratable, Hidden, Understood, Due
    <2>7. \A m : Due(m, e) => Due(m, d) \/ m = "019"
      BY <2>1, <2>4, <2>5 DEF Due
    <2> QED  BY <1>8, <2>4, <2>6, <2>7 DEF e, Forward
  <1> QED  BY <1>3, <1>4, <1>5, <1>6, <1>7, <1>8 DEF InPlace

LEMMA RewrittenInPlace ==
    ASSUME stage \in 2 .. 22, Current \in InPlace, NEW r \in StoredDocuments, Due(Current, r),
           NEW d \in StoredDocuments, Migratable(d), UpToEdit(d, r)
    PROVE  /\ InPlaceOf(d, Rewritten(r, d))
           /\ Rewritten(r, d).edit = d.edit
           /\ ~ Due(Current, Rewritten(r, d))
           /\ \A i \in 2 .. stage : Due(Order[i], Rewritten(r, d)) => Due(Order[i], d)
  <1> DEFINE e == Rewritten(r, d)
  <1>0. Current = Order[stage]
    BY DEF Current
  <1>9. InPlaceOf(d, e) /\ e.edit = d.edit /\ ~ Due(Current, e) /\ Forward(d, e)
    BY RewrittenForward
  <1> HIDE DEF e
  <1>10. ASSUME NEW i \in 2 .. stage, Due(Order[i], e) PROVE Due(Order[i], d)
    <2>1. Order[i] # "020"
      <3>1. stage # 21 /\ stage # 22
        BY <1>0, MigrationPlaces DEF InPlace
      <3> QED  BY <3>1, MigrationPlaces
    <2>2. ~ (Order[i] = "019" /\ Current = "018")
      BY <1>0, MigrationPlaces
    <2> QED  BY <1>9, <1>10, <2>1, <2>2 DEF Forward
  <1> QED  BY <1>9, <1>10 DEF e

\* The _id of a copy is a new one: there are more than documents.
LEMMA KeyIsFresh ==
    ASSUME IsFiniteSet(docs), NEW r
    PROVE  /\ FreshKey(r) \in Nat /\ FreshKey(r) # 0
           /\ \A d \in docs : d.of = r.of => d.key # FreshKey(r)
  <1> DEFINE S == CopiesOf(r)
             K == {d.key : d \in S}
             n == Cardinality(S)
  <1>1. IsFiniteSet(S)
    BY FS_Subset DEF CopiesOf
  <1>2. n \in Nat /\ IsFiniteSet(K) /\ Cardinality(K) <= n /\ Cardinality(K) \in Nat
    <2>1. [d \in S |-> d.key] \in Surjection(S, K)
      BY DEF Surjection
    <2> QED  BY <1>1, <2>1, FS_Surjection, FS_CardinalityType
  <1>3. \E k \in 1 .. 1 + n : k \notin K
    <2>1. SUFFICES ASSUME 1 .. 1 + n \subseteq K PROVE FALSE
      OBVIOUS
    <2>2. Cardinality(1 .. 1 + n) = 1 + n
      <3> HIDE DEF n
      <3>1. Cardinality(1 .. 1 + n) = IF 1 > 1 + n THEN 0 ELSE (1 + n) - 1 + 1
        BY <1>2, FS_Interval
      <3> QED  BY <1>2, <3>1
    <2>3. Cardinality(1 .. 1 + n) <= Cardinality(K)
      BY <1>2, <2>1, FS_Subset
    <2> HIDE DEF n, K
    <2> QED  BY <1>2, <2>2, <2>3
  <1>4. \E k \in 1 .. 1 + n : \A d \in S : d.key # k
    BY <1>3
  <1>5. FreshKey(r) \in 1 .. 1 + n /\ \A d \in S : d.key # FreshKey(r)
    <2>1. FreshKey(r) = CHOOSE k \in 1 .. 1 + n : \A d \in S : d.key # k
      BY DEF FreshKey
    <2> HIDE DEF n, S
    <2> QED  BY <1>4, <2>1
  <1> HIDE DEF n
  <1> QED  BY <1>2, <1>5 DEF CopiesOf

\* A copy under a new _id has nothing more to be done to it, and less.
LEMMA CopyIsNew ==
    ASSUME IsFiniteSet(docs), docs \subseteq StoredDocuments, Current \in Rekeying,
           NEW r \in docs, Due(Current, r), Migratable(r)
    PROVE  LET e == NewDoc(r)
           IN  /\ r.key = 0 /\ r.coll \notin {"users"} \union LegacyColls /\ ~ r.edit
               /\ e \in StoredDocuments /\ Migratable(e) /\ e.key # 0
               /\ e.of = r.of /\ e.coll = r.coll /\ e.type = r.type
               /\ \A d \in docs : d.of = e.of => d.key # e.key
               /\ ~ Due(Current, e) /\ \A m : Due(m, e) => Due(m, r)
  <1> DEFINE e == NewDoc(r)
  <1>1. r.key = 0 /\ r.coll \in {"quizData", "callsLogs", "ivrfsms", "conferenceState",
                                 "conferences", "contentsV3"}
    BY DEF Rekeying, Due
  <1>2. ~ r.edit
    BY <1>1 DEF Migratable, Hidden
  <1>3. FreshKey(r) \in Nat /\ FreshKey(r) # 0 /\ \A d \in docs : d.of = r.of => d.key # FreshKey(r)
    BY KeyIsFresh
  <1>4. /\ e \in StoredDocuments /\ e.of = r.of /\ e.coll = r.coll /\ e.type = r.type
        /\ e.key = FreshKey(r) /\ e.edit = r.edit /\ e.tenant = r.tenant /\ e.heard = r.heard
        /\ e.processed = r.processed
        /\ \/ Current = "003" /\ e.old = {} /\ e.ref = "oid"
           \/ Current # "003" /\ e.old = r.old /\ e.ref = r.ref
    <2>1. CASE Current = "003"
      <3>1. e = [r EXCEPT !.key = FreshKey(r), !.old = {}, !.ref = "oid"]
        BY <2>1 DEF NewDoc, QuizDatum
      <3> HIDE DEF e
      <3> QED  BY <2>1, <3>1, <1>3 DEF StoredDocuments, Refs
    <2>2. CASE Current = "012"
      <3>1. e = [r EXCEPT !.key = FreshKey(r)]
        BY <2>2 DEF NewDoc, CallLog
      <3> HIDE DEF e
      <3> QED  BY <2>2, <3>1, <1>3 DEF StoredDocuments
    <2>3. CASE Current # "003" /\ Current # "012"
      <3>1. e = [[r EXCEPT !.key = FreshKey(r)] EXCEPT !.alias = TRUE]
        BY <2>3 DEF NewDoc, Rekeyed, CallLog
      <3> HIDE DEF e
      <3> QED  BY <2>3, <3>1, <1>3 DEF StoredDocuments
    <2> QED  BY <2>1, <2>2, <2>3
  <1> HIDE DEF e
  <1>5. Current = "003" <=> r.coll = "quizData"
    BY DEF Due, Rekeying
  <1>6. Migratable(e)
    BY <1>1, <1>2, <1>3, <1>4, <1>5 DEF Migratable, Hidden, Understood
  <1>7. ~ Due(Current, e)
    BY <1>3, <1>4 DEF Due, Rekeying
  <1>8. \A m : Due(m, e) => Due(m, r)
    BY <1>1, <1>4, <1>5 DEF Due
  <1> QED  BY <1>1, <1>2, <1>3, <1>4, <1>6, <1>7, <1>8 DEF e, LegacyColls

\* 020
LEMMA MarkedInPlace ==
    ASSUME NEW d \in StoredDocuments, Migratable(d)
    PROVE  LET e == [d EXCEPT !.processed = TRUE]
           IN  /\ InPlaceOf(d, e) /\ e.edit = d.edit
               /\ e.email = d.email /\ e.tenant = d.tenant
               /\ ~ Due("020", e) /\ \A m : Due(m, e) => Due(m, d)
  <1> DEFINE e == [d EXCEPT !.processed = TRUE]
  <1>1. /\ e \in StoredDocuments /\ e.processed
        /\ e.coll = d.coll /\ e.of = d.of /\ e.key = d.key /\ e.old = d.old /\ e.ref = d.ref
        /\ e.tenant = d.tenant /\ e.email = d.email /\ e.type = d.type /\ e.heard = d.heard
        /\ e.edit = d.edit
    BY DEF StoredDocuments
  <1> HIDE DEF e
  <1>2. Migratable(e) /\ ~ Due("020", e) /\ \A m : Due(m, e) => Due(m, d)
    BY <1>1 DEF Migratable, Hidden, Understood, Due
  <1> QED  BY <1>1, <1>2 DEF InPlaceOf, e

\* The unique index looks at users, their emails and their tenants.
LEMMA ClashStays ==
    ASSUME NEW ds, NEW es,
           \A e \in es : e.coll = "users" =>
               \E d \in ds : d.coll = "users" /\ d.of = e.of /\ d.email = e.email /\ d.tenant = e.tenant
    PROVE  Clash(es) => Clash(ds)
  BY DEF Clash

-----------------------------------------------------------------------------
(* Runs begin, go on and end. *)

LEMMA MigrationsBegin ==
    ASSUME MigrationsInit
    PROVE  MigrationsInv
  <1>1. PICK p \in Populations : left = p /\ docs = p.docs
    BY DEF MigrationsInit
  <1>2. /\ p.legacy \union p.docs \subseteq StoredDocuments /\ IsFiniteSet(p.docs)
        /\ \A d, e \in p.legacy \union p.docs : d.of = e.of => d = e
        /\ \A d \in p.legacy \union p.docs : ~ d.edit
        /\ \A d \in p.docs : Understood(d)
    BY PopulationsAssumption
  <1>3. Sound(left, docs)
    BY <1>1, <1>2 DEF Sound, Migratable, HasOrigin
  <1>4. /\ stage = 0 /\ plan = <<1, 1>> /\ batch = {} /\ half = {}
        /\ uniqueEmail = FALSE /\ edited = {} /\ removed = {} /\ cuts = 0 /\ complete = FALSE
    BY DEF MigrationsInit
  <1>5. FewCopies
    <2> SUFFICES ASSUME NEW o PROVE Cardinality(About(docs, o)) <= 1 + cuts + Cardinality(About(half, o))
      BY DEF FewCopies
    <2>1. About(half, o) = {}
      BY <1>4 DEF About
    <2>2. About(docs, o) = {} \/ \E d : About(docs, o) = {d}
      BY <1>1, <1>2 DEF About
    <2>3. Cardinality(About(half, o)) = 0
      BY <2>1, FS_EmptySet
    <2>4. Cardinality(About(docs, o)) \in {0, 1}
      BY <2>2, FS_EmptySet, FS_Singleton
    <2> QED  BY <1>4, <2>3, <2>4
  <1>6. Preserved
    BY <1>1, <1>3, <1>4, <1>5 DEF Preserved, NothingLost, OnlyLegacyReturns, NoClash, Things
  <1>7. Planned /\ Reading
    BY <1>4, MigrationPlaces DEF Planned, Reading
  <1> QED  BY <1>4, <1>6, <1>7 DEF MigrationsInv, CompleteIsShaped

LEMMA SameDocuments ==
    ASSUME Preserved, UNCHANGED <<left, docs, edited, removed>>, cuts' \in Nat,
           \A o \in Things(EverLeft) :
               Cardinality(About(docs, o)) <= 1 + cuts' + Cardinality(About(half', o)),
           uniqueEmail' => ~ Clash(docs)
    PROVE  Preserved'
  <1>1. Sound(left, docs)' /\ NothingLost' /\ OnlyLegacyReturns' /\ NoClash' /\ left' \in Populations
    BY DEF Preserved, Sound, HasOrigin, NothingLost, OnlyLegacyReturns, NoClash, Legacy, Clash
  <1>2. \A o \in edited' : EditFound(o)'
    BY DEF Preserved, EditFound
  <1>3. FewCopies'
    BY DEF FewCopies, About
  <1> QED  BY <1>1, <1>2, <1>3 DEF Preserved

LEMMA RunGoesOn ==
    ASSUME MigrationsInv, half = {}, half' = {}, UNCHANGED <<left, docs, edited, removed, cuts>>,
           stage' \in 1 .. Len(Order), batch' = Find(Order[stage']), ~ complete',
           plan' \in (1 .. Len(Order)) \X (1 .. Len(Order)),
           plan'[1] <= stage', stage' <= plan'[2], uniqueEmail' => ~ Clash(docs),
           plan'[1] = 1 /\ stage' > 1 =>
               /\ \A d \in docs : \A i \in 2 .. stage' : i # stage' => ~ Due(Order[i], d)
               /\ \A s \in Legacy : s.of \in removed \/ UserOf(s)
    PROVE  MigrationsInv'
  <1>1. Preserved'
    BY SameDocuments DEF MigrationsInv, Preserved, FewCopies
  <1>2. Planned' /\ CompleteIsShaped'
    BY DEF Planned, CompleteIsShaped
  <1>3. Current' = Order[stage'] /\ Len(Order) = 22 /\ stage' \in Nat /\ Legacy' = Legacy
    BY MigrationPlaces DEF Current, Legacy
  <1>4. stage' = 1 => batch' = Legacy
    BY LegacyIsFound
  <1>5. stage' > 1 => batch' = {d \in docs : Due(Current', d)}
    BY <1>3, FoundIsDue
  <1>6. ASSUME stage' > 1, NEW r \in (batch \union half)' PROVE Read(r)'
    <2>1. r \in docs /\ Due(Current', r) /\ batch' \union half' \subseteq docs
      BY <1>5, <1>6
    <2>2. \A d \in SameId(r)' : d = r
      BY <2>1 DEF SameId, MigrationsInv, Preserved, Sound
    <2>3. r \in StoredDocuments /\ \A q \in docs : q.of = r.of /\ q.key = r.key => q = r
      BY <2>1 DEF MigrationsInv, Preserved, Sound
    <2> QED  BY <2>1, <2>2, <2>3 DEF Read, UpToEdit, Due
  <1>7. Reading'
    BY <1>3, <1>4, <1>6 DEF Reading
  <1>8. ASSUME plan'[1] = 1 PROVE Swept'
    <2>1. ASSUME NEW d \in docs, NEW i \in 2 .. stage', Due(Order[i], d)
          PROVE  i = stage' /\ d \in batch' /\ d \in SameId(d)'
      <3>1. stage' \in Int /\ stage' > 1 /\ 2 <= i /\ i <= stage' /\ i \in Int
        BY <1>3
      <3>2. i = stage'
        BY <1>8, <2>1, <3>1
      <3> QED  BY <1>3, <1>5, <2>1, <3>1, <3>2 DEF SameId
    <2>2. \A d \in docs : \A i \in 2 .. stage' :
            Due(Order[i], d) => i = stage' /\ \E r \in (batch \union half)' : d \in SameId(r)'
      BY <2>1
    <2>3. \A s \in Legacy : s.of \in removed \/ UserOf(s) \/ (stage' = 1 /\ s \in batch')
      <3>1. stage' = 1 \/ stage' > 1
        OBVIOUS
      <3>2. CASE stage' = 1
        BY <1>4, <3>2
      <3>3. CASE stage' > 1
        <4>1. \A s \in Legacy : s.of \in removed \/ UserOf(s)
          BY <1>8, <3>3
        <4> HIDE DEF UserOf
        <4> QED  BY <4>1
      <3> QED  BY <3>1, <3>2, <3>3
    <2>4. \A s \in Legacy' : s.of \in removed' \/ UserOf(s)' \/ (stage' = 1 /\ s \in batch')
      BY <2>3, <1>3 DEF UserOf
    <2> QED  BY <2>2, <2>4 DEF Swept, Due
  <1> QED  BY <1>1, <1>2, <1>7, <1>8 DEF MigrationsInv

LEMMA StartRunKeeps ==
    ASSUME MigrationsInv, NEW s \in Starts, StartRun(s)
    PROVE  MigrationsInv'
  <1>1. /\ stage = 0 /\ stage' = s[1] /\ plan' = s /\ half' = {} /\ batch' = Find(Order[s[1]])
        /\ ~ complete' /\ UNCHANGED <<left, docs, uniqueEmail, edited, removed, cuts>>
    BY DEF StartRun, Idle, dbVars
  <1>2. s \in (1 .. Len(Order)) \X (1 .. Len(Order)) /\ s[1] <= s[2]
    BY PopulationsAssumption
  <1>3. half = {} /\ (uniqueEmail' => ~ Clash(docs))
    BY <1>1 DEF MigrationsInv, Reading, Preserved, NoClash
  <1>4. stage' \in 1 .. Len(Order) /\ plan'[1] <= stage' /\ stage' <= plan'[2] /\ plan'[1] = stage'
    BY <1>1, <1>2
  <1> QED  BY <1>1, <1>2, <1>3, <1>4, RunGoesOn

\* What is due now has been read and written when nothing is left of it.
LEMMA NothingLeft ==
    ASSUME MigrationsInv, stage # 0, plan[1] = 1, batch = {}, half = {}
    PROVE  /\ \A d \in docs : \A i \in 2 .. stage : ~ Due(Order[i], d)
           /\ \A s \in Legacy : s.of \in removed \/ UserOf(s)
  BY DEF MigrationsInv, Swept

LEMMA AdvanceKeeps ==
    ASSUME MigrationsInv, Advance
    PROVE  MigrationsInv'
  <1>1. /\ stage # 0 /\ batch = {} /\ half = {} /\ stage < plan[2] /\ stage' = stage + 1
        /\ batch' = Find(Order[stage']) /\ (Current = "002" => ~ Clash(docs))
        /\ uniqueEmail' = (uniqueEmail \/ Current = "002")
        /\ UNCHANGED <<left, docs, plan, half, edited, removed, cuts, complete>>
    BY DEF Advance, Free, Idle, logVars
  <1>2. /\ stage \in 0 .. Len(Order) /\ plan \in (1 .. Len(Order)) \X (1 .. Len(Order))
        /\ plan[1] <= stage /\ ~ complete /\ Len(Order) = 22
    BY <1>1, MigrationPlaces DEF MigrationsInv, Planned
  <1>3. stage' \in 1 .. Len(Order) /\ plan'[1] <= stage' /\ stage' <= plan'[2]
    BY <1>1, <1>2
  <1>4. uniqueEmail' => ~ Clash(docs)
    BY <1>1 DEF MigrationsInv, Preserved, NoClash
  <1>5. plan[1] = 1 => /\ \A d \in docs : \A i \in 2 .. stage' : i # stage' => ~ Due(Order[i], d)
                       /\ \A s \in Legacy : s.of \in removed \/ UserOf(s)
    BY <1>1, <1>2, NothingLeft
  <1> QED  BY <1>1, <1>2, <1>3, <1>4, <1>5, RunGoesOn

LEMMA RunStops ==
    ASSUME MigrationsInv, stage' = 0, batch' = {}, half' = {},
           UNCHANGED <<left, docs, uniqueEmail, plan, edited, removed>>, cuts' \in Nat,
           \A o \in Things(EverLeft) : cuts + Cardinality(About(half, o)) <= cuts',
           CompleteIsShaped'
    PROVE  MigrationsInv'
  <1>1. \A o \in Things(EverLeft) :
            Cardinality(About(docs, o)) <= 1 + cuts' + Cardinality(About(half', o))
    <2> TAKE o \in Things(EverLeft)
    <2>1. Cardinality(About(docs, o)) <= 1 + cuts + Cardinality(About(half, o))
      BY DEF MigrationsInv, Preserved, FewCopies
    <2>2. Cardinality(About(half', o)) = 0
      BY FS_EmptySet DEF About
    <2>3. Cardinality(About(docs, o)) \in Nat /\ Cardinality(About(half, o)) \in Nat /\ cuts \in Nat
      <3>1. IsFiniteSet(About(docs, o))
        BY FS_Subset DEF About, MigrationsInv, Preserved, Sound
      <3>2. IsFiniteSet(About(half, o))
        <4>1. IsFiniteSet(half)
          BY FS_EmptySet, FS_Singleton DEF MigrationsInv, Reading
        <4> QED  BY <4>1, FS_Subset DEF About
      <3> QED  BY <3>1, <3>2, FS_CardinalityType DEF MigrationsInv, Preserved
    <2>4. cuts + Cardinality(About(half, o)) <= cuts'
      OBVIOUS
    <2> QED  BY <2>1, <2>2, <2>3, <2>4
  <1>2. uniqueEmail' => ~ Clash(docs)
    BY DEF MigrationsInv, Preserved, NoClash
  <1>3. Preserved'
    BY <1>1, <1>2, SameDocuments DEF MigrationsInv
  <1>4. Planned' /\ Reading'
    BY MigrationPlaces DEF MigrationsInv, Planned, Reading
  <1> QED  BY <1>3, <1>4 DEF MigrationsInv

LEMMA RunStopsCleanly ==
    ASSUME MigrationsInv, half = {}, stage' = 0, batch' = {}, half' = {},
           UNCHANGED <<left, docs, uniqueEmail, plan, edited, removed, cuts>>, CompleteIsShaped'
    PROVE  MigrationsInv'
  <1>1. \A o \in Things(EverLeft) : cuts + Cardinality(About(half, o)) <= cuts'
    <2> TAKE o \in Things(EverLeft)
    <2>1. Cardinality(About(half, o)) = 0 /\ cuts \in Nat
      BY FS_EmptySet DEF About, MigrationsInv, Preserved
    <2> QED  BY <2>1
  <1> QED  BY <1>1, RunStops DEF MigrationsInv, Preserved

LEMMA FinishRunKeeps ==
    ASSUME MigrationsInv, FinishRun
    PROVE  MigrationsInv'
  <1>1. /\ stage # 0 /\ batch = {} /\ half = {} /\ stage = plan[2] /\ stage' = 0
        /\ complete' = (plan = <<1, Len(Order)>>)
        /\ UNCHANGED <<left, docs, uniqueEmail, plan, batch, half, edited, removed, cuts>>
    BY DEF FinishRun, Free, Idle, dbVars
  <1>2. ASSUME complete' PROVE /\ \A d \in docs : Shaped(d)
                               /\ Things(Legacy) \intersect removed = {} => Verified
    <2>1. plan[1] = 1 /\ stage = 22
      <3>1. Len(Order) = 22
        BY MigrationPlaces
      <3>2. plan = <<1, 22>>
        BY <1>1, <1>2, <3>1
      <3> QED  BY <1>1, <3>2
    <2>2. /\ \A d \in docs : \A i \in 2 .. 22 : ~ Due(Order[i], d)
          /\ \A s \in Legacy : s.of \in removed \/ UserOf(s)
      BY <1>1, <2>1, NothingLeft
    <2>3. \A d \in docs : Shaped(d)
      BY <2>2, NothingDueIsShaped DEF MigrationsInv, Preserved, Sound
    <2> QED  BY <2>2, <2>3 DEF Verified, UserOf, Things
  <1>3. CompleteIsShaped'
    BY <1>1, <1>2 DEF CompleteIsShaped, Shaped, Verified, Legacy
  <1> QED  BY <1>1, <1>3, RunStopsCleanly

LEMMA RunningIsNotComplete ==
    ASSUME MigrationsInv, stage # 0
    PROVE  ~ complete
  BY DEF MigrationsInv, Planned

LEMMA CopiesWhenRekeying ==
    ASSUME MigrationsInv, half # {}
    PROVE  Current \in Rekeying /\ stage \in 2 .. 22 /\ Current = Order[stage]
  <1>1. Current \in Rekeying /\ stage # 0
    BY DEF MigrationsInv, Reading
  <1>2. stage \in 1 .. 22
    BY <1>1, MigrationPlaces DEF MigrationsInv, Planned
  <1> QED  BY <1>1, <1>2, MigrationPlaces DEF Current, Rekeying

LEMMA IndexFailsKeeps ==
    ASSUME MigrationsInv, IndexFails
    PROVE  MigrationsInv'
  <1>1. stage # 0 /\ half = {} /\ Abort
    BY DEF IndexFails, Free, Idle
  <1>2. ~ complete
    BY <1>1, RunningIsNotComplete
  <1> QED  BY <1>1, <1>2, RunStopsCleanly DEF Abort, dbVars, logVars, CompleteIsShaped

LEMMA WriteFailsKeeps ==
    ASSUME MigrationsInv, NEW r \in batch, UnifyFails(r) \/ RewriteFails(r)
    PROVE  MigrationsInv'
  <1>1. Abort /\ stage # 0
    BY DEF UnifyFails, RewriteFails, MigrationsInv, Reading
  <1>2. half = {}
    <2>1. Current = "001" \/ Current \in InPlace
      BY DEF UnifyFails, RewriteFails
    <2> QED  BY <2>1, CopiesWhenRekeying DEF InPlace, Rekeying
  <1>3. ~ complete
    BY <1>1, RunningIsNotComplete
  <1> QED  BY <1>1, <1>2, <1>3, RunStopsCleanly DEF Abort, dbVars, logVars, CompleteIsShaped

LEMMA CutRunKeeps ==
    ASSUME MigrationsInv, CutRun
    PROVE  MigrationsInv'
  <1>1. /\ stage # 0 /\ stage' = 0 /\ batch' = {} /\ half' = {}
        /\ cuts' = cuts + Cardinality(half)
        /\ UNCHANGED <<left, docs, uniqueEmail, plan, edited, removed, complete>>
    BY DEF CutRun, Idle, dbVars
  <1>2. IsFiniteSet(half) /\ Cardinality(half) \in Nat /\ cuts \in Nat
    BY FS_EmptySet, FS_Singleton, FS_CardinalityType DEF MigrationsInv, Reading, Preserved
  <1>3. \A o \in Things(EverLeft) : cuts + Cardinality(About(half, o)) <= cuts'
    <2> TAKE o \in Things(EverLeft)
    <2>1. Cardinality(About(half, o)) <= Cardinality(half) /\ Cardinality(About(half, o)) \in Nat
      BY <1>2, FS_Subset, FS_CardinalityType DEF About
    <2> QED  BY <1>1, <1>2, <2>1
  <1>4. ~ complete
    BY <1>1, RunningIsNotComplete
  <1> QED  BY <1>1, <1>2, <1>3, <1>4, RunStops DEF CompleteIsShaped

-----------------------------------------------------------------------------
(* StoredDocuments change. *)

LEMMA HalfIsFinite ==
    ASSUME Reading
    PROVE  \A o : IsFiniteSet(About(half, o)) /\ Cardinality(About(half, o)) \in Nat
  <1>1. IsFiniteSet(half)
    BY FS_EmptySet, FS_Singleton DEF Reading
  <1> QED  BY <1>1, FS_Subset, FS_CardinalityType DEF About

LEMMA ChangedStored ==
    ASSUME Preserved, Reading, NEW f, docs' = {f[d] : d \in docs}, UNCHANGED <<left, half, cuts, removed>>,
           \A d \in docs : InPlaceOf(d, f[d]) /\ (d.edit => f[d].edit),
           uniqueEmail' => ~ Clash(docs'),
           \A o \in edited' : o \in edited \/ \E d \in docs : d.of = o /\ f[d].edit
    PROVE  Preserved'
  <1>1. /\ Sound(left, docs') /\ \A o : Cardinality(About(docs', o)) <= Cardinality(About(docs, o))
    BY ChangedSound DEF Preserved
  <1>2. Things(docs') = Things(docs)
    BY DEF Things, InPlaceOf
  <1>3. NothingLost' /\ OnlyLegacyReturns'
    BY <1>2 DEF Preserved, NothingLost, OnlyLegacyReturns, Legacy, Things
  <1>4. NoClash'
    BY DEF NoClash, Clash
  <1>5. FewCopies'
    <2> SUFFICES ASSUME NEW o \in Things(EverLeft)
                 PROVE  Cardinality(About(docs', o)) <= 1 + cuts + Cardinality(About(half, o))
      BY DEF FewCopies, About, Things
    <2>1. Cardinality(About(docs, o)) <= 1 + cuts + Cardinality(About(half, o))
      BY DEF Preserved, FewCopies
    <2>2. /\ Cardinality(About(docs', o)) \in Nat /\ Cardinality(About(docs, o)) \in Nat
      BY <1>1, FS_Subset, FS_CardinalityType DEF About, Preserved, Sound
    <2>3. Cardinality(About(half, o)) \in Nat /\ cuts \in Nat
      BY HalfIsFinite DEF Preserved
    <2> QED  BY <1>1, <2>1, <2>2, <2>3
  <1>6. ASSUME NEW o \in edited' PROVE EditFound(o)'
    <2>1. CASE \E d \in docs : d.of = o /\ f[d].edit
      BY <2>1 DEF EditFound, InPlaceOf
    <2>2. CASE o \in edited
      <3>1. EditFound(o)
        BY <2>2 DEF Preserved
      <3> QED  BY <3>1 DEF EditFound, InPlaceOf
    <2> QED  BY <1>6, <2>1, <2>2
  <1>7. Sound(left', docs') /\ left' \in Populations /\ cuts' \in Nat
    BY <1>1 DEF Preserved
  <1> QED  BY <1>3, <1>4, <1>5, <1>6, <1>7 DEF Preserved

LEMMA ChangedSwept ==
    ASSUME Preserved, Swept, NEW f, docs' = {f[d] : d \in docs},
           UNCHANGED <<left, stage, removed>>,
           \A d \in docs : InPlaceOf(d, f[d]),
           \A d \in docs : \A i \in 2 .. stage : Due(Order[i], f[d]) =>
               /\ Due(Order[i], d)
               /\ \A r \in batch \union half :
                    i = stage /\ d \in SameId(r) => r \in batch' \union half',
           stage = 1 => batch' = batch
    PROVE  Swept'
  <1>1. ASSUME NEW e \in docs', NEW i \in 2 .. stage, Due(Order[i], e)
        PROVE  i = stage /\ \E r \in batch' \union half' : e \in SameId(r)'
    <2>1. PICK d \in docs : e = f[d]
      OBVIOUS
    <2>2. Due(Order[i], d)
      BY <1>1, <2>1
    <2>3. i = stage
      BY <2>2 DEF Swept
    <2>4. PICK r \in batch \union half : d \in SameId(r)
      BY <2>2 DEF Swept
    <2>5. r \in batch' \union half'
      BY <1>1, <2>1, <2>3, <2>4
    <2>6. e \in SameId(r)'
      BY <2>1, <2>4 DEF SameId, InPlaceOf
    <2> QED  BY <2>3, <2>5, <2>6
  <1>2. ASSUME NEW s \in Legacy PROVE s.of \in removed \/ UserOf(s)' \/ (stage = 1 /\ s \in batch')
    <2>1. s.of \in removed \/ UserOf(s) \/ (stage = 1 /\ s \in batch)
      BY DEF Swept
    <2>2. UserOf(s) => UserOf(s)'
      BY DEF UserOf, InPlaceOf
    <2> QED  BY <2>1, <2>2
  <1>3. Legacy' = Legacy
    BY DEF Legacy
  <1> QED  BY <1>1, <1>2, <1>3 DEF Swept, Due

LEMMA EditKeeps ==
    ASSUME MigrationsInv, NEW d \in docs, Edit(d)
    PROVE  MigrationsInv'
  <1> DEFINE f == [x \in docs |-> IF x = d THEN [d EXCEPT !.edit = TRUE] ELSE x]
  <1>1. /\ docs' = (docs \ {d}) \union {[d EXCEPT !.edit = TRUE]} /\ edited' = edited \union {d.of}
        /\ UNCHANGED <<left, uniqueEmail, stage, plan, batch, half, removed, cuts, complete>>
        /\ ~ Hidden(d)
    BY DEF Edit, runVars, Visible, Hidden
  <1>2. docs' = {f[x] : x \in docs}
    BY <1>1
  <1>3. ASSUME NEW x \in docs
        PROVE  /\ InPlaceOf(x, f[x]) /\ (x.edit => f[x].edit) /\ (x = d => f[x].edit)
               /\ f[x].email = x.email /\ f[x].tenant = x.tenant
               /\ \A m : Due(m, f[x]) => Due(m, x)
               /\ \A r : UpToEdit(x, r) => UpToEdit(f[x], r)
               /\ Hidden(x) => f[x] = x
    <2>1. x \in StoredDocuments /\ Migratable(x)
      BY DEF MigrationsInv, Preserved, Sound
    <2>2. CASE x = d
      <3>1. f[x] = [d EXCEPT !.edit = TRUE]
        BY <2>2
      <3> HIDE DEF f
      <3> QED  BY <1>1, <2>1, <2>2, <3>1, EditedInPlace
    <2>3. CASE x # d
      BY <2>1, <2>3 DEF InPlaceOf
    <2> QED  BY <2>2, <2>3
  <1> HIDE DEF f
  <1>4. uniqueEmail' => ~ Clash(docs')
    <2>1. Clash(docs') => Clash(docs)
      <3>1. \A e \in docs' : e.coll = "users" =>
              \E x \in docs : x.coll = "users" /\ x.of = e.of /\ x.email = e.email /\ x.tenant = e.tenant
        BY <1>2, <1>3 DEF InPlaceOf
      <3> QED  BY <3>1, ClashStays
    <2> QED  BY <1>1, <2>1 DEF MigrationsInv, Preserved, NoClash
  <1>5. Preserved'
    BY <1>1, <1>2, <1>3, <1>4, ChangedStored DEF MigrationsInv
  <1>6. Planned'
    BY <1>1 DEF MigrationsInv, Planned
  <1>7. Current' = Current /\ Legacy' = Legacy
    BY <1>1 DEF Current, Legacy
  <1>8. ASSUME stage > 1, NEW r \in batch \union half PROVE Read(r)'
    <2>1. Read(r)
      BY <1>8 DEF MigrationsInv, Reading
    <2>2. \A e \in SameId(r)' : UpToEdit(e, r)
      <3> TAKE e \in SameId(r)'
      <3>1. PICK x \in docs : e = f[x]
        BY <1>2 DEF SameId
      <3>2. x \in SameId(r)
        BY <1>3, <3>1 DEF SameId, InPlaceOf
      <3> QED  BY <1>3, <2>1, <3>1, <3>2 DEF Read
    <2>3. Current \in Rekeying => r \in docs'
      <3> SUFFICES ASSUME Current \in Rekeying PROVE r \in docs'
        OBVIOUS
      <3>1. r \in docs /\ Hidden(r)
        BY <2>1 DEF Read, Hidden, Rekeying, Due
      <3> QED  BY <1>2, <1>3, <3>1
    <2> QED  BY <1>1, <1>7, <2>1, <2>2, <2>3 DEF Read, Due
  <1>9. Reading'
    <2>1. ASSUME NEW h \in half, NEW x \in docs, x.of = h.of, x.key # 0
          PROVE  \E y \in docs' : y.of = h.of /\ y.key # 0
      BY <1>2, <1>3, <2>1 DEF InPlaceOf
    <2> QED  BY <1>1, <1>7, <1>8, <2>1 DEF MigrationsInv, Reading
  <1>10. stage # 0 /\ plan[1] = 1 => Swept'
    BY <1>1, <1>2, <1>3, ChangedSwept DEF MigrationsInv
  <1>11. CompleteIsShaped'
    <2>1. \A x \in docs : Shaped(x) => Shaped(f[x])
      <3> TAKE x \in docs
      <3>1. x \in StoredDocuments
        BY DEF MigrationsInv, Preserved, Sound
      <3>2. x = d => (Shaped(x) => Shaped([d EXCEPT !.edit = TRUE]))
        BY <3>1 DEF Shaped, StoredDocuments
      <3> QED  BY <3>2 DEF f
    <2>2. Verified => Verified'
      BY <1>2, <1>3, <1>7 DEF Verified, InPlaceOf
    <2> QED  BY <1>1, <1>2, <1>7, <2>1, <2>2 DEF MigrationsInv, CompleteIsShaped, Things, Shaped
  <1> QED  BY <1>1, <1>5, <1>6, <1>9, <1>10, <1>11 DEF MigrationsInv

LEMMA FindsSomething ==
    ASSUME MigrationsInv, batch # {} \/ half # {}
    PROVE  /\ stage \in 1 .. 22 /\ Current = Order[stage] /\ ~ complete
           /\ Current # "001" => stage \in 2 .. 22 /\ stage > 1
           /\ Current = "001" => stage = 1
           /\ Current \notin Rekeying => half = {}
  <1>1. stage # 0
    BY DEF MigrationsInv, Reading
  <1>2. stage \in 1 .. 22 /\ ~ complete
    BY <1>1, MigrationPlaces DEF MigrationsInv, Planned
  <1>3. Current = Order[stage]
    BY <1>1 DEF Current
  <1>4. Current \notin Rekeying => half = {}
    BY DEF MigrationsInv, Reading
  <1> QED  BY <1>2, <1>3, <1>4, MigrationPlaces

LEMMA RewriteKeeps ==
    ASSUME MigrationsInv, NEW r \in batch, Rewrite(r)
    PROVE  MigrationsInv'
  <1> DEFINE f == [x \in docs |-> IF x \in SameId(r) THEN Rewritten(r, x) ELSE x]
  <1>1. /\ Current \in InPlace /\ docs' = After(r) /\ batch' = batch \ {r}
        /\ ~ (uniqueEmail /\ Clash(After(r)))
        /\ UNCHANGED <<left, uniqueEmail, stage, plan, half, edited, removed, cuts, complete>>
    BY DEF Rewrite, logVars
  <1>2. /\ stage \in 2 .. 22 /\ stage > 1 /\ Current = Order[stage] /\ ~ complete
        /\ half = {} /\ Current \notin Rekeying
    BY <1>1, FindsSomething DEF InPlace, Rekeying
  <1>3. \A q \in batch : Read(q)
    BY <1>2 DEF MigrationsInv, Reading
  <1>4. docs' = {f[x] : x \in docs}
    <2>1. SameId(r) \subseteq docs
      BY DEF SameId
    <2> QED  BY <1>1, <2>1 DEF After
  <1>5. ASSUME NEW x \in docs
        PROVE  /\ InPlaceOf(x, f[x]) /\ f[x].edit = x.edit
               /\ \A i \in 2 .. stage : Due(Order[i], f[x]) => Due(Order[i], x)
               /\ x \in SameId(r) => ~ Due(Current, f[x])
               /\ x \notin SameId(r) => f[x] = x
    <2>1. x \in StoredDocuments /\ Migratable(x)
      BY DEF MigrationsInv, Preserved, Sound
    <2>2. CASE x \in SameId(r)
      <3>1. f[x] = Rewritten(r, x)
        BY <2>2
      <3>2. r \in StoredDocuments /\ Due(Current, r) /\ UpToEdit(x, r)
        BY <1>3, <2>2 DEF Read
      <3> HIDE DEF f
      <3> QED  BY <1>1, <1>2, <2>1, <2>2, <3>1, <3>2, RewrittenInPlace
    <2>3. CASE x \notin SameId(r)
      BY <2>1, <2>3 DEF InPlaceOf
    <2> QED  BY <2>2, <2>3
  <1> HIDE DEF f
  <1>6. Preserved'
    <2>1. uniqueEmail' => ~ Clash(docs')
      BY <1>1
    <2> QED  BY <1>1, <1>4, <1>5, <2>1, ChangedStored DEF MigrationsInv
  <1>7. Planned' /\ CompleteIsShaped'
    BY <1>1, <1>2 DEF MigrationsInv, Planned, CompleteIsShaped
  <1>8. Current' = Current
    BY <1>1 DEF Current
  <1>9. ASSUME NEW q \in batch' PROVE Read(q)'
    <2>1. Read(q) /\ Read(r) /\ q # r
      BY <1>1, <1>3
    <2>2. \A e \in SameId(q)' : UpToEdit(e, q)
      <3> TAKE e \in SameId(q)'
      <3>1. PICK x \in docs : e = f[x]
        BY <1>4 DEF SameId
      <3>2. x \in SameId(q)
        BY <1>5, <3>1 DEF SameId, InPlaceOf
      <3>3. x \notin SameId(r)
        <4> SUFFICES ASSUME x \in SameId(r) PROVE FALSE
          OBVIOUS
        <4>1. q.of = r.of /\ q.key = r.key
          BY <3>2 DEF SameId
        <4> QED  BY <1>1, <2>1, <4>1 DEF Read
      <3> QED  BY <1>5, <2>1, <3>1, <3>2, <3>3 DEF Read
    <2> QED  BY <1>1, <1>2, <1>8, <2>1, <2>2 DEF Read, Due
  <1>10. Reading'
    BY <1>1, <1>2, <1>9 DEF Reading
  <1>11. ASSUME plan[1] = 1 PROVE Swept'
    <2>1. Preserved /\ Swept
      BY <1>2, <1>11 DEF MigrationsInv
    <2>2. ASSUME NEW x \in docs, NEW i \in 2 .. stage, Due(Order[i], f[x])
          PROVE  /\ Due(Order[i], x)
                 /\ \A q \in batch \union half :
                        i = stage /\ x \in SameId(q) => q \in batch' \union half'
      BY <1>1, <1>2, <1>5, <2>2
    <2> QED  BY <1>1, <1>2, <1>4, <1>5, <2>1, <2>2, ChangedSwept
  <1> QED  BY <1>1, <1>6, <1>7, <1>10, <1>11 DEF MigrationsInv

-----------------------------------------------------------------------------
(* StoredDocuments go. *)

LEMMA FewerStored ==
    ASSUME Preserved, docs' \subseteq docs, UNCHANGED <<left, uniqueEmail, cuts>>,
           NothingLost', FewCopies', OnlyLegacyReturns', \A o \in edited' : EditFound(o)'
    PROVE  Preserved'
  <1>1. Sound(left', docs')
    BY FewerSound DEF Preserved
  <1>2. Clash(docs') => Clash(docs)
    BY ClashStays
  <1>3. NoClash'
    BY <1>2 DEF Preserved, NoClash, Clash
  <1> QED  BY <1>1, <1>3 DEF Preserved

LEMMA FewerCounted ==
    ASSUME Preserved, Reading, docs' \subseteq docs, UNCHANGED <<half, cuts>>
    PROVE  FewCopies'
  <1> SUFFICES ASSUME NEW o \in Things(EverLeft)
               PROVE  Cardinality(About(docs', o)) <= 1 + cuts + Cardinality(About(half, o))
    BY DEF FewCopies, About, Things
  <1>1. Cardinality(About(docs', o)) <= Cardinality(About(docs, o))
    BY FewerSound DEF Preserved
  <1>2. Cardinality(About(docs, o)) <= 1 + cuts + Cardinality(About(half, o))
    BY DEF Preserved, FewCopies
  <1>3. Cardinality(About(docs', o)) \in Nat /\ Cardinality(About(docs, o)) \in Nat
    BY FS_Subset, FS_CardinalityType DEF About, Preserved, Sound
  <1>4. Cardinality(About(half, o)) \in Nat /\ cuts \in Nat
    BY HalfIsFinite DEF Preserved
  <1> QED  BY <1>1, <1>2, <1>3, <1>4

LEMMA FewerSwept ==
    ASSUME Swept, docs' \subseteq docs, UNCHANGED <<left, stage>>, removed \subseteq removed',
           \A d \in docs' : \A r \in batch \union half :
               stage > 1 /\ Due(Order[stage], d) /\ d \in SameId(r) => r \in batch' \union half',
           \A s \in Legacy : UserOf(s) => UserOf(s)' \/ s.of \in removed',
           stage = 1 => batch' = batch
    PROVE  Swept'
  <1>1. ASSUME NEW d \in docs', NEW i \in 2 .. stage, Due(Order[i], d)
        PROVE  i = stage /\ \E r \in batch' \union half' : d \in SameId(r)'
    <2>1. i = stage
      BY <1>1 DEF Swept
    <2>2. PICK r \in batch \union half : d \in SameId(r)
      BY <1>1 DEF Swept
    <2>3. r \in batch' \union half'
      BY <1>1, <2>1, <2>2
    <2> QED  BY <2>1, <2>2, <2>3 DEF SameId
  <1>2. ASSUME NEW s \in Legacy
        PROVE  s.of \in removed' \/ UserOf(s)' \/ (stage = 1 /\ s \in batch')
    <2>1. s.of \in removed \/ UserOf(s) \/ (stage = 1 /\ s \in batch)
      BY DEF Swept
    <2> QED  BY <2>1
  <1>3. Legacy' = Legacy
    BY DEF Legacy
  <1> QED  BY <1>1, <1>2, <1>3 DEF Swept, Due

\* 019 takes those away that the older services had as quizzes.
LEMMA StrayComesFromStray ==
    ASSUME Preserved, NEW d \in StrayQuizzes
    PROVE  \E l \in left.docs : l.of = d.of /\ Stray(l)
  <1>1. d \in docs /\ d.coll = "contentsV3" /\ d.type = "quiz"
    BY DEF StrayQuizzes, In
  <1>2. Lower("quiz") = "quiz"
    BY DEF Lower
  <1> QED  BY <1>1, <1>2 DEF Preserved, Sound, HasOrigin, Stray

LEMMA BulkDeleteKeeps ==
    ASSUME MigrationsInv, Bulk, Current = "019"
    PROVE  MigrationsInv'
  <1>1. /\ batch # {} /\ batch' = {} /\ docs' = docs \ StrayQuizzes
        /\ UNCHANGED <<left, uniqueEmail, stage, plan, half, edited, removed, cuts, complete>>
    BY DEF Bulk, logVars
  <1>2. /\ stage \in 2 .. 22 /\ stage > 1 /\ Current = Order[stage] /\ ~ complete /\ half = {}
    BY <1>1, FindsSomething DEF Rekeying
  <1>3. Preserved /\ Reading
    BY DEF MigrationsInv
  <1>4. NothingLost'
    <2> SUFFICES ASSUME NEW l \in left.docs, ~ Stray(l), l.of \notin removed
                 PROVE  l.of \in Things(docs')
      BY <1>1 DEF NothingLost, Things
    <2>1. PICK d \in docs : d.of = l.of
      BY <1>3 DEF Preserved, NothingLost, Things
    <2>2. d \notin StrayQuizzes
      BY <1>3, <2>1, StrayComesFromStray, PopulationsAssumption DEF Preserved
    <2> QED  BY <1>1, <2>1, <2>2 DEF Things
  <1>5. OnlyLegacyReturns'
    BY <1>1, <1>3 DEF Preserved, OnlyLegacyReturns, Things, Legacy
  <1>6. ASSUME NEW o \in edited' PROVE EditFound(o)'
    <2>1. EditFound(o)
      BY <1>1, <1>3, <1>6 DEF Preserved
    <2> QED  BY <1>1, <1>3, <2>1, StrayComesFromStray DEF EditFound
  <1>7. Preserved'
    BY <1>1, <1>3, <1>4, <1>5, <1>6, FewerStored, FewerCounted
  <1>8. Planned' /\ CompleteIsShaped' /\ Reading'
    BY <1>1, <1>2 DEF MigrationsInv, Planned, CompleteIsShaped, Reading
  <1>9. ASSUME plan[1] = 1 PROVE Swept'
    <2>1. \A d \in docs' : ~ Due(Order[stage], d)
      BY <1>1, <1>2 DEF Due, StrayQuizzes, In
    <2>2. \A s : UserOf(s) => UserOf(s)'
      BY <1>1 DEF UserOf, StrayQuizzes, In
    <2>3. Swept
      BY <1>2, <1>9 DEF MigrationsInv
    <2> QED  BY <1>1, <1>2, <2>1, <2>2, <2>3, FewerSwept
  <1> QED  BY <1>1, <1>7, <1>8, <1>9 DEF MigrationsInv

LEMMA BulkMarkKeeps ==
    ASSUME MigrationsInv, Bulk, Current = "020"
    PROVE  MigrationsInv'
  <1> DEFINE f == [x \in docs |-> IF x \in Unmarked THEN [x EXCEPT !.processed = TRUE] ELSE x]
  <1>1. /\ batch # {} /\ batch' = {}
        /\ docs' = (docs \ Unmarked) \union {[d EXCEPT !.processed = TRUE] : d \in Unmarked}
        /\ UNCHANGED <<left, uniqueEmail, stage, plan, half, edited, removed, cuts, complete>>
    BY DEF Bulk, logVars
  <1>2. /\ stage \in 2 .. 22 /\ stage > 1 /\ Current = Order[stage] /\ ~ complete /\ half = {}
    BY <1>1, FindsSomething DEF Rekeying
  <1>3. docs' = {f[x] : x \in docs}
    <2>1. Unmarked \subseteq docs
      BY DEF Unmarked, In
    <2> QED  BY <1>1, <2>1
  <1>4. ASSUME NEW x \in docs
        PROVE  /\ InPlaceOf(x, f[x]) /\ f[x].edit = x.edit
               /\ f[x].email = x.email /\ f[x].tenant = x.tenant
               /\ ~ Due("020", f[x]) /\ \A m : Due(m, f[x]) => Due(m, x)
    <2>1. x \in StoredDocuments /\ Migratable(x)
      BY DEF MigrationsInv, Preserved, Sound
    <2>2. CASE x \in Unmarked
      <3>1. f[x] = [x EXCEPT !.processed = TRUE]
        BY <2>2
      <3> HIDE DEF f
      <3> QED  BY <2>1, <3>1, MarkedInPlace
    <2>3. CASE x \notin Unmarked
      BY <2>1, <2>3 DEF InPlaceOf, Unmarked, In, Due
    <2> QED  BY <2>2, <2>3
  <1> HIDE DEF f
  <1>5. uniqueEmail' => ~ Clash(docs')
    <2>1. \A e \in docs' : e.coll = "users" =>
            \E x \in docs : x.coll = "users" /\ x.of = e.of /\ x.email = e.email /\ x.tenant = e.tenant
      BY <1>3, <1>4 DEF InPlaceOf
    <2>2. Clash(docs') => Clash(docs)
      BY <2>1, ClashStays
    <2> QED  BY <1>1, <2>2 DEF MigrationsInv, Preserved, NoClash
  <1>6. Preserved'
    BY <1>1, <1>3, <1>4, <1>5, ChangedStored DEF MigrationsInv
  <1>7. Planned' /\ CompleteIsShaped' /\ Reading'
    BY <1>1, <1>2 DEF MigrationsInv, Planned, CompleteIsShaped, Reading
  <1>8. ASSUME plan[1] = 1 PROVE Swept'
    <2>1. Preserved /\ Swept
      BY <1>2, <1>8 DEF MigrationsInv
    <2>2. ASSUME NEW x \in docs, NEW i \in 2 .. stage, Due(Order[i], f[x])
          PROVE  /\ Due(Order[i], x)
                 /\ \A r \in batch \union half :
                        i = stage /\ x \in SameId(r) => r \in batch' \union half'
      BY <1>2, <1>4, <2>2
    <2>3. \A x \in docs : InPlaceOf(x, f[x])
      BY <1>4
    <2>4. UNCHANGED <<left, stage, removed>> /\ stage # 1
      BY <1>1, <1>2
    <2> QED  BY <1>3, <2>1, <2>2, <2>3, <2>4, ChangedSwept
  <1> QED  BY <1>1, <1>6, <1>7, <1>8 DEF MigrationsInv

LEMMA DeleteOriginalKeeps ==
    ASSUME MigrationsInv, DeleteOriginal
    PROVE  MigrationsInv'
  <1>1. PICK h \in half : /\ half = {h} /\ h \notin batch /\ Current \in Rekeying
                          /\ \E d \in docs : d.of = h.of /\ d.key # 0
    BY DEF DeleteOriginal, MigrationsInv, Reading
  <1>2. /\ docs' = docs \ SameId(h) /\ half' = {}
        /\ UNCHANGED <<left, uniqueEmail, stage, plan, batch, edited, removed, cuts, complete>>
    BY <1>1 DEF DeleteOriginal, logVars
  <1>3. /\ stage \in 2 .. 22 /\ stage > 1 /\ Current = Order[stage] /\ ~ complete
    BY <1>1, FindsSomething DEF Rekeying
  <1>4. Preserved /\ Reading /\ \A r \in batch \union half : Read(r)
    BY <1>3 DEF MigrationsInv, Reading
  <1>5. h \in docs /\ h \in StoredDocuments /\ h.key = 0 /\ h.coll # "users" /\ ~ h.edit
    <2>1. Read(h)
      BY <1>1, <1>4
    <2>2. h \in docs /\ Due(Current, h) /\ Migratable(h)
      BY <1>1, <1>4, <2>1 DEF Read, Preserved, Sound
    <2> QED  BY <1>1, <2>1, <2>2 DEF Read, Due, Rekeying, Migratable, Hidden
  <1>6. SameId(h) = {h}
    BY <1>4, <1>5 DEF SameId, Preserved, Sound
  <1>7. docs' = docs \ {h} /\ h.of \in Things(docs')
    BY <1>1, <1>2, <1>5, <1>6 DEF Things
  <1>8. NothingLost' /\ OnlyLegacyReturns'
    BY <1>2, <1>4, <1>7 DEF Preserved, NothingLost, OnlyLegacyReturns, Things, Legacy
  <1>9. \A o \in edited' : EditFound(o)'
    BY <1>2, <1>4, <1>5, <1>7 DEF Preserved, EditFound
  <1>10. FewCopies'
    <2> SUFFICES ASSUME NEW o \in Things(EverLeft)
                 PROVE  Cardinality(About(docs', o)) <= 1 + cuts + Cardinality(About({}, o))
      BY <1>2 DEF FewCopies, About, Things
    <2>1. Cardinality(About({}, o)) = 0 /\ cuts \in Nat
      BY <1>4, FS_EmptySet DEF About, Preserved
    <2>2. Cardinality(About(docs, o)) <= 1 + cuts + Cardinality(About(half, o))
      BY <1>4 DEF Preserved, FewCopies
    <2>3. IsFiniteSet(About(docs, o)) /\ Cardinality(About(docs, o)) \in Nat
      BY <1>4, FS_Subset, FS_CardinalityType DEF About, Preserved, Sound
    <2>4. CASE o = h.of
      <3>1. About(half, o) = {h} /\ h \in About(docs, o) /\ About(docs', o) = About(docs, o) \ {h}
        BY <1>1, <1>5, <1>7, <2>4 DEF About
      <3>2. Cardinality(About(half, o)) = 1
        BY <3>1, FS_Singleton
      <3>3. Cardinality(About(docs', o)) = Cardinality(About(docs, o)) - 1
        BY <2>3, <3>1, FS_RemoveElement
      <3> QED  BY <2>1, <2>2, <2>3, <3>2, <3>3
    <2>5. CASE o # h.of
      <3>1. About(half, o) = {} /\ About(docs', o) = About(docs, o)
        BY <1>1, <1>7, <2>5 DEF About
      <3>2. Cardinality(About(half, o)) = 0
        BY <3>1, FS_EmptySet
      <3> QED  BY <2>1, <2>2, <3>1, <3>2
    <2> QED  BY <2>4, <2>5
  <1>11. Preserved'
    BY <1>2, <1>4, <1>7, <1>8, <1>9, <1>10, FewerStored
  <1>12. Planned' /\ CompleteIsShaped' /\ Current' = Current
    BY <1>2, <1>3 DEF MigrationsInv, Planned, CompleteIsShaped, Current
  <1>13. ASSUME NEW r \in batch PROVE Read(r)'
    <2>1. Read(r) /\ r # h
      BY <1>1, <1>4
    <2>2. r \in docs'
      BY <1>1, <1>7, <2>1 DEF Read
    <2>3. \A d \in SameId(r)' : UpToEdit(d, r)
      BY <1>7, <2>1 DEF Read, SameId
    <2>4. \A q \in batch' \union half' : q.of = r.of /\ q.key = r.key => q = r
      BY <1>2, <2>1 DEF Read
    <2> QED  BY <1>12, <2>1, <2>2, <2>3, <2>4 DEF Read, Due
  <1>14. Reading'
    BY <1>2, <1>3, <1>13 DEF Reading
  <1>15. ASSUME plan[1] = 1 PROVE Swept'
    <2>1. Swept
      BY <1>3, <1>15 DEF MigrationsInv
    <2>2. \A d \in docs' : \A r \in batch \union half : d \in SameId(r) => r \in batch' \union half'
      BY <1>1, <1>2, <1>6, <1>7
    <2>3. \A s : UserOf(s) => UserOf(s)'
      BY <1>5, <1>7 DEF UserOf
    <2> QED  BY <1>2, <1>3, <1>7, <2>1, <2>2, <2>3, FewerSwept
  <1> QED  BY <1>2, <1>11, <1>12, <1>14, <1>15 DEF MigrationsInv

LEMMA DeleteUserKeeps ==
    ASSUME MigrationsInv, NEW d \in docs, DeleteUser(d)
    PROVE  MigrationsInv'
  <1>1. /\ d.coll = "users" /\ docs' = docs \ {d}
        /\ edited' = edited \ {d.of} /\ removed' = removed \union {d.of}
        /\ UNCHANGED <<left, uniqueEmail, stage, plan, batch, half, cuts, complete>>
    BY DEF DeleteUser, runVars
  <1>2. Preserved /\ Reading
    BY DEF MigrationsInv
  <1>3. \A e \in docs : e.of = d.of => e = d
    BY <1>1, <1>2 DEF Preserved, Sound
  <1>4. d.of \notin Things(docs') /\ \A e \in docs : e.of # d.of => e \in docs'
    BY <1>1, <1>3 DEF Things
  <1>5. NothingLost' /\ OnlyLegacyReturns'
    <2>1. NothingLost'
      BY <1>1, <1>2, <1>4 DEF Preserved, NothingLost, Things
    <2>2. Things(docs') \subseteq Things(docs)
      BY <1>1 DEF Things
    <2>3. OnlyLegacyReturns'
      BY <1>1, <1>2, <1>4, <2>2 DEF Preserved, OnlyLegacyReturns, Legacy
    <2> QED  BY <2>1, <2>3
  <1>6. ASSUME NEW o \in edited' PROVE EditFound(o)'
    BY <1>1, <1>2, <1>4, <1>6 DEF Preserved, EditFound
  <1>7. Preserved'
    BY <1>1, <1>2, <1>5, <1>6, FewerStored, FewerCounted
  <1>8. Planned' /\ Current' = Current /\ Legacy' = Legacy
    BY <1>1 DEF MigrationsInv, Planned, Current, Legacy
  <1>9. ASSUME stage > 1, NEW r \in batch \union half PROVE Read(r)'
    <2>1. Read(r)
      BY <1>2, <1>9 DEF Reading
    <2>2. Current \in Rekeying => r \in docs'
      <3>1. Current \in Rekeying => r \in docs /\ r.coll # "users"
        BY <2>1 DEF Read, Due, Rekeying
      <3> QED  BY <1>1, <3>1
    <2>3. \A e \in SameId(r)' : UpToEdit(e, r)
      BY <1>1, <2>1 DEF Read, SameId
    <2> QED  BY <1>1, <1>8, <2>1, <2>2, <2>3 DEF Read, Due
  <1>10. Reading'
    <2>1. ASSUME NEW h \in half, Current \in Rekeying, NEW e \in docs, e.of = h.of, e.key # 0
          PROVE  \E y \in docs' : y.of = h.of /\ y.key # 0
      <3>1. stage > 1
        BY <2>1, FindsSomething DEF Rekeying
      <3>2. h \in docs /\ h.coll # "users"
        BY <1>2, <2>1, <3>1 DEF Reading, Read, Due, Rekeying
      <3>3. h.of # d.of
        BY <1>1, <1>3, <3>2
      <3> QED  BY <1>4, <2>1, <3>3
    <2> QED  BY <1>1, <1>2, <1>8, <1>9, <2>1 DEF Reading
  <1>11. ASSUME stage # 0, plan[1] = 1 PROVE Swept'
    <2>1. Swept
      BY <1>11 DEF MigrationsInv
    <2>2. \A s \in Legacy : UserOf(s) => UserOf(s)' \/ s.of \in removed'
      BY <1>1 DEF UserOf
    <2> QED  BY <1>1, <2>1, <2>2, FewerSwept
  <1>12. CompleteIsShaped'
    <2>1. ASSUME complete, Things(Legacy) \intersect removed' = {} PROVE Verified'
      <3>1. Verified /\ d.of \notin Things(Legacy)
        BY <1>1, <2>1 DEF MigrationsInv, CompleteIsShaped
      <3> QED  BY <1>4, <1>8, <3>1 DEF Verified, Things
    <2>2. complete => \A e \in docs' : Shaped(e)
      BY <1>1 DEF MigrationsInv, CompleteIsShaped
    <2> QED  BY <1>1, <1>8, <2>1, <2>2 DEF CompleteIsShaped, Things, Shaped
  <1> QED  BY <1>1, <1>7, <1>8, <1>10, <1>11, <1>12 DEF MigrationsInv

LEMMA RollbackKeeps ==
    ASSUME MigrationsInv, Rollback
    PROVE  MigrationsInv'
  <1>1. /\ stage = 0 /\ docs' = docs \ Migrated /\ edited' = edited \ {d.of : d \in Migrated}
        /\ ~ complete'
        /\ UNCHANGED <<left, uniqueEmail, stage, plan, batch, half, removed, cuts>>
    BY DEF Rollback, Idle, runVars
  <1>2. Preserved /\ Reading
    BY DEF MigrationsInv
  <1>3. NothingLost'
    <2> SUFFICES ASSUME NEW l \in left.docs, ~ Stray(l), l.of \notin removed
                 PROVE  l.of \in Things(docs')
      BY <1>1 DEF NothingLost, Things
    <2>1. PICK d \in docs : d.of = l.of
      BY <1>2 DEF Preserved, NothingLost, Things
    <2>2. d \notin Migrated
      BY <1>2, <2>1, PopulationsAssumption DEF Preserved, Migrated, Legacy
    <2> QED  BY <1>1, <2>1, <2>2 DEF Things
  <1>4. OnlyLegacyReturns'
    BY <1>1, <1>2 DEF Preserved, OnlyLegacyReturns, Things, Legacy
  <1>5. \A o \in edited' : EditFound(o)'
    BY <1>1, <1>2 DEF Preserved, EditFound
  <1>6. Preserved'
    BY <1>1, <1>2, <1>3, <1>4, <1>5, FewerStored, FewerCounted
  <1>7. Planned' /\ CompleteIsShaped' /\ Reading'
    BY <1>1 DEF MigrationsInv, Planned, CompleteIsShaped, Reading
  <1> QED  BY <1>1, <1>6, <1>7 DEF MigrationsInv

-----------------------------------------------------------------------------
(* StoredDocuments come. *)

LEMMA InsertCopyKeeps ==
    ASSUME MigrationsInv, NEW r \in batch, InsertCopy(r)
    PROVE  MigrationsInv'
  <1> DEFINE e == NewDoc(r)
  <1>1. /\ Current \in Rekeying /\ half = {} /\ docs' = docs \union {e} /\ half' = {r}
        /\ batch' = batch \ {r}
        /\ UNCHANGED <<left, uniqueEmail, stage, plan, edited, removed, cuts, complete>>
    BY DEF InsertCopy, logVars
  <1>2. /\ stage \in 2 .. 22 /\ stage > 1 /\ Current = Order[stage] /\ ~ complete
    BY <1>1, FindsSomething DEF Rekeying
  <1>3. Preserved /\ Reading /\ \A q \in batch : Read(q)
    BY <1>2 DEF MigrationsInv, Reading
  <1>4. r \in docs /\ Due(Current, r) /\ IsFiniteSet(docs) /\ docs \subseteq StoredDocuments
        /\ Migratable(r) /\ HasOrigin(left, r)
    BY <1>1, <1>3 DEF Read, Preserved, Sound
  <1>5. /\ r.key = 0 /\ r.coll # "users" /\ r.coll \notin LegacyColls
        /\ e \in StoredDocuments /\ Migratable(e) /\ e.key # 0
        /\ e.of = r.of /\ e.coll = r.coll /\ e.type = r.type
        /\ \A d \in docs : d.of = e.of => d.key # e.key
        /\ ~ Due(Current, e) /\ \A m : Due(m, e) => Due(m, r)
    BY <1>1, <1>4, CopyIsNew
  <1> HIDE DEF e
  <1>6. HasOrigin(left, e)
    BY <1>4, <1>5 DEF HasOrigin
  <1>7. \A d \in docs : d.of = e.of => d.key # e.key /\ d.coll # "users" /\ e.coll # "users"
    BY <1>3, <1>4, <1>5, OneCollection DEF Preserved
  <1>8. /\ Sound(left, docs')
        /\ Cardinality(About(docs', r.of)) <= Cardinality(About(docs, r.of)) + 1
        /\ \A o : o # r.of => About(docs', o) = About(docs, o)
    BY <1>1, <1>3, <1>5, <1>6, <1>7, MoreSound DEF Preserved
  <1>9. NothingLost' /\ OnlyLegacyReturns'
    BY <1>1, <1>3, <1>4, <1>5 DEF Preserved, NothingLost, OnlyLegacyReturns, Things, Legacy
  <1>10. NoClash'
    <2>1. Clash(docs') => Clash(docs)
      BY <1>1, <1>5, ClashStays
    <2> QED  BY <1>1, <1>3, <2>1 DEF Preserved, NoClash, Clash
  <1>11. \A o \in edited' : EditFound(o)'
    BY <1>1, <1>3 DEF Preserved, EditFound
  <1>12. FewCopies'
    <2> SUFFICES ASSUME NEW o \in Things(EverLeft)
                 PROVE  Cardinality(About(docs', o)) <= 1 + cuts + Cardinality(About(half', o))
      BY <1>1 DEF FewCopies, About, Things
    <2>1. Cardinality(About(half, o)) = 0 /\ cuts \in Nat
      BY <1>1, <1>3, FS_EmptySet DEF About, Preserved
    <2>2. Cardinality(About(docs, o)) <= 1 + cuts + Cardinality(About(half, o))
      BY <1>3 DEF Preserved, FewCopies
    <2>3. Cardinality(About(docs, o)) \in Nat /\ Cardinality(About(docs', o)) \in Nat
      BY <1>3, <1>8, FS_Subset, FS_CardinalityType DEF About, Preserved, Sound
    <2>4. CASE o = r.of
      <3>1. About(half', o) = {r}
        BY <1>1, <2>4 DEF About
      <3>2. Cardinality(About(half', o)) = 1
        BY <3>1, FS_Singleton
      <3> QED  BY <1>8, <2>1, <2>2, <2>3, <2>4, <3>2
    <2>5. CASE o # r.of
      <3>1. About(half', o) = {} /\ About(docs', o) = About(docs, o)
        BY <1>1, <1>8, <2>5 DEF About
      <3>2. Cardinality(About(half', o)) = 0
        BY <3>1, FS_EmptySet
      <3> QED  BY <2>1, <2>2, <3>1, <3>2
    <2> QED  BY <2>4, <2>5
  <1>13. Preserved'
    BY <1>1, <1>3, <1>8, <1>9, <1>10, <1>11, <1>12 DEF Preserved
  <1>14. Planned' /\ CompleteIsShaped' /\ Current' = Current /\ Legacy' = Legacy
    BY <1>1, <1>2 DEF MigrationsInv, Planned, CompleteIsShaped, Current, Legacy
  <1>15. ASSUME NEW q \in batch PROVE Read(q)' /\ e \notin SameId(q)'
    <2>1. Read(q)
      BY <1>3
    <2>2. q \in docs' /\ q.key = 0
      BY <1>1, <2>1 DEF Read, Due, Rekeying
    <2>3. e \notin SameId(q)' /\ SameId(q)' = SameId(q)
      BY <1>1, <1>5, <2>2 DEF SameId
    <2>4. \A p \in batch' \union half' : p.of = q.of /\ p.key = q.key => p = q
      BY <1>1, <2>1 DEF Read
    <2> QED  BY <1>14, <2>1, <2>2, <2>3, <2>4 DEF Read, Due
  <1>16. Reading'
    <2>1. \A q \in batch' \union half' : Read(q)'
      BY <1>1, <1>15
    <2>2. e \in docs' /\ r \notin batch'
      BY <1>1
    <2> QED  BY <1>1, <1>2, <1>5, <1>14, <2>1, <2>2 DEF Reading
  <1>17. ASSUME plan[1] = 1 PROVE Swept'
    <2>1. Swept
      BY <1>2, <1>17 DEF MigrationsInv
    <2>2. ASSUME NEW i \in 2 .. stage PROVE ~ Due(Order[i], e)
      <3> SUFFICES ASSUME Due(Order[i], e) PROVE FALSE
        OBVIOUS
      <3>1. Due(Order[i], r)
        BY <1>5
      <3>2. i = stage
        BY <1>4, <2>1, <3>1 DEF Swept
      <3> QED  BY <1>2, <1>5, <3>2
    <2>3. ASSUME NEW d \in docs, NEW i \in 2 .. stage, Due(Order[i], d)
          PROVE  i = stage /\ \E q \in batch' \union half' : d \in SameId(q)'
      <3>1. i = stage /\ \E q \in batch \union half : d \in SameId(q)
        BY <2>1, <2>3 DEF Swept
      <3> QED  BY <1>1, <3>1 DEF SameId
    <2>4. \A s \in Legacy : s.of \in removed \/ UserOf(s)'
      BY <1>1, <1>2, <2>1 DEF Swept, UserOf
    <2>5. \A d \in docs' : \A i \in 2 .. stage :
            Due(Order[i], d) => i = stage /\ \E q \in batch' \union half' : d \in SameId(q)'
      BY <1>1, <2>2, <2>3
    <2> QED  BY <1>1, <1>14, <2>4, <2>5 DEF Swept, Due
  <1> QED  BY <1>1, <1>13, <1>14, <1>16, <1>17 DEF MigrationsInv

\* 001: the first migration reads the older collections.
LEMMA UnifyKeeps ==
    ASSUME MigrationsInv, NEW s \in batch, Unify(s)
    PROVE  MigrationsInv'
  <1>1. /\ Current = "001" /\ batch' = batch \ {s}
        /\ UNCHANGED <<left, uniqueEmail, stage, plan, half, edited, removed, cuts, complete>>
    BY DEF Unify, logVars
  <1>2. stage = 1 /\ ~ complete /\ half = {}
    BY <1>1, FindsSomething DEF Rekeying
  <1>3. Preserved /\ batch \subseteq Legacy /\ s \in Legacy
    BY <1>2 DEF MigrationsInv, Reading
  <1>4. \/ Present(s) /\ docs' = docs
        \/ ~ Present(s) /\ docs' = WithUser(s) /\ ~ (uniqueEmail /\ Clash(WithUser(s)))
    BY DEF Unify
  <1>5. Planned' /\ CompleteIsShaped' /\ Legacy' = Legacy
    BY <1>1, <1>2 DEF MigrationsInv, Planned, CompleteIsShaped, Legacy
  <1>6. Reading'
    BY <1>1, <1>2, <1>3, <1>5 DEF Reading
  <1>7. UserOf(s)' /\ \A q : UserOf(q) => UserOf(q)'
    <2>1. Unified(s).coll = "users" /\ Unified(s).of = s.of
      BY <1>3, PopulationsAssumption DEF Unified, Legacy, Preserved, StoredDocuments
    <2>2. CASE Present(s) /\ docs' = docs
      BY <2>2 DEF UserOf, Present
    <2>3. CASE ~ Present(s) /\ docs' = WithUser(s)
      BY <2>1, <2>3 DEF UserOf, WithUser
    <2> QED  BY <1>4, <2>2, <2>3
  <1>8. plan[1] = 1 => Swept'
    <2> SUFFICES ASSUME plan[1] = 1 PROVE Swept'
      OBVIOUS
    <2>1. Swept
      BY <1>2 DEF MigrationsInv
    <2>2. \A q \in Legacy : q.of \in removed \/ UserOf(q)' \/ (stage = 1 /\ q \in batch')
      <3> TAKE q \in Legacy
      <3>1. q.of \in removed \/ UserOf(q) \/ (stage = 1 /\ q \in batch)
        BY <2>1 DEF Swept
      <3> QED  BY <1>1, <1>7, <3>1
    <2>3. \A i \in 2 .. stage' : FALSE
      BY <1>1, <1>2
    <2> QED  BY <1>1, <1>5, <2>2, <2>3 DEF Swept
  <1>9. CASE Present(s) /\ docs' = docs
    <2>1. Preserved'
      BY <1>1, <1>3, <1>9, SameDocuments DEF Preserved, FewCopies, NoClash
    <2> QED  BY <1>1, <1>5, <1>6, <1>8, <2>1 DEF MigrationsInv
  <1>10. CASE ~ Present(s) /\ docs' = WithUser(s) /\ ~ (uniqueEmail /\ Clash(WithUser(s)))
    <2> DEFINE e == Unified(s)
    <2>1. s \in StoredDocuments /\ s.key # 0 /\ ~ s.edit
      BY <1>3, PopulationsAssumption DEF Legacy, Preserved
    <2>2. /\ e \in StoredDocuments /\ e.coll = "users" /\ e.of = s.of /\ e.key # 0 /\ e.edit = s.edit
      BY <2>1 DEF Unified, StoredDocuments, Refs
    <2> HIDE DEF e
    <2>3. Migratable(e) /\ HasOrigin(left, e)
      BY <1>3, <2>1, <2>2 DEF Migratable, Hidden, Understood, HasOrigin, Things, Legacy
    <2>4. \A d \in docs : d.of # e.of
      BY <1>3, <1>10, <2>2, OneCollection DEF Present, Preserved, Legacy
    <2>5. docs' = docs \union {e}
      BY <1>10, <2>2, <2>4 DEF WithUser, e
    <2>6. /\ Sound(left, docs')
          /\ Cardinality(About(docs', e.of)) <= Cardinality(About(docs, e.of)) + 1
          /\ \A o : o # e.of => About(docs', o) = About(docs, o)
      BY <1>3, <2>2, <2>3, <2>4, <2>5, MoreSound DEF Preserved
    <2>7. NothingLost' /\ OnlyLegacyReturns'
      BY <1>1, <1>3, <1>5, <2>2, <2>5 DEF Preserved, NothingLost, OnlyLegacyReturns, Things
    <2>8. NoClash'
      BY <1>1, <1>10 DEF NoClash, Clash
    <2>9. \A o \in edited' : EditFound(o)'
      BY <1>1, <1>3, <2>5 DEF Preserved, EditFound
    <2>10. FewCopies'
      <3> SUFFICES ASSUME NEW o \in Things(EverLeft)
                   PROVE  Cardinality(About(docs', o)) <= 1 + cuts + Cardinality(About(half', o))
        BY <1>1 DEF FewCopies, About, Things
      <3>1. About(half', o) = {} /\ cuts \in Nat
        BY <1>1, <1>2, <1>3 DEF About, Preserved
      <3>2. Cardinality(About(half', o)) = 0
        BY <3>1, FS_EmptySet
      <3>3. CASE o = e.of
        <4>1. About(docs, o) = {}
          BY <2>4, <3>3 DEF About
        <4>2. Cardinality(About(docs, o)) = 0
          BY <4>1, FS_EmptySet
        <4>3. Cardinality(About(docs', o)) \in Nat
          BY <2>6, FS_Subset, FS_CardinalityType DEF About, Sound
        <4> QED  BY <2>6, <3>1, <3>2, <3>3, <4>2, <4>3
      <3>4. CASE o # e.of
        <4>1. About(docs', o) = About(docs, o) /\ About(half', o) = About(half, o)
          BY <1>1, <2>6, <3>4
        <4> QED  BY <1>3, <4>1 DEF Preserved, FewCopies
      <3> QED  BY <3>3, <3>4
    <2>11. Preserved'
      BY <1>1, <1>3, <2>6, <2>7, <2>8, <2>9, <2>10 DEF Preserved
    <2> QED  BY <1>1, <1>5, <1>6, <1>8, <2>11 DEF MigrationsInv
  <1> QED  BY <1>4, <1>9, <1>10

LEMMA MigrationsStutter ==
    ASSUME MigrationsInv, UNCHANGED documentVars
    PROVE  MigrationsInv'
  <1>1. UNCHANGED <<left, docs, stage, plan, batch, half, uniqueEmail, edited, removed, cuts,
                    complete>>
    BY DEF documentVars, dbVars, runVars, logVars
  <1>2. Preserved'
    BY <1>1, SameDocuments DEF MigrationsInv, Preserved, FewCopies, NoClash
  <1>3. Planned' /\ Current' = Current /\ Legacy' = Legacy
    BY <1>1 DEF MigrationsInv, Planned, Current, Legacy
  <1>4. Reading'
    BY <1>1, <1>3 DEF MigrationsInv, Reading, Read, Due, SameId
  <1>5. Swept => Swept'
    BY <1>1, <1>3 DEF Swept, Due, SameId, UserOf
  <1>6. CompleteIsShaped'
    BY <1>1, <1>3 DEF MigrationsInv, CompleteIsShaped, Shaped, Verified, Things
  <1> QED  BY <1>1, <1>2, <1>3, <1>4, <1>5, <1>6 DEF MigrationsInv

\* Whatever the older services left, and whichever migrations are run, cut,
\* repeated or rolled back while the platform writes, the invariant holds.
THEOREM DocumentsInvariant == MigrationsSpec => []MigrationsInv
  <1>1. MigrationsInit => MigrationsInv
    BY MigrationsBegin
  <1>2. ASSUME MigrationsInv, [MigrationsNext]_documentVars PROVE MigrationsInv'
    <2>1. CASE UNCHANGED documentVars
      BY <1>2, <2>1, MigrationsStutter
    <2>2. CASE \E s \in Starts : StartRun(s)
      BY <1>2, <2>2, StartRunKeeps
    <2>3. CASE Advance \/ FinishRun \/ IndexFails \/ CutRun
      BY <1>2, <2>3, AdvanceKeeps, FinishRunKeeps, IndexFailsKeeps, CutRunKeeps
    <2>4. CASE \E r \in batch : Unify(r) \/ UnifyFails(r) \/ Rewrite(r) \/ RewriteFails(r) \/ InsertCopy(r)
      BY <1>2, <2>4, UnifyKeeps, WriteFailsKeeps, RewriteKeeps, InsertCopyKeeps
    <2>5. CASE DeleteOriginal \/ Rollback
      BY <1>2, <2>5, DeleteOriginalKeeps, RollbackKeeps
    <2>6. CASE Bulk
      <3>1. Current = "019" \/ Current = "020"
        BY <2>6 DEF Bulk
      <3> QED  BY <1>2, <2>6, <3>1, BulkDeleteKeeps, BulkMarkKeeps
    <2>7. CASE \E d \in docs : Edit(d) \/ DeleteUser(d)
      BY <1>2, <2>7, EditKeeps, DeleteUserKeeps
    <2> QED  BY <1>2, <2>1, <2>2, <2>3, <2>4, <2>5, <2>6, <2>7 DEF MigrationsNext
  <1> QED  BY <1>1, <1>2, PTL DEF MigrationsSpec

\* Nothing the older services left is lost, doubled or stripped of what the
\* platform wrote, a deleted user does not come back but from the older
\* collections, and a complete run leaves what the platform reads.
THEOREM MigrationsAgree == MigrationsSpec => []MigrationsConsistent
  <1>1. MigrationsInv => MigrationsConsistent
    <2> SUFFICES ASSUME MigrationsInv PROVE MigrationsConsistent
      OBVIOUS
    <2>1. MigrationsTypeOK
      <3>1. \A d \in docs : d.old \subseteq {"key", "rest", "nested", "version"}
        BY DEF MigrationsInv, Preserved, Sound, StoredDocuments
      <3>2. left \in Populations /\ stage \in 0 .. Len(Order)
        BY DEF MigrationsInv, Preserved, Planned
      <3>3. (stage = 0 => batch = {} /\ half = {}) /\ (half # {} => Current \in Rekeying)
        BY DEF MigrationsInv, Reading
      <3> QED  BY <3>1, <3>2, <3>3 DEF MigrationsTypeOK, Idle
    <2>2. CopiesCounted
      <3> SUFFICES ASSUME NEW d \in docs
                   PROVE  Cardinality(CopiesOf(d)) <= 1 + cuts + Cardinality({h \in half : h.of = d.of})
        BY DEF CopiesCounted
      <3>1. d.of \in Things(EverLeft)
        BY DEF MigrationsInv, Preserved, Sound, StoredDocuments, Things
      <3> QED  BY <3>1 DEF MigrationsInv, Preserved, FewCopies, About, CopiesOf
    <2>3. EditsKept
      <3> SUFFICES ASSUME NEW o \in edited
                   PROVE  \E d \in left.docs \union Legacy \union docs : d.of = o /\ (d.edit \/ Stray(d))
        BY DEF EditsKept
      <3> QED  BY DEF MigrationsInv, Preserved, EditFound
    <2> QED  BY <2>1, <2>2, <2>3 DEF MigrationsInv, Preserved, MigrationsConsistent
  <1> QED  BY DocumentsInvariant, <1>1, PTL
=============================================================================
