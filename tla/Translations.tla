----------------------------- MODULE Translations -----------------------------
(***************************************************************************)
(* Translations of one site into one language: the visitors and tenants    *)
(* whose requests generate what is missing and the reviewers who edit,     *)
(* approve and reject it (services/translation_service.py over             *)
(* repositories/translation_repository.py).                                *)
(*                                                                         *)
(* No request locks anything.  A generating request reads the whole route, *)
(* looks each missing text up in the translation memory, which is the      *)
(* approved texts of the same site, asks the provider for the rest and     *)
(* writes every answer over what is there by then; a reviewing request     *)
(* reads its document, and writes by its id.  A text is a number: 0 is     *)
(* none, 1 what the machine says, the others what editors write.           *)
(*                                                                         *)
(* `at' of a request:  recall   find_exact_match for the texts in todo     *)
(*   keep     save_translation of a text of the memory                     *)
(*   store    save_translation of what the provider answered               *)
(* of a review:  version  add_version(s)   write  the update   audit       *)
(***************************************************************************)
EXTENDS Naturals, FiniteSets, Sequences

CONSTANTS
    Docs,        \* items of the route, documents of `translations'
    Sources,     \* source texts
    SourceOf,    \* the text each item was extracted with
    Requests,    \* requests that generate translations
    Kind,        \* which of them are of visitors, which of content readers
    Reviews,     \* requests of reviewers
    TextOf,      \* the text each of them sends if it edits
    Nobody,      \* no document
    FirstParty,  \* first_party_site_ids names the site
    MaxSwitches  \* bound: changes of the site's status and languages

ASSUME TranslationAssumption ==
    /\ Nobody \notin Docs
    /\ SourceOf \in [Docs -> Sources]
    /\ Requests \cap Reviews = {} /\ IsFiniteSet(Reviews)
    /\ FirstParty \in BOOLEAN
    /\ Kind \in [Requests -> {"visit", "each"}]
    /\ TextOf \in [Reviews -> Nat \ {0, 1}]
    /\ MaxSwitches \in Nat

NoText == 0
Machine == 1
Statuses == {"none", "pending", "approved", "rejected"}
Entry == [text : Nat, status : Statuses]
NoEntry == [text |-> NoText, status |-> "none"]

VARIABLES
    site,        \* websites: Active, and the language enabled
    extracted,   \* items that were extracted
    entry,       \* translations: the entry of the language
    version,     \* translations: version
    versions,    \* translationVersions, the numbers in order of insertion
    trail,       \* translationAudit: entries of each item
    request,     \* each generating request
    review,      \* each reviewing request
    switches,    \* number of changes of the site
    changes,     \* history: writes of each item's entry
    decided,     \* history: what the last reviewer left
    blessed,     \* history: texts a reviewer approved or put in as approved
    raced,       \* history: items written while a request held an older read
    cut          \* history: items whose request ended between two writes

vars == <<site, extracted, entry, version, versions, trail, request, review,
          switches, changes, decided, blessed, raced, cut>>

New == [at |-> "new", todo |-> {}, miss |-> {}, hit |-> Nobody,
        text |-> NoText, out |-> [d \in Docs |-> NoText]]
NewReview == [at |-> "new", kind |-> "edit", docs |-> {},
              copy |-> [d \in {} |-> NoEntry], text |-> NoText,
              numbers |-> [d \in {} |-> 0]]

Done(v) == [New EXCEPT !.at = "done", !.out = request[v].out]
Finished == [NewReview EXCEPT !.at = "done"]

TypeOK ==
    /\ site \in [active : BOOLEAN, enabled : BOOLEAN]
    /\ extracted \subseteq Docs
    /\ entry \in [Docs -> Entry]
    /\ version \in [Docs -> Nat]
    /\ \A d \in Docs : versions[d] \in Seq(Nat \ {0})
    /\ trail \in [Docs -> Nat] /\ changes \in [Docs -> Nat]
    /\ request \in [Requests ->
          [at : {"new", "recall", "keep", "store", "done"},
           todo : SUBSET Docs,
           miss : SUBSET Docs, hit : Docs \cup {Nobody}, text : Nat,
           out : [Docs -> Nat]]]
    /\ \A r \in Reviews :
        /\ review[r].at \in {"new", "version", "write", "audit", "done"}
        /\ review[r].kind \in {"edit", "approve", "reject", "bulk"}
        /\ review[r].docs \subseteq extracted
        /\ review[r].copy \in [review[r].docs -> Entry]
    /\ switches \in Nat
    /\ decided \in [Docs -> Entry]
    /\ blessed \subseteq Sources \X Nat
    /\ raced \subseteq Docs /\ cut \subseteq Docs

Init ==
    /\ site = [active |-> TRUE, enabled |-> TRUE]
    /\ extracted = {}
    /\ entry = [d \in Docs |-> NoEntry]
    /\ version = [d \in Docs |-> 0]
    /\ versions = [d \in Docs |-> <<>>]
    /\ trail = [d \in Docs |-> 0]
    /\ request = [v \in Requests |-> New]
    /\ review = [r \in Reviews |-> NewReview]
    /\ switches = 0
    /\ changes = [d \in Docs |-> 0]
    /\ decided = [d \in Docs |-> NoEntry]
    /\ blessed = {} /\ raced = {} /\ cut = {}

-----------------------------------------------------------------------------
(* The stored documents, one database operation each. *)

Same(d) == {e \in extracted : SourceOf[e] = SourceOf[d]}

(* $setOnInsert: what is there stays, also when the page's text changed. *)
UpsertSource(ds) == extracted' = extracted \cup ds

(* The whole entry of the language is replaced. *)
SaveTranslation(d, text, auto) ==
    [entry EXCEPT ![d] = [text |-> text,
                          status |-> IF auto THEN "approved" ELSE "pending"]]
UpdateTranslationText(d, text) == [entry EXCEPT ![d].text = text]
RejectTranslation(d)  == [entry EXCEPT ![d].status = "rejected"]
ApproveTranslation(d) == [entry EXCEPT ![d].status = "approved"]
BulkApprove(ds) ==
    [d \in Docs |-> IF d \in ds THEN [entry[d] EXCEPT !.status = "approved"]
                                ELSE entry[d]]
FindAnyMatch(d) == \* mutant: the status is not asked for
    {e \in Same(d) : entry[e].text # NoText}
FindExactMatch(d) == {e \in Same(d) : entry[e].status = "approved"}

AddVersion(ds, numbers) ==
    versions' = [d \in Docs |-> IF d \in ds THEN Append(versions[d], numbers[d])
                                            ELSE versions[d]]
Audit(ds) == trail' = [d \in Docs |-> IF d \in ds THEN trail[d] + 1
                                                  ELSE trail[d]]

(* Another request has read d and has not written yet. *)
HeldByRequest(d, v) ==
    \E u \in Requests \ {v} :
        d \in request[u].todo \cup request[u].miss \cup {request[u].hit}
HeldByReview(d, r) ==
    \E s \in Reviews \ {r} : /\ review[s].at \in {"version", "write"}
                             /\ d \in review[s].docs
Races(ds, who) ==
    raced' = raced \cup {d \in ds : HeldByRequest(d, who) \/ HeldByReview(d, who)}

Changes(ds) == changes' = [d \in Docs |-> IF d \in ds THEN changes[d] + 1
                                                      ELSE changes[d]]

-----------------------------------------------------------------------------
(* Generating requests. *)

unreviewed == <<version, versions, review, decided, blessed>>

SiteActive == site.active
LangEnabled == site.enabled

(* The tenant's update_website may come at any time. *)
SwitchSite ==
    /\ switches < MaxSwitches
    /\ switches' = switches + 1
    /\ \/ site' = [site EXCEPT !.active = ~@]
       \/ site' = [site EXCEPT !.enabled = ~@]
    /\ UNCHANGED <<extracted, entry, trail, request, changes, raced, cut,
                   unreviewed>>

(* POST /translations/extract: one upsert after the other, so that a        *)
(* request that fails leaves some of its items.                             *)
ExtractItems(ds) ==
    /\ SiteActive
    /\ ds # {} /\ ds \cap extracted = {}
    /\ UpsertSource(ds)
    /\ UNCHANGED <<site, entry, trail, request, switches, changes, raced, cut,
                   unreviewed>>

(* What the response holds for an item that has a text; NoText stands for  *)
(* the source text.                                                        *)
Served(d) ==
    IF entry[d].status = "approved" \/ FirstParty THEN entry[d].text ELSE NoText

UntranslatedOrPending == \* mutant: what is not approved is done again
    {d \in extracted : entry[d].status # "approved"}
Untranslated == {d \in extracted : entry[d].text = NoText}

(* find_by_route: what has no text is left to do. *)
Start(v) ==
    /\ request[v].at = "new" /\ extracted # {}
    /\ request' = [request EXCEPT ![v] =
          [New EXCEPT !.at = "recall", !.todo = Untranslated,
                      !.out = [d \in Docs |-> IF Kind[v] = "visit"
                                              THEN Served(d) ELSE NoText]]]
    /\ UNCHANGED <<site, extracted, entry, trail, switches, changes, raced,
                   cut, unreviewed>>

(* GET /translations of a visitor, and a tenant's /generate, which does the *)
(* same work.                                                               *)
RuntimeTranslate(v) ==
    Kind[v] = "visit" /\ SiteActive /\ LangEnabled /\ Start(v)

(* A content reader's translation of a page: neither the site nor the       *)
(* language is looked at, and each text is asked for when the memory has     *)
(* none; its answer, which may hold drafts, is not part of the model.       *)
GetOrTranslate(v) == Kind[v] = "each" /\ Start(v)

(* find_exact_match: a hit is kept at once.  GET collects the others for    *)
(* one batch, get_or_translate asks for each of them.                       *)
Recall(v, d) ==
    /\ request[v].at = "recall" /\ d \in request[v].todo
    /\ request' = [request EXCEPT
          ![v].todo = @ \ {d},
          ![v].at = IF FindExactMatch(d) # {} THEN "keep"
                    ELSE IF Kind[v] = "each" THEN "store" ELSE "recall",
          ![v].hit = IF FindExactMatch(d) # {} THEN d ELSE Nobody,
          ![v].text = IF FindExactMatch(d) # {}
                      THEN entry[CHOOSE e \in FindExactMatch(d) : TRUE].text
                      ELSE NoText,
          ![v].miss = IF FindExactMatch(d) # {} THEN @ ELSE @ \cup {d}]
    /\ UNCHANGED <<site, extracted, entry, trail, switches, changes, raced,
                   cut, unreviewed>>

(* _persist_translation: the entry, then the audit trail, where the request *)
(* may end in between.                                                      *)
Persist(v, d, text, auto, next) ==
    /\ entry' = SaveTranslation(d, text, auto)
    /\ Changes({d}) /\ Races({d}, v)
    /\ \/ Audit({d}) /\ UNCHANGED cut /\ request' = [request EXCEPT ![v] = next]
       \/ UNCHANGED trail /\ cut' = cut \cup {d}
          /\ request' = [request EXCEPT ![v] = Done(v)]
    /\ UNCHANGED <<site, extracted, switches, unreviewed>>

Keep(v) ==
    /\ request[v].at = "keep"
    /\ Persist(v, request[v].hit, request[v].text, TRUE,
          [request[v] EXCEPT !.at = "recall", !.hit = Nobody, !.text = NoText,
                             !.out[request[v].hit] = request[v].text])

(* translate_batch is asked for the texts that are left. *)
Batch(v) ==
    /\ request[v].at = "recall" /\ request[v].todo = {}
    /\ request' = [request EXCEPT
          ![v].at = IF request[v].miss = {} THEN "done" ELSE "store"]
    /\ UNCHANGED <<site, extracted, entry, trail, switches, changes, raced,
                   cut, unreviewed>>

After(v, d) ==
    [request[v] EXCEPT
        !.miss = @ \ {d},
        !.at = IF request[v].miss # {d} THEN @
               ELSE IF Kind[v] = "each" THEN "recall" ELSE "done"]

(* The machine's text goes in as pending, over whatever is there by now. *)
Store(v, d) ==
    /\ request[v].at = "store" /\ d \in request[v].miss
    /\ Persist(v, d, Machine, FALSE,
          [After(v, d) EXCEPT !.out[d] = IF FirstParty THEN Machine ELSE NoText])

(* A transient error of the batch, and then of the text when it is tried    *)
(* on its own, leaves it untranslated.                                      *)
Skip(v, d) ==
    /\ request[v].at = "store" /\ d \in request[v].miss
    /\ request' = [request EXCEPT ![v] = After(v, d)]
    /\ UNCHANGED <<site, extracted, entry, trail, switches, changes, raced,
                   cut, unreviewed>>

(* The response, or an error of the database or the provider: what was      *)
(* written stays.                                                           *)
Leave(v) ==
    /\ request[v].at \notin {"new", "done"}
    /\ request' = [request EXCEPT ![v] = Done(v)]
    /\ UNCHANGED <<site, extracted, entry, trail, switches, changes, raced,
                   cut, unreviewed>>

-----------------------------------------------------------------------------
(* Reviewing requests.  A reviewer acts on an entry the list shows. *)

requests == <<site, extracted, request, switches>>
Pending(e) == e.status \notin {"approved", "rejected"}

(* find_by_id, or list_translations for the route: the copy and the next    *)
(* version number.                                                          *)
Read(r, kind, ds) ==
    /\ review[r].at = "new"
    /\ ds # {} /\ ds \subseteq {d \in extracted : entry[d].text # NoText}
    /\ review' = [review EXCEPT ![r] =
          [at |-> IF kind = "approve" THEN "version" ELSE "write",
           kind |-> kind, docs |-> ds,
           copy |-> [d \in ds |-> entry[d]],
           text |-> TextOf[r],
           numbers |-> [d \in ds |-> version[d] + 1]]]
    /\ UNCHANGED <<requests, entry, version, versions, trail, changes, decided,
                   blessed, raced, cut>>

UpdateTranslation(r, d) == Read(r, "edit", {d})
ApproveOne(r, d)        == Read(r, "approve", {d})
RejectOne(r, d)         == Read(r, "reject", {d})
BulkApprovePending(r) ==
    Read(r, "bulk", {d \in extracted : entry[d].text # NoText /\ Pending(entry[d])})

(* An approval is numbered and kept before it is made; a bulk approval      *)
(* afterwards.                                                              *)
Number(r) ==
    /\ review[r].at = "version"
    /\ AddVersion(review[r].docs, review[r].numbers)
    /\ Races(review[r].docs, r)
    /\ review' = [review EXCEPT
          ![r].at = IF review[r].kind = "approve" THEN "write" ELSE "audit"]
    /\ UNCHANGED <<requests, entry, version, trail, changes, decided,
                   blessed, cut>>

(* What the reviewer leaves, by what was read. *)
Decision(r, d) ==
    CASE review[r].kind = "edit" -> [review[r].copy[d] EXCEPT !.text = review[r].text]
      [] review[r].kind = "reject" -> [review[r].copy[d] EXCEPT !.status = "rejected"]
      [] OTHER -> [review[r].copy[d] EXCEPT !.status = "approved"]

Left(r, ds, only) ==
    CASE review[r].kind = "edit" -> UpdateTranslationText(only, review[r].text)
      [] review[r].kind = "reject" -> RejectTranslation(only)
      [] review[r].kind = "approve" -> ApproveTranslation(only)
      [] OTHER -> BulkApprove(ds)

NumberedBulk(r, ds) == \* mutant: one approval leaves the document's version
    [d \in Docs |-> IF d \in ds /\ review[r].kind = "bulk"
                    THEN review[r].numbers[d] ELSE version[d]]
Numbered(r, ds) ==
    [d \in Docs |-> IF d \in ds /\ review[r].kind \in {"approve", "bulk"}
                    THEN review[r].numbers[d] ELSE version[d]]

(* What is left to do for the documents that were written. *)
Written(r, ds) ==
    [at |-> IF review[r].kind = "bulk" THEN "version" ELSE "audit",
     kind |-> review[r].kind, docs |-> ds, text |-> review[r].text,
     copy |-> [d \in ds |-> review[r].copy[d]],
     numbers |-> [d \in ds |-> review[r].numbers[d]]]

(* The update, by id and without a look at what it replaces.  Of a bulk     *)
(* write some operations may fail; they get no version and no audit.        *)
Write(r) ==
    /\ review[r].at = "write"
    /\ \E ds \in SUBSET review[r].docs :
        /\ review[r].kind # "bulk" => ds = review[r].docs
        /\ entry' = Left(r, ds, CHOOSE d \in review[r].docs : TRUE)
        /\ version' = Numbered(r, ds)
        /\ Changes(ds) /\ Races(ds, r)
        /\ decided' = [d \in Docs |-> IF d \in ds THEN Decision(r, d)
                                                  ELSE decided[d]]
        /\ blessed' = blessed \cup {<<SourceOf[d], entry'[d].text>> :
                              d \in {e \in ds : entry'[e].status = "approved"}}
        /\ review' = [review EXCEPT ![r] = IF ds = {} THEN Finished
                                           ELSE Written(r, ds)]
    /\ UNCHANGED <<requests, versions, trail, cut>>

RecordDecision(r) == \* mutant: an edit is not recorded
    /\ review[r].at = "audit"
    /\ Audit(IF review[r].kind = "edit" THEN {} ELSE review[r].docs)
    /\ review' = [review EXCEPT ![r] = Finished]
    /\ UNCHANGED <<requests, entry, version, versions, changes,
                   decided, blessed, raced, cut>>
Record(r) ==
    /\ review[r].at = "audit"
    /\ Audit(review[r].docs)
    /\ review' = [review EXCEPT ![r] = Finished]
    /\ UNCHANGED <<requests, entry, version, versions, changes,
                   decided, blessed, raced, cut>>

(* The process dies, or the database does, between two of the writes. *)
CutShort(r) ==
    /\ review[r].at \notin {"new", "done"}
    /\ cut' = cut \cup review[r].docs
    /\ review' = [review EXCEPT ![r] = Finished]
    /\ UNCHANGED <<requests, entry, version, versions, trail, changes,
                   decided, blessed, raced>>

Generating(v) ==
    \/ RuntimeTranslate(v) \/ GetOrTranslate(v)
    \/ \E d \in Docs : Recall(v, d) \/ Store(v, d) \/ Skip(v, d)
    \/ Keep(v) \/ Batch(v) \/ Leave(v)

Reviewing(r) ==
    \/ \E d \in Docs : UpdateTranslation(r, d) \/ ApproveOne(r, d) \/ RejectOne(r, d)
    \/ BulkApprovePending(r)
    \/ Number(r) \/ Write(r) \/ Record(r) \/ CutShort(r)

Next ==
    \/ SwitchSite
    \/ \E ds \in SUBSET Docs : ExtractItems(ds)
    \/ \E v \in Requests : Generating(v)
    \/ \E r \in Reviews : Reviewing(r)

Spec == Init /\ [][Next]_vars

-----------------------------------------------------------------------------
(* Properties. *)

(* What the last reviewer left of an entry stays, and an approval is of     *)
(* the text that was read, unless a request that had read the item before   *)
(* wrote it in between: neither save_translation nor the updates by id look *)
(* at what they replace.                                                    *)
DecisionKept ==
    \A d \in Docs \ raced :
        decided[d] # NoEntry => entry[d] = decided[d]

(* The translation memory only spreads texts that a reviewer approved, or   *)
(* wrote into an approved entry, for the same source text.                  *)
MemoryApproved ==
    \A d \in Docs : entry[d].status = "approved" =>
        <<SourceOf[d], entry[d].text>> \in blessed

(* A visitor of a site that is not first party is answered approved texts   *)
(* and source texts only, whatever is generated and reviewed meanwhile.     *)
ServedApproved ==
    \A v \in Requests : \A d \in Docs :
        (~FirstParty /\ request[v].out[d] # NoText) =>
            <<SourceOf[d], request[v].out[d]>> \in blessed

(* Nobody reads or reuses what no reviewer has approved.                   *)
OnlyApproved == MemoryApproved /\ ServedApproved

(* The versions of an item have different numbers, unless two approvals     *)
(* overlapped or one was cut short.                                         *)
VersionsDistinct ==
    \A d \in Docs \ (raced \cup cut) : \A i, j \in DOMAIN versions[d] :
        i # j => versions[d][i] # versions[d][j]

(* An item's version is in the history, or is on its way there.            *)
VersionRecorded ==
    \A d \in Docs \ cut : version[d] # 0 =>
        \/ \E i \in DOMAIN versions[d] : versions[d][i] = version[d]
        \/ \E r \in Reviews : review[r].at = "version" /\ d \in review[r].docs

(* Every change of an entry is in the audit trail once, unless its request  *)
(* ended between the two writes.                                            *)
Unrecorded(d) ==
    Cardinality({r \in Reviews : /\ d \in review[r].docs
                                 /\ \/ review[r].at = "audit"
                                    \/ /\ review[r].kind = "bulk"
                                       /\ review[r].at = "version"})
AuditTells == \A d \in Docs \ cut : changes[d] = trail[d] + Unrecorded(d)

(* The history and the audit trail of an entry are complete.               *)
Consistent == TypeOK /\ VersionRecorded /\ AuditTells
=============================================================================
