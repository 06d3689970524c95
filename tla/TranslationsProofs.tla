------------------------- MODULE TranslationsProofs -------------------------
(***************************************************************************)
(* What translations keep for any number of items, texts, requests and     *)
(* reviewers.  The inductive invariant has five parts: the shape of the    *)
(* requests (Shaped), what the reviewers decided and who still works from  *)
(* an older read (Decided), the texts the memory may spread (Approved),    *)
(* the numbers of the versions (Numbers) and the audit trail (Audited).  *)
(***************************************************************************)
EXTENDS Translations, FiniteSetTheorems, TLAPS

(* The items a request has read and may still write. *)
Held(v) == request[v].todo \cup request[v].miss \cup {request[v].hit}

(* The items a review has read and not yet written. *)
Reading(r) == \/ review[r].at = "write"
              \/ review[r].at = "version" /\ review[r].kind = "approve"

RequestType == [at : {"new", "recall", "keep", "store", "done"},
                todo : SUBSET Docs, miss : SUBSET Docs,
                hit : Docs \cup {Nobody}, text : Nat, out : [Docs -> Nat]]

(* A review x whose documents are among ds. *)
ReviewOf(x, ds) ==
    /\ x = [at |-> x.at, kind |-> x.kind, docs |-> x.docs, copy |-> x.copy,
            text |-> x.text, numbers |-> x.numbers]
    /\ x.at \in {"new", "version", "write", "audit", "done"}
    /\ x.kind \in {"edit", "approve", "reject", "bulk"}
    /\ x.docs \subseteq ds
    /\ x.copy \in [x.docs -> Entry] /\ x.text \in Nat
    /\ x.numbers \in [x.docs -> Nat \ {0}]
    /\ x.at \in {"new", "done"} => x.docs = {}
    /\ x.at \in {"version", "write", "audit"} /\ x.kind # "bulk" =>
            \E d \in ds : x.docs = {d}
    /\ x.at = "version" => x.kind \in {"approve", "bulk"}
    /\ x.at \notin {"new", "done"} => x.text # NoText

Shaped ==
    /\ TypeOK
    /\ \A v \in Requests : request[v].at = "keep" => request[v].hit \in Docs
    /\ review = [r \in Reviews |-> review[r]]
    /\ \A r \in Reviews : ReviewOf(review[r], extracted)

(* What a review has read of an item is what is there, and its decision is *)
(* what it left; no request works from a read that is older than that.     *)
Decided ==
    /\ \A r \in Reviews : Reading(r) => \A d \in review[r].docs \ raced :
            review[r].copy[d] = entry[d] /\ entry[d].text # NoText
    /\ \A d \in Docs \ raced : decided[d] # NoEntry =>
            entry[d] = decided[d] /\ entry[d].text # NoText
    /\ \A v \in Requests : \A d \in Docs \ raced :
            d \in Held(v) => decided[d] = NoEntry

Approved ==
    /\ OnlyApproved
    /\ \A v \in Requests : request[v].at = "keep" =>
            <<SourceOf[request[v].hit], request[v].text>> \in blessed

(* An approval that is numbered and not made yet. *)
Approving(r) == review[r].at = "write" /\ review[r].kind = "approve"

(* A bulk approval that is made and not numbered yet. *)
Numbering(r) == review[r].at = "version" /\ review[r].kind = "bulk"

(* The versions of an item are no higher than its version, but for that of *)
(* an approval which is about to be made.                                  *)
Bounded == \A d \in Docs \ (raced \cup cut) : \A i \in DOMAIN versions[d] :
    \/ versions[d][i] <= version[d]
    \/ \E r \in Reviews : /\ Approving(r) /\ d \in review[r].docs
                          /\ versions[d][i] = review[r].numbers[d]

(* What a review would write is the next number of what it has read. *)
NextNumber == \A r \in Reviews : Reading(r) =>
    \A d \in review[r].docs \ raced : review[r].numbers[d] = version[d] + 1

(* What a bulk approval has left to insert is higher than what is there. *)
BulkNumber == \A r \in Reviews : Numbering(r) =>
    \A d \in review[r].docs \ (raced \cup cut) :
        /\ review[r].numbers[d] = version[d]
        /\ \A i \in DOMAIN versions[d] : versions[d][i] < version[d]

Inserted == \A r \in Reviews : Approving(r) =>
    \A d \in review[r].docs :
        \E i \in DOMAIN versions[d] : versions[d][i] = review[r].numbers[d]

(* VersionRecorded, with the number that is on its way. *)
Recorded == \A d \in Docs \ cut : version[d] # 0 =>
    \/ \E i \in DOMAIN versions[d] : versions[d][i] = version[d]
    \/ \E r \in Reviews : /\ Numbering(r) /\ d \in review[r].docs
                          /\ review[r].numbers[d] = version[d]

Numbers == /\ Bounded /\ NextNumber /\ BulkNumber /\ Inserted /\ Recorded
           /\ VersionsDistinct

Audited == AuditTells

IInv == Shaped /\ Decided /\ Approved /\ Numbers /\ Audited

-----------------------------------------------------------------------------
(* The shape of requests and reviews. *)

LEMMA ReviewSteps ==
    ASSUME Shaped, NEW r \in Reviews, NEW x, review' = [review EXCEPT ![r] = x]
    PROVE  /\ review' = [s \in Reviews |-> review'[s]]
           /\ review'[r] = x
           /\ \A s \in Reviews \ {r} : review'[s] = review[s]
BY DEF Shaped

LEMMA ReviewGrows ==
    ASSUME NEW x, NEW S, NEW T, S \subseteq T, ReviewOf(x, S)
    PROVE  ReviewOf(x, T)
BY DEF ReviewOf

LEMMA FinishedIs ==
    /\ Finished = [at |-> "done", kind |-> "edit", docs |-> {},
                   copy |-> [d \in {} |-> NoEntry], text |-> NoText,
                   numbers |-> [d \in {} |-> 0]]
    /\ \A S : ReviewOf(Finished, S)
    /\ \A S : ReviewOf(NewReview, S)
    /\ Finished.at = "done" /\ Finished.docs = {}
<1>1. Finished = [at |-> "done", kind |-> "edit", docs |-> {},
                  copy |-> [d \in {} |-> NoEntry], text |-> NoText,
                  numbers |-> [d \in {} |-> 0]]
  <2> DEFINE c == [d \in {} |-> NoEntry]
             n == [d \in {} |-> 0]
  <2>1. NewReview = [at |-> "new", kind |-> "edit", docs |-> {}, copy |-> c,
                     text |-> NoText, numbers |-> n]
    BY DEF NewReview
  <2> HIDE DEF c, n
  <2>2. Finished = [at |-> "done", kind |-> "edit", docs |-> {}, copy |-> c,
                    text |-> NoText, numbers |-> n]
    BY <2>1 DEF Finished
  <2> QED  BY <2>2 DEF c, n
<1>2. \A S : ReviewOf(NewReview, S)
  BY DEF ReviewOf, NewReview, NoText, Entry
<1>3. \A S : ReviewOf(Finished, S)
  BY <1>1 DEF ReviewOf, NoText, Entry
<1> QED  BY <1>1, <1>2, <1>3

LEMMA RequestOf ==
    ASSUME Shaped, NEW v \in Requests
    PROVE  /\ request \in [Requests -> RequestType] /\ request[v] \in RequestType
           /\ entry \in [Docs -> Entry]
           /\ v \notin Reviews
BY TranslationAssumption DEF Shaped, TypeOK, RequestType

LEMMA DoneType ==
    ASSUME Shaped, NEW v \in Requests
    PROVE  /\ Done(v) \in RequestType /\ New \in RequestType
           /\ Done(v).at = "done" /\ Done(v).todo = {} /\ Done(v).miss = {}
           /\ Done(v).hit = Nobody /\ Done(v).out = request[v].out
<1>1. request[v].out \in [Docs -> Nat]
  BY RequestOf DEF RequestType
<1> QED  BY <1>1 DEF Done, New, NoText, RequestType

(* Steps of a request that write no entry. *)
LEMMA QuietShaped ==
    ASSUME Shaped, NEW v \in Requests, NEW q \in RequestType,
           request' = [request EXCEPT ![v] = q],
           q.at = "keep" => q.hit \in Docs,
           entry' \in [Docs -> Entry], trail' \in [Docs -> Nat], changes' \in [Docs -> Nat],
           raced' \subseteq Docs, cut' \subseteq Docs,
           UNCHANGED <<site, extracted, version, versions, review, switches, decided, blessed>>
    PROVE  Shaped'
<1>1. request' \in [Requests -> RequestType]
      /\ \A u \in Requests : request'[u] = IF u = v THEN q ELSE request[u]
  BY RequestOf
<1> QED  BY <1>1 DEF Shaped, TypeOK, RequestType

LEMMA SaveType ==
    ASSUME Shaped, NEW d \in Docs, NEW text \in Nat, NEW auto \in BOOLEAN
    PROVE  SaveTranslation(d, text, auto) \in [Docs -> Entry]
<1>1. entry \in [Docs -> Entry]
  BY DEF Shaped, TypeOK
<1>2. [text |-> text, status |-> IF auto THEN "approved" ELSE "pending"] \in Entry
  BY DEF Entry, Statuses
<1> QED  BY <1>1, <1>2 DEF SaveTranslation

LEMMA PersistShaped ==
    ASSUME Shaped, NEW v \in Requests, NEW d \in Docs, NEW text \in Nat,
           NEW auto \in BOOLEAN, NEW next \in RequestType, next.at # "keep",
           Persist(v, d, text, auto, next)
    PROVE  Shaped'
<1>1. PICK q \in RequestType : /\ request' = [request EXCEPT ![v] = q]
                               /\ q.at # "keep"
  BY DoneType DEF Persist
<1>2. entry' \in [Docs -> Entry]
  BY SaveType DEF Persist
<1>3. /\ trail' \in [Docs -> Nat] /\ changes' \in [Docs -> Nat]
      /\ raced' \subseteq Docs /\ cut' \subseteq Docs
  <2>1. /\ trail \in [Docs -> Nat] /\ changes \in [Docs -> Nat]
        /\ raced \subseteq Docs /\ cut \subseteq Docs
    BY DEF Shaped, TypeOK
  <2>2. trail' \in [Docs -> Nat] /\ changes' \in [Docs -> Nat]
    BY <2>1 DEF Persist, Audit, Changes
  <2>3. raced' \subseteq Docs
    BY <2>1 DEF Persist, Races
  <2>4. cut' \subseteq Docs
    BY <2>1 DEF Persist
  <2> QED  BY <2>2, <2>3, <2>4
<1> QED  BY <1>1, <1>2, <1>3, QuietShaped DEF Persist, unreviewed

(* A request that reads, asks or gives up. *)
Quiet(v) ==
    \/ RuntimeTranslate(v) \/ GetOrTranslate(v) \/ Batch(v) \/ Leave(v)
    \/ \E d \in Docs : Recall(v, d) \/ Skip(v, d)

(* What it becomes. *)
LEMMA QuietIs ==
    ASSUME Shaped, NEW v \in Requests, Quiet(v)
    PROVE  /\ UNCHANGED <<site, extracted, entry, trail, switches, changes, raced,
                          cut, unreviewed>>
           /\ \E q \in RequestType :
                /\ request' = [request EXCEPT ![v] = q]
                /\ \/ /\ q.at # "keep" /\ q.out = request[v].out
                      /\ q.todo \cup q.miss \cup {q.hit} \subseteq Held(v) \cup {Nobody}
                   \/ /\ q.at # "keep" /\ q.todo = Untranslated /\ q.miss = {}
                      /\ q.hit = Nobody
                      /\ \A d \in Docs : q.out[d] \in {NoText, Served(d)}
                   \/ /\ q.at = "keep" /\ q.hit \in Held(v) /\ q.hit \in Docs
                      /\ q.out = request[v].out
                      /\ q.todo \cup q.miss \subseteq Held(v)
                      /\ \E e \in FindExactMatch(q.hit) : q.text = entry[e].text
<1>0. /\ request \in [Requests -> RequestType] /\ request[v] \in RequestType
      /\ entry \in [Docs -> Entry] /\ extracted \subseteq Docs
  BY RequestOf DEF Shaped, TypeOK
<1>1. CASE RuntimeTranslate(v) \/ GetOrTranslate(v)
  <2> DEFINE o == [d \in Docs |-> IF Kind[v] = "visit" THEN Served(d) ELSE NoText]
             q == [New EXCEPT !.at = "recall", !.todo = Untranslated, !.out = o]
  <2>1. request' = [request EXCEPT ![v] = q]
    BY <1>1 DEF RuntimeTranslate, GetOrTranslate, Start
  <2>2. \A d \in Docs : Served(d) \in Nat
    BY <1>0 DEF Served, Entry, NoText
  <2>3. o \in [Docs -> Nat] /\ \A d \in Docs : o[d] \in {NoText, Served(d)}
    BY <2>2 DEF NoText
  <2> HIDE DEF o
  <2>4. /\ q \in RequestType /\ q.at = "recall" /\ q.todo = Untranslated /\ q.miss = {}
        /\ q.hit = Nobody /\ q.out = o
    BY <1>0, <2>3 DEF New, RequestType, NoText, Untranslated
  <2> HIDE DEF q
  <2> QED  BY <1>1, <2>1, <2>3, <2>4 DEF RuntimeTranslate, GetOrTranslate, Start
<1>2. CASE Leave(v)
  BY <1>2, DoneType DEF Leave
<1>3. CASE Batch(v)
  <2> DEFINE q == [request[v] EXCEPT !.at = IF request[v].miss = {} THEN "done" ELSE "store"]
  <2>1. request' = [request EXCEPT ![v] = q]
    BY <1>0, <1>3 DEF Batch
  <2>2. /\ q \in RequestType /\ q.at # "keep" /\ q.out = request[v].out
        /\ q.todo = request[v].todo /\ q.miss = request[v].miss /\ q.hit = request[v].hit
    BY <1>0 DEF RequestType
  <2> HIDE DEF q
  <2> QED  BY <1>3, <2>1, <2>2 DEF Batch, Held
<1>4. ASSUME NEW d \in Docs, Skip(v, d)
      PROVE  \E q \in RequestType :
                /\ request' = [request EXCEPT ![v] = q]
                /\ q.at # "keep" /\ q.out = request[v].out
                /\ q.todo \cup q.miss \cup {q.hit} \subseteq Held(v) \cup {Nobody}
  <2>1. request' = [request EXCEPT ![v] = After(v, d)]
    BY <1>4 DEF Skip
  <2>2. /\ After(v, d) \in RequestType /\ After(v, d).at # "keep"
        /\ After(v, d).out = request[v].out
        /\ After(v, d).todo = request[v].todo /\ After(v, d).hit = request[v].hit
        /\ After(v, d).miss = request[v].miss \ {d}
    BY <1>0, <1>4 DEF Skip, After, RequestType
  <2> QED  BY <2>1, <2>2 DEF Held
<1>5. ASSUME NEW d \in Docs, Recall(v, d)
      PROVE  \E q \in RequestType :
                /\ request' = [request EXCEPT ![v] = q]
                /\ \/ /\ q.at # "keep" /\ q.out = request[v].out
                      /\ q.todo \cup q.miss \cup {q.hit} \subseteq Held(v) \cup {Nobody}
                   \/ /\ q.at = "keep" /\ q.hit \in Held(v) /\ q.hit \in Docs
                      /\ q.out = request[v].out
                      /\ q.todo \cup q.miss \subseteq Held(v)
                      /\ \E e \in FindExactMatch(q.hit) : q.text = entry[e].text
  <2>1. CASE FindExactMatch(d) # {}
    <3> DEFINE e == CHOOSE x \in FindExactMatch(d) : TRUE
               q == [request[v] EXCEPT !.todo = request[v].todo \ {d}, !.at = "keep",
                                       !.hit = d, !.text = entry[e].text]
    <3>1. e \in FindExactMatch(d)
      BY <2>1
    <3>2. entry[e].text \in Nat
      BY <1>0, <3>1 DEF FindExactMatch, Same, Entry
    <3>3. request' = [request EXCEPT ![v] = q]
      BY <1>0, <1>5, <2>1 DEF Recall, RequestType
    <3> HIDE DEF e
    <3>4. /\ q \in RequestType /\ q.at = "keep" /\ q.hit = d /\ q.text = entry[e].text
          /\ q.out = request[v].out /\ q.miss = request[v].miss
          /\ q.todo = request[v].todo \ {d}
      BY <1>0, <3>2 DEF RequestType
    <3>5. d \in Held(v)
      BY <1>5 DEF Recall, Held
    <3> HIDE DEF q
    <3> QED  BY <3>1, <3>3, <3>4, <3>5 DEF Held
  <2>2. CASE FindExactMatch(d) = {}
    <3> DEFINE q == [request[v] EXCEPT !.todo = request[v].todo \ {d},
                        !.at = IF Kind[v] = "each" THEN "store" ELSE "recall",
                        !.hit = Nobody, !.text = NoText,
                        !.miss = request[v].miss \cup {d}]
    <3>1. request' = [request EXCEPT ![v] = q]
      BY <1>0, <1>5, <2>2 DEF Recall, RequestType
    <3>2. /\ q \in RequestType /\ q.at # "keep" /\ q.hit = Nobody
          /\ q.out = request[v].out /\ q.miss = request[v].miss \cup {d}
          /\ q.todo = request[v].todo \ {d}
      BY <1>0 DEF RequestType, NoText
    <3>3. d \in Held(v)
      BY <1>5 DEF Recall, Held
    <3> HIDE DEF q
    <3> QED  BY <3>1, <3>2, <3>3 DEF Held
  <2> QED  BY <2>1, <2>2
<1>6. UNCHANGED <<site, extracted, entry, trail, switches, changes, raced,
                  cut, unreviewed>>
  BY DEF Quiet, RuntimeTranslate, GetOrTranslate, Start, Batch, Leave, Recall, Skip
<1>7. CASE \E d \in Docs : Recall(v, d) \/ Skip(v, d)
  BY <1>4, <1>5, <1>6, <1>7
<1> QED  BY <1>1, <1>2, <1>3, <1>6, <1>7 DEF Quiet

Keeps(v, d, next) == Persist(v, d, request[v].text, TRUE, next)
Stores(v, d, next) == Persist(v, d, Machine, FALSE, next)

(* A request that writes an entry. *)
LEMMA PersistIs ==
    ASSUME Shaped, NEW v \in Requests, Keep(v) \/ \E d \in Docs : Store(v, d)
    PROVE  \E d \in Docs, next \in RequestType :
                /\ d \in Held(v) /\ next.at # "keep"
                /\ next.todo \cup next.miss \cup {next.hit} \subseteq Held(v) \cup {Nobody}
                /\ \/ /\ Keeps(v, d, next)
                      /\ request[v].at = "keep" /\ d = request[v].hit
                      /\ \A e \in Docs : next.out[e] \in {request[v].out[e], request[v].text}
                      /\ \A e \in Docs \ {d} : next.out[e] = request[v].out[e]
                   \/ /\ Stores(v, d, next)
                      /\ \A e \in Docs : \/ next.out[e] \in {request[v].out[e], NoText}
                                         \/ FirstParty
<1>0. /\ request[v] \in RequestType
      /\ request[v].at = "keep" => request[v].hit \in Docs
      /\ request[v].out \in [Docs -> Nat] /\ request[v].text \in Nat
  BY RequestOf DEF Shaped, RequestType
<1>1. CASE Keep(v)
  <2> DEFINE h == request[v].hit
             o == [request[v].out EXCEPT ![h] = request[v].text]
             q == [request[v] EXCEPT !.at = "recall", !.hit = Nobody, !.text = NoText,
                                     !.out = o]
  <2>1. Keeps(v, h, q)
    <3>1. q = [request[v] EXCEPT !.at = "recall", !.hit = Nobody, !.text = NoText,
                                 !.out[request[v].hit] = request[v].text]
      BY <1>0 DEF RequestType
    <3> QED  BY <1>1, <3>1 DEF Keep, Keeps
  <2>2. /\ o \in [Docs -> Nat]
        /\ \A e \in Docs : o[e] = IF e = h THEN request[v].text ELSE request[v].out[e]
    BY <1>0
  <2> HIDE DEF o
  <2>3. /\ q \in RequestType /\ q.at = "recall" /\ q.hit = Nobody /\ q.out = o
        /\ q.todo = request[v].todo /\ q.miss = request[v].miss
    BY <1>0, <2>2 DEF RequestType, NoText
  <2>4. h \in Docs /\ h \in Held(v) /\ request[v].at = "keep"
    BY <1>0, <1>1 DEF Keep, Held
  <2> HIDE DEF q
  <2> QED  BY <1>0, <2>1, <2>2, <2>3, <2>4 DEF Held
<1>2. ASSUME NEW d \in Docs, Store(v, d)
      PROVE  \E next \in RequestType :
                /\ Stores(v, d, next)
                /\ d \in Held(v) /\ next.at # "keep"
                /\ next.todo \cup next.miss \cup {next.hit} \subseteq Held(v) \cup {Nobody}
                /\ \A e \in Docs : \/ next.out[e] \in {request[v].out[e], NoText}
                                   \/ FirstParty
  <2> DEFINE a == After(v, d)
             o == [request[v].out EXCEPT ![d] = IF FirstParty THEN Machine ELSE NoText]
             q == [a EXCEPT !.out = o]
  <2>1. /\ a \in RequestType /\ a.at # "keep" /\ a.out = request[v].out
        /\ a.todo = request[v].todo /\ a.hit = request[v].hit
        /\ a.miss = request[v].miss \ {d}
    BY <1>0, <1>2 DEF Store, After, RequestType
  <2>2. /\ o \in [Docs -> Nat]
        /\ \A e \in Docs : \/ o[e] = request[v].out[e] \/ o[e] = NoText \/ FirstParty
    BY <1>0 DEF Machine, NoText
  <2>3. q = [After(v, d) EXCEPT !.out[d] = IF FirstParty THEN Machine ELSE NoText]
    BY <2>1 DEF RequestType
  <2>4. Stores(v, d, q)
    <3> HIDE DEF q
    <3> QED  BY <1>2, <2>3 DEF Store, Stores
  <2> HIDE DEF a
  <2> HIDE DEF o
  <2>5. /\ q \in RequestType /\ q.at = a.at /\ q.hit = a.hit /\ q.out = o
        /\ q.todo = a.todo /\ q.miss = a.miss
    BY <2>1, <2>2 DEF RequestType
  <2>6. d \in Held(v)
    BY <1>2 DEF Store, Held
  <2> HIDE DEF q
  <2> QED  BY <2>1, <2>2, <2>4, <2>5, <2>6 DEF Held
<1> QED  BY <1>1, <1>2

(* A review that starts. *)
Reads(r) ==
    \/ \E d \in Docs : UpdateTranslation(r, d) \/ ApproveOne(r, d) \/ RejectOne(r, d)
    \/ BulkApprovePending(r)

LEMMA ReadIs ==
    ASSUME Shaped, NEW r \in Reviews, Reads(r)
    PROVE  \E x :
        /\ review' = [review EXCEPT ![r] = x] /\ ReviewOf(x, extracted)
        /\ review[r].at = "new" /\ review[r].docs = {}
        /\ x.at = IF x.kind = "approve" THEN "version" ELSE "write"
        /\ \A d \in x.docs : /\ x.copy[d] = entry[d] /\ entry[d].text # NoText
                             /\ x.numbers[d] = version[d] + 1
        /\ UNCHANGED <<requests, entry, version, versions, trail, changes, decided,
                       blessed, raced, cut>>
<1>1. PICK kind \in {"edit", "approve", "reject", "bulk"}, ds \in SUBSET Docs :
        Read(r, kind, ds) /\ (kind # "bulk" => \E d \in Docs : ds = {d})
  <2>1. extracted \subseteq Docs
    BY DEF Shaped, TypeOK
  <2>2. CASE BulkApprovePending(r)
    BY <2>1, <2>2 DEF BulkApprovePending
  <2>3. CASE \E d \in Docs : UpdateTranslation(r, d) \/ ApproveOne(r, d) \/ RejectOne(r, d)
    BY <2>3 DEF UpdateTranslation, ApproveOne, RejectOne
  <2> QED  BY <2>2, <2>3 DEF Reads
<1> DEFINE c == [d \in ds |-> entry[d]]
           n == [d \in ds |-> version[d] + 1]
           x == [at |-> IF kind = "approve" THEN "version" ELSE "write",
                 kind |-> kind, docs |-> ds, copy |-> c,
                 text |-> TextOf[r], numbers |-> n]
<1>2. /\ entry \in [Docs -> Entry] /\ version \in [Docs -> Nat] /\ extracted \subseteq Docs
      /\ TextOf[r] \in Nat /\ TextOf[r] # NoText
  BY TranslationAssumption DEF Shaped, TypeOK, NoText
<1>3. ds \subseteq extracted /\ \A d \in ds : entry[d].text # NoText
  BY <1>1 DEF Read
<1>4. c \in [ds -> Entry] /\ n \in [ds -> Nat \ {0}]
  BY <1>2
<1>5. \A d \in ds : c[d] = entry[d] /\ n[d] = version[d] + 1
  OBVIOUS
<1>6. review' = [review EXCEPT ![r] = x] /\ review[r].at = "new"
  BY <1>1 DEF Read
<1>7. review[r].docs = {}
  BY <1>6 DEF Shaped, ReviewOf
<1> HIDE DEF c, n
<1>8. ReviewOf(x, extracted)
  BY <1>1, <1>2, <1>3, <1>4 DEF ReviewOf
<1>9. UNCHANGED <<requests, entry, version, versions, trail, changes, decided,
                  blessed, raced, cut>>
  BY <1>1 DEF Read
<1> QED  BY <1>3, <1>5, <1>6, <1>7, <1>8, <1>9

(* Steps of a review. *)
LEMMA ReviewShaped ==
    ASSUME Shaped, NEW r \in Reviews, NEW x,
           review' = [review EXCEPT ![r] = x], ReviewOf(x, extracted),
           entry' \in [Docs -> Entry], version' \in [Docs -> Nat],
           \A d \in Docs : versions'[d] \in Seq(Nat \ {0}),
           trail' \in [Docs -> Nat], changes' \in [Docs -> Nat],
           decided' \in [Docs -> Entry], blessed' \subseteq Sources \X Nat,
           raced' \subseteq Docs, cut' \subseteq Docs, UNCHANGED requests
    PROVE  Shaped'
<1>1. /\ review' = [s \in Reviews |-> review'[s]]
      /\ \A s \in Reviews : ReviewOf(review'[s], extracted)
  BY ReviewSteps DEF Shaped
<1>2. TypeOK'
  <2>1. \A s \in Reviews :
           /\ review'[s].at \in {"new", "version", "write", "audit", "done"}
           /\ review'[s].kind \in {"edit", "approve", "reject", "bulk"}
           /\ review'[s].docs \subseteq extracted
           /\ review'[s].copy \in [review'[s].docs -> Entry]
    BY <1>1 DEF ReviewOf
  <2> QED  BY <2>1 DEF Shaped, TypeOK, requests
<1>3. (\A v \in Requests : request[v].at = "keep" => request[v].hit \in Docs)'
  BY DEF Shaped, requests
<1> QED  BY <1>1, <1>2, <1>3 DEF Shaped, requests, ReviewOf

LEMMA NumberIs ==
    ASSUME Shaped, NEW r \in Reviews, Number(r)
    PROVE  \E x : /\ review' = [review EXCEPT ![r] = x] /\ ReviewOf(x, extracted)
                  /\ x.at = IF review[r].kind = "approve" THEN "write" ELSE "audit"
                  /\ x.kind = review[r].kind /\ x.docs = review[r].docs
                  /\ x.copy = review[r].copy /\ x.numbers = review[r].numbers
<1> DEFINE a == IF review[r].kind = "approve" THEN "write" ELSE "audit"
           x == [review[r] EXCEPT !.at = a]
<1>1. review' = [review EXCEPT ![r] = x]
  BY DEF Number, Shaped
<1>2. ReviewOf(review[r], extracted) /\ review[r].at = "version"
  BY DEF Number, Shaped
<1>3. /\ x.at = a /\ x.kind = review[r].kind /\ x.docs = review[r].docs
      /\ x.copy = review[r].copy /\ x.numbers = review[r].numbers
      /\ x.text = review[r].text
      /\ x = [at |-> a, kind |-> review[r].kind, docs |-> review[r].docs,
              copy |-> review[r].copy, text |-> review[r].text,
              numbers |-> review[r].numbers]
  BY <1>2 DEF ReviewOf
<1> HIDE DEF x
<1>4. ReviewOf(x, extracted)
  BY <1>2, <1>3 DEF ReviewOf
<1> QED  BY <1>1, <1>3, <1>4

LEMMA NumberShaped ==
    ASSUME Shaped, NEW r \in Reviews, Number(r)
    PROVE  Shaped'
<1>1. PICK x : review' = [review EXCEPT ![r] = x] /\ ReviewOf(x, extracted)
  BY NumberIs
<1>2. /\ \A d \in Docs : versions[d] \in Seq(Nat \ {0})
      /\ review[r].docs \subseteq Docs /\ raced \subseteq Docs
      /\ review[r].numbers \in [review[r].docs -> Nat \ {0}]
  BY DEF Shaped, ReviewOf, TypeOK
<1>3. \A d \in Docs : versions'[d] \in Seq(Nat \ {0})
  BY <1>2 DEF Number, AddVersion
<1>4. raced' \subseteq Docs
  BY <1>2 DEF Number, Races
<1>5. /\ UNCHANGED <<requests, entry, version, trail, changes, decided, blessed, cut>>
      /\ entry \in [Docs -> Entry] /\ version \in [Docs -> Nat]
      /\ trail \in [Docs -> Nat] /\ changes \in [Docs -> Nat]
      /\ decided \in [Docs -> Entry] /\ blessed \subseteq Sources \X Nat /\ cut \subseteq Docs
  BY DEF Number, Shaped, TypeOK
<1> QED  BY <1>1, <1>3, <1>4, <1>5, ReviewShaped

LEMMA RecordShaped ==
    ASSUME Shaped, NEW r \in Reviews, Record(r)
    PROVE  Shaped'
<1>1. review' = [review EXCEPT ![r] = Finished] /\ ReviewOf(Finished, extracted)
  BY FinishedIs DEF Record
<1>2. trail' \in [Docs -> Nat]
  BY DEF Record, Audit, Shaped, TypeOK
<1>3. /\ UNCHANGED <<requests, entry, version, versions, changes, decided, blessed,
                     raced, cut>>
      /\ entry \in [Docs -> Entry] /\ version \in [Docs -> Nat]
      /\ \A d \in Docs : versions[d] \in Seq(Nat \ {0})
      /\ changes \in [Docs -> Nat] /\ decided \in [Docs -> Entry]
      /\ blessed \subseteq Sources \X Nat /\ raced \subseteq Docs /\ cut \subseteq Docs
  BY DEF Record, Shaped, TypeOK
<1> QED  BY <1>1, <1>2, <1>3, ReviewShaped

LEMMA CutShortShaped ==
    ASSUME Shaped, NEW r \in Reviews, CutShort(r)
    PROVE  Shaped'
<1>1. review' = [review EXCEPT ![r] = Finished] /\ ReviewOf(Finished, extracted)
  BY FinishedIs DEF CutShort
<1>2. cut' \subseteq Docs
  BY DEF CutShort, Shaped, TypeOK, ReviewOf
<1>3. /\ UNCHANGED <<requests, entry, version, versions, trail, changes, decided,
                     blessed, raced>>
      /\ entry \in [Docs -> Entry] /\ version \in [Docs -> Nat]
      /\ \A d \in Docs : versions[d] \in Seq(Nat \ {0})
      /\ trail \in [Docs -> Nat] /\ changes \in [Docs -> Nat] /\ decided \in [Docs -> Entry]
      /\ blessed \subseteq Sources \X Nat /\ raced \subseteq Docs
  BY DEF CutShort, Shaped, TypeOK
<1> QED  BY <1>1, <1>2, <1>3, ReviewShaped

LEMMA ReadShaped ==
    ASSUME Shaped, NEW r \in Reviews, Reads(r)
    PROVE  Shaped'
<1>1. PICK x : /\ review' = [review EXCEPT ![r] = x] /\ ReviewOf(x, extracted)
               /\ UNCHANGED <<requests, entry, version, versions, trail, changes,
                              decided, blessed, raced, cut>>
  BY ReadIs
<1>2. /\ entry \in [Docs -> Entry] /\ version \in [Docs -> Nat]
      /\ \A d \in Docs : versions[d] \in Seq(Nat \ {0})
      /\ trail \in [Docs -> Nat] /\ changes \in [Docs -> Nat] /\ decided \in [Docs -> Entry]
      /\ blessed \subseteq Sources \X Nat /\ raced \subseteq Docs /\ cut \subseteq Docs
  BY DEF Shaped, TypeOK
<1> QED  BY <1>1, <1>2, ReviewShaped

(* What a decision makes of an entry. *)
Outcome(r, e) ==
    [text |-> IF review[r].kind = "edit" THEN review[r].text ELSE e.text,
     status |-> CASE review[r].kind = "edit" -> e.status
                  [] review[r].kind = "reject" -> "rejected"
                  [] OTHER -> "approved"]

LEMMA OutcomeIs ==
    ASSUME Shaped, NEW r \in Reviews, NEW e \in Entry
    PROVE  /\ Outcome(r, e) \in Entry
           /\ review[r].kind = "edit" => Outcome(r, e) = [e EXCEPT !.text = review[r].text]
           /\ review[r].kind = "reject" => Outcome(r, e) = [e EXCEPT !.status = "rejected"]
           /\ review[r].kind \in {"approve", "bulk"} =>
                Outcome(r, e) = [e EXCEPT !.status = "approved"]
           /\ review[r].at = "write" /\ e.text # NoText => Outcome(r, e).text # NoText
<1>1. /\ review[r].kind \in {"edit", "approve", "reject", "bulk"}
      /\ review[r].text \in Nat
      /\ review[r].at = "write" => review[r].text # NoText
  BY DEF Shaped, ReviewOf
<1> QED  BY <1>1 DEF Outcome, Entry, Statuses

(* The update of the documents ds by r, which is x afterwards. *)
WroteAs(r, ds, x) ==
    /\ ds \subseteq review[r].docs
    /\ review[r].kind # "bulk" => ds = review[r].docs
    /\ review' = [review EXCEPT ![r] = x] /\ ReviewOf(x, extracted) /\ x.docs = ds
    /\ IF ds = {} THEN x.at = "done"
       ELSE /\ x.at = IF review[r].kind = "bulk" THEN "version" ELSE "audit"
            /\ x.kind = review[r].kind
            /\ \A d \in ds : x.numbers[d] = review[r].numbers[d]
    /\ entry' = [d \in Docs |-> IF d \in ds THEN Outcome(r, entry[d]) ELSE entry[d]]
    /\ decided' = [d \in Docs |-> IF d \in ds THEN Outcome(r, review[r].copy[d])
                                              ELSE decided[d]]
    /\ version' = Numbered(r, ds) /\ Changes(ds) /\ Races(ds, r)
    /\ blessed' = blessed \cup {<<SourceOf[d], entry'[d].text>> :
                          d \in {e \in ds : entry'[e].status = "approved"}}
    /\ UNCHANGED <<requests, versions, trail, cut>>

LEMMA WriteIs ==
    ASSUME Shaped, NEW r \in Reviews, Write(r)
    PROVE  \E ds, x : WroteAs(r, ds, x)
<1>1. PICK ds \in SUBSET review[r].docs :
        /\ review[r].kind # "bulk" => ds = review[r].docs
        /\ entry' = Left(r, ds, CHOOSE d \in review[r].docs : TRUE)
        /\ version' = Numbered(r, ds)
        /\ Changes(ds) /\ Races(ds, r)
        /\ decided' = [d \in Docs |-> IF d \in ds THEN Decision(r, d) ELSE decided[d]]
        /\ blessed' = blessed \cup {<<SourceOf[d], entry'[d].text>> :
                              d \in {e \in ds : entry'[e].status = "approved"}}
        /\ review' = [review EXCEPT ![r] = IF ds = {} THEN Finished ELSE Written(r, ds)]
  BY DEF Write
<1>2. /\ review[r].at = "write" /\ ReviewOf(review[r], extracted)
      /\ UNCHANGED <<requests, versions, trail, cut>>
      /\ entry \in [Docs -> Entry] /\ review[r].docs \subseteq Docs
      /\ review[r].copy \in [review[r].docs -> Entry]
      /\ review[r].kind \in {"edit", "approve", "reject", "bulk"}
      /\ ds \subseteq review[r].docs
  BY DEF Write, Shaped, TypeOK, ReviewOf
<1>3. \A d \in ds : Decision(r, d) = Outcome(r, review[r].copy[d])
  <2>1. \A d \in ds : review[r].copy[d] \in Entry
    BY <1>2
  <2> QED  BY <1>2, <2>1, OutcomeIs DEF Decision
<1>4. decided' = [d \in Docs |-> IF d \in ds THEN Outcome(r, review[r].copy[d])
                                             ELSE decided[d]]
  BY <1>1, <1>3
<1>5. entry' = [d \in Docs |-> IF d \in ds THEN Outcome(r, entry[d]) ELSE entry[d]]
  <2>1. CASE review[r].kind = "bulk"
    <3>1. entry' = BulkApprove(ds)
      BY <1>1, <2>1 DEF Left
    <3>2. \A d \in Docs : Outcome(r, entry[d]) = [entry[d] EXCEPT !.status = "approved"]
      BY <1>2, <2>1, OutcomeIs
    <3> QED  BY <3>1, <3>2 DEF BulkApprove
  <2>2. CASE review[r].kind # "bulk"
    <3>1. PICK d \in Docs : review[r].docs = {d}
      BY <1>2, <2>2 DEF ReviewOf
    <3>2. ds = {d} /\ d = CHOOSE e \in review[r].docs : TRUE
      BY <1>1, <2>2, <3>1
    <3>3. entry[d] \in Entry
      BY <1>2
    <3>4. entry' = [entry EXCEPT ![d] = Outcome(r, entry[d])]
      <4>1. CASE review[r].kind = "edit"
        BY <1>1, <3>2, <3>3, <4>1, OutcomeIs DEF Left, UpdateTranslationText
      <4>2. CASE review[r].kind = "reject"
        BY <1>1, <3>2, <3>3, <4>2, OutcomeIs DEF Left, RejectTranslation
      <4>3. CASE review[r].kind = "approve"
        BY <1>1, <3>2, <3>3, <4>3, OutcomeIs DEF Left, ApproveTranslation
      <4> QED  BY <1>2, <2>2, <4>1, <4>2, <4>3
    <3> QED  BY <1>2, <3>2, <3>4
  <2> QED  BY <2>1, <2>2
<1>6. CASE ds = {}
  <2>1. /\ review' = [review EXCEPT ![r] = Finished] /\ ReviewOf(Finished, extracted)
        /\ Finished.docs = ds /\ Finished.at = "done"
    BY <1>1, <1>6, FinishedIs
  <2> QED  BY <1>1, <1>2, <1>4, <1>5, <1>6, <2>1 DEF WroteAs
<1>7. CASE ds # {}
  <2> DEFINE a == IF review[r].kind = "bulk" THEN "version" ELSE "audit"
             c == [d \in ds |-> review[r].copy[d]]
             n == [d \in ds |-> review[r].numbers[d]]
             x == Written(r, ds)
  <2>1. c \in [ds -> Entry] /\ n \in [ds -> Nat \ {0}]
    BY <1>2 DEF ReviewOf
  <2>2. \A d \in ds : n[d] = review[r].numbers[d]
    OBVIOUS
  <2>3. x = [at |-> a, kind |-> review[r].kind, docs |-> ds, copy |-> c,
             text |-> review[r].text, numbers |-> n]
    BY DEF Written
  <2> HIDE DEF c, n, x
  <2>4. /\ x.at = a /\ x.kind = review[r].kind /\ x.docs = ds /\ x.copy = c
        /\ x.text = review[r].text /\ x.numbers = n
    BY <2>3
  <2>5. ReviewOf(x, extracted)
    <3>1. review[r].kind # "bulk" => \E d \in extracted : ds = {d}
      BY <1>1, <1>2 DEF ReviewOf
    <3>2. /\ ds \subseteq extracted /\ review[r].text \in Nat /\ review[r].text # NoText
          /\ a \in {"version", "audit"} /\ (a = "version" => review[r].kind = "bulk")
      BY <1>2 DEF ReviewOf
    <3> QED  BY <1>2, <2>1, <2>3, <2>4, <3>1, <3>2 DEF ReviewOf
  <2>6. review' = [review EXCEPT ![r] = x]
    BY <1>1, <1>7 DEF x
  <2>7. WroteAs(r, ds, x)
    BY <1>1, <1>2, <1>4, <1>5, <1>7, <2>2, <2>4, <2>5, <2>6 DEF WroteAs
  <2> QED  BY <2>7
<1> QED  BY <1>6, <1>7

LEMMA WriteShaped ==
    ASSUME Shaped, NEW r \in Reviews, Write(r)
    PROVE  Shaped'
<1>1. PICK ds, x : WroteAs(r, ds, x) /\ ds \subseteq review[r].docs
  BY WriteIs DEF WroteAs
<1>2. /\ entry \in [Docs -> Entry] /\ decided \in [Docs -> Entry]
      /\ review[r].copy \in [review[r].docs -> Entry]
      /\ review[r].numbers \in [review[r].docs -> Nat \ {0}]
      /\ version \in [Docs -> Nat] /\ changes \in [Docs -> Nat]
      /\ ds \subseteq Docs /\ raced \subseteq Docs /\ blessed \subseteq Sources \X Nat
      /\ \A d \in Docs : versions[d] \in Seq(Nat \ {0})
      /\ trail \in [Docs -> Nat] /\ cut \subseteq Docs
  BY <1>1 DEF Shaped, TypeOK, ReviewOf
<1>3. entry' \in [Docs -> Entry] /\ decided' \in [Docs -> Entry]
  <2>1. \A e \in Entry : Outcome(r, e) \in Entry
    BY OutcomeIs
  <2> QED  BY <1>1, <1>2, <2>1 DEF WroteAs
<1>4. version' \in [Docs -> Nat]
  BY <1>1, <1>2 DEF WroteAs, Numbered
<1>5. changes' \in [Docs -> Nat]
  BY <1>1, <1>2 DEF WroteAs, Changes
<1>6. raced' \subseteq Docs
  BY <1>1, <1>2 DEF WroteAs, Races
<1>7. blessed' \subseteq Sources \X Nat
  <2> DEFINE b == {<<SourceOf[d], entry'[d].text>> :
                       d \in {e \in ds : entry'[e].status = "approved"}}
  <2>1. \A d \in ds : <<SourceOf[d], entry'[d].text>> \in Sources \X Nat
    BY <1>2, <1>3, TranslationAssumption DEF Entry
  <2>2. b \subseteq Sources \X Nat
    BY <2>1
  <2>3. blessed' = blessed \cup b
    BY <1>1 DEF WroteAs
  <2> HIDE DEF b
  <2> QED  BY <1>2, <2>2, <2>3
<1> QED  BY <1>1, <1>2, <1>3, <1>4, <1>5, <1>6, <1>7, ReviewShaped DEF WroteAs

LEMMA SiteShaped ==
    ASSUME Shaped, SwitchSite \/ \E ds \in SUBSET Docs : ExtractItems(ds)
    PROVE  Shaped'
<1>1. CASE SwitchSite
  <2>1. site' \in [active : BOOLEAN, enabled : BOOLEAN]
    BY <1>1 DEF SwitchSite, Shaped, TypeOK
  <2>2. switches' \in Nat
    BY <1>1 DEF SwitchSite, Shaped, TypeOK
  <2>3. /\ UNCHANGED <<extracted, entry, trail, request, changes, raced, cut>>
        /\ UNCHANGED <<version, versions, review, decided, blessed>>
    BY <1>1 DEF SwitchSite, unreviewed
  <2>4. TypeOK'
    BY <2>1, <2>2, <2>3 DEF Shaped, TypeOK
  <2>5. \A r \in Reviews : ReviewOf(review'[r], extracted')
    BY <2>3 DEF Shaped
  <2> QED  BY <2>3, <2>4, <2>5 DEF Shaped
<1>2. ASSUME NEW ds \in SUBSET Docs, ExtractItems(ds)
      PROVE  Shaped'
  <2>1. /\ extracted \subseteq extracted' /\ extracted' \subseteq Docs
        /\ UNCHANGED <<site, entry, trail, request, switches, changes, raced, cut, unreviewed>>
    BY <1>2 DEF ExtractItems, UpsertSource, Shaped, TypeOK
  <2>2. \A r \in Reviews : ReviewOf(review[r], extracted')
    BY <2>1, ReviewGrows DEF Shaped
  <2>3. TypeOK'
    BY <2>1 DEF Shaped, TypeOK, unreviewed
  <2> QED  BY <2>1, <2>2, <2>3 DEF Shaped, unreviewed
<1> QED  BY <1>1, <1>2

(* The item d is e after a request v wrote it and became q. *)
PersistedAs(v, d, e, q) ==
    /\ d \in Held(v) \cap Docs
    /\ request' = [request EXCEPT ![v] = q] /\ q \in RequestType /\ q.at # "keep"
    /\ q.todo \cup q.miss \cup {q.hit} \subseteq Held(v) \cup {Nobody}
    /\ entry' = [entry EXCEPT ![d] = e] /\ e \in Entry
    /\ \/ /\ e.status = "approved" /\ e.text = request[v].text
          /\ request[v].at = "keep" /\ d = request[v].hit
          /\ \A c \in Docs : \/ q.out[c] = request[v].out[c]
                             \/ c = d /\ q.out[c] = request[v].text
       \/ /\ e.status = "pending"
          /\ \A c \in Docs : q.out[c] \in {request[v].out[c], NoText} \/ FirstParty
    /\ Changes({d}) /\ Races({d}, v)
    /\ \/ Audit({d}) /\ UNCHANGED cut
       \/ UNCHANGED trail /\ cut' = cut \cup {d}
    /\ UNCHANGED <<site, extracted, switches, unreviewed>>

LEMMA PersistDoes ==
    ASSUME Shaped, NEW v \in Requests, Keep(v) \/ \E d \in Docs : Store(v, d)
    PROVE  \E d, e, q : PersistedAs(v, d, e, q)
<1>1. PICK d \in Docs, next \in RequestType :
                /\ d \in Held(v) /\ next.at # "keep"
                /\ next.todo \cup next.miss \cup {next.hit} \subseteq Held(v) \cup {Nobody}
                /\ \/ /\ Keeps(v, d, next)
                      /\ request[v].at = "keep" /\ d = request[v].hit
                      /\ \A e \in Docs : next.out[e] \in {request[v].out[e], request[v].text}
                      /\ \A e \in Docs \ {d} : next.out[e] = request[v].out[e]
                   \/ /\ Stores(v, d, next)
                      /\ \A e \in Docs : \/ next.out[e] \in {request[v].out[e], NoText}
                                         \/ FirstParty
  BY PersistIs
<1>2. /\ request[v].text \in Nat /\ Machine \in Nat
      /\ Done(v) \in RequestType /\ Done(v).at # "keep" /\ Done(v).out = request[v].out
      /\ Done(v).todo \cup Done(v).miss \cup {Done(v).hit} \subseteq Held(v) \cup {Nobody}
  BY RequestOf, DoneType DEF Machine, RequestType
<1>3. CASE /\ Keeps(v, d, next)
           /\ request[v].at = "keep" /\ d = request[v].hit
           /\ \A e \in Docs : next.out[e] \in {request[v].out[e], request[v].text}
           /\ \A e \in Docs \ {d} : next.out[e] = request[v].out[e]
  <2> DEFINE e == [text |-> request[v].text, status |-> "approved"]
  <2>1. e \in Entry /\ e.status = "approved" /\ e.text = request[v].text
    BY <1>2 DEF Entry, Statuses
  <2>2. entry' = [entry EXCEPT ![d] = e]
    BY <1>3 DEF Keeps, Persist, SaveTranslation
  <2> HIDE DEF e
  <2>3. /\ Changes({d}) /\ Races({d}, v)
        /\ \/ Audit({d}) /\ UNCHANGED cut /\ request' = [request EXCEPT ![v] = next]
           \/ /\ UNCHANGED trail /\ cut' = cut \cup {d}
              /\ request' = [request EXCEPT ![v] = Done(v)]
        /\ UNCHANGED <<site, extracted, switches, unreviewed>>
    BY <1>3 DEF Keeps, Persist
  <2>4. \A c \in Docs : \/ next.out[c] = request[v].out[c]
                        \/ c = d /\ next.out[c] = request[v].text
    BY <1>3
  <2>5. PersistedAs(v, d, e, next) \/ PersistedAs(v, d, e, Done(v))
    BY <1>1, <1>2, <1>3, <2>1, <2>2, <2>3, <2>4 DEF PersistedAs
  <2> QED  BY <1>1, <2>5
<1>4. CASE /\ Stores(v, d, next)
           /\ \A e \in Docs : next.out[e] \in {request[v].out[e], NoText} \/ FirstParty
  <2> DEFINE e == [text |-> Machine, status |-> "pending"]
  <2>1. e \in Entry /\ e.status = "pending"
    BY <1>2 DEF Entry, Statuses
  <2>2. entry' = [entry EXCEPT ![d] = e]
    BY <1>4 DEF Stores, Persist, SaveTranslation
  <2> HIDE DEF e
  <2>3. /\ Changes({d}) /\ Races({d}, v)
        /\ \/ Audit({d}) /\ UNCHANGED cut /\ request' = [request EXCEPT ![v] = next]
           \/ /\ UNCHANGED trail /\ cut' = cut \cup {d}
              /\ request' = [request EXCEPT ![v] = Done(v)]
        /\ UNCHANGED <<site, extracted, switches, unreviewed>>
    BY <1>4 DEF Stores, Persist
  <2>5. PersistedAs(v, d, e, next) \/ PersistedAs(v, d, e, Done(v))
    BY <1>1, <1>2, <1>4, <2>1, <2>2, <2>3 DEF PersistedAs
  <2> QED  BY <1>1, <2>5
<1> QED  BY <1>1, <1>3, <1>4

(* Shaped is preserved. *)
LEMMA ShapedStep ==
    ASSUME Shaped, [Next]_vars
    PROVE  Shaped'
<1>1. CASE SwitchSite \/ \E ds \in SUBSET Docs : ExtractItems(ds)
  BY <1>1, SiteShaped
<1>2. ASSUME NEW v \in Requests, Quiet(v)
      PROVE  Shaped'
  <2>1. PICK q \in RequestType : /\ request' = [request EXCEPT ![v] = q]
                                 /\ q.at = "keep" => q.hit \in Docs
    BY <1>2, QuietIs
  <2>2. UNCHANGED <<site, extracted, entry, trail, switches, changes, raced, cut, unreviewed>>
    BY <1>2, QuietIs
  <2>3. /\ entry \in [Docs -> Entry] /\ trail \in [Docs -> Nat] /\ changes \in [Docs -> Nat]
        /\ raced \subseteq Docs /\ cut \subseteq Docs
    BY DEF Shaped, TypeOK
  <2> QED  BY <2>1, <2>2, <2>3, QuietShaped DEF unreviewed
<1>3. ASSUME NEW v \in Requests, Keep(v) \/ \E d \in Docs : Store(v, d)
      PROVE  Shaped'
  <2>1. PICK d, e, q : PersistedAs(v, d, e, q) /\ d \in Held(v) /\ d \in Docs
    BY <1>3, PersistDoes DEF PersistedAs
  <2>2. /\ entry \in [Docs -> Entry] /\ trail \in [Docs -> Nat] /\ changes \in [Docs -> Nat]
        /\ raced \subseteq Docs /\ cut \subseteq Docs
    BY DEF Shaped, TypeOK
  <2>3. entry' \in [Docs -> Entry] /\ raced' \subseteq Docs /\ cut' \subseteq Docs
    BY <2>1, <2>2 DEF PersistedAs, Races
  <2>4. trail' \in [Docs -> Nat] /\ changes' \in [Docs -> Nat]
    BY <2>1, <2>2 DEF PersistedAs, Changes, Audit
  <2> QED  BY <2>1, <2>3, <2>4, QuietShaped DEF PersistedAs, unreviewed
<1>4. CASE \E r \in Reviews : Reviewing(r)
  BY <1>4, ReadShaped, NumberShaped, WriteShaped, RecordShaped, CutShortShaped
     DEF Reviewing, Reads
<1>5. CASE UNCHANGED vars
  BY <1>5 DEF vars, Shaped, TypeOK, ReviewOf
<1>6. CASE \E v \in Requests : Generating(v)
  BY <1>2, <1>3, <1>6 DEF Generating, Quiet
<1> QED  BY <1>1, <1>4, <1>5, <1>6 DEF Next

-----------------------------------------------------------------------------
(* What the reviewers decided is preserved. *)

LEMMA NobodyIsNoItem == Nobody \notin Docs
BY TranslationAssumption

LEMMA OthersHold ==
    ASSUME Shaped
    PROVE  /\ \A v \in Requests : \A d \in Docs : \A r \in Reviews :
                /\ HeldByReview(d, v) <=> \E s \in Reviews :
                        review[s].at \in {"version", "write"} /\ d \in review[s].docs
                /\ HeldByRequest(d, r) <=> \E u \in Requests : d \in Held(u)
           /\ \A v \in Requests : \A d \in Docs :
                HeldByRequest(d, v) <=> \E u \in Requests \ {v} : d \in Held(u)
<1>1. \A v \in Requests : v \notin Reviews
  BY TranslationAssumption
<1> QED  BY <1>1 DEF HeldByReview, HeldByRequest, Held

(* Steps of a review that change no entry. *)
LEMMA DecidedReview ==
    ASSUME Shaped, Decided, NEW r \in Reviews, NEW x,
           review' = [review EXCEPT ![r] = x],
           (x.at = "write" \/ (x.at = "version" /\ x.kind = "approve")) =>
                \A d \in x.docs \ raced' :
                    x.copy[d] = entry[d] /\ entry[d].text # NoText,
           raced \subseteq raced', UNCHANGED <<request, entry, decided>>
    PROVE  Decided'
<1>1. review'[r] = x /\ \A s \in Reviews \ {r} : review'[s] = review[s]
  BY ReviewSteps
<1>2. \A s \in Reviews : Reading(s)' => \A d \in review'[s].docs \ raced' :
            review'[s].copy[d] = entry'[d] /\ entry'[d].text # NoText
  BY <1>1 DEF Decided, Reading
<1> QED  BY <1>2 DEF Decided, Held

LEMMA DecidedQuiet ==
    ASSUME Shaped, Decided, NEW v \in Requests, Quiet(v)
    PROVE  Decided'
<1>1. PICK q \in RequestType :
        /\ request' = [request EXCEPT ![v] = q]
        /\ q.todo \cup q.miss \cup {q.hit} \subseteq Held(v) \cup {Nobody} \cup Untranslated
  BY QuietIs
<1>2. UNCHANGED <<entry, review, decided, raced>>
  BY QuietIs DEF unreviewed
<1>3. \A u \in Requests : request'[u] = IF u = v THEN q ELSE request[u]
  BY <1>1, RequestOf
<1>4. \A u \in Requests : \A d \in Docs : d \in Held(u)' => d \in Held(u) \/ entry[d].text = NoText
  BY <1>1, <1>3, NobodyIsNoItem DEF Held, Untranslated
<1>5. \A u \in Requests : \A d \in Docs \ raced : d \in Held(u)' => decided[d] = NoEntry
  BY <1>4 DEF Decided
<1> QED  BY <1>2, <1>5 DEF Decided, Reading

LEMMA DecidedPersist ==
    ASSUME Shaped, Decided, NEW v \in Requests, Keep(v) \/ \E d \in Docs : Store(v, d)
    PROVE  Decided'
<1>1. PICK d, e, q : PersistedAs(v, d, e, q) /\ d \in Held(v) /\ d \in Docs
  BY PersistDoes DEF PersistedAs
<1>2. UNCHANGED <<review, decided>> /\ raced \subseteq raced'
  BY <1>1 DEF PersistedAs, unreviewed, Races
<1>3. \A c \in Docs : entry'[c] = IF c = d THEN e ELSE entry[c]
  BY <1>1, RequestOf DEF PersistedAs
<1>4. \A u \in Requests : request'[u] = IF u = v THEN q ELSE request[u]
  BY <1>1, RequestOf DEF PersistedAs
<1>5. \A u \in Requests : \A c \in Docs : c \in Held(u)' => c \in Held(u)
  BY <1>1, <1>4, NobodyIsNoItem DEF Held, PersistedAs
<1>6. d \notin raced' =>
        \A s \in Reviews : review[s].at \in {"version", "write"} => d \notin review[s].docs
  BY <1>1, OthersHold DEF PersistedAs, Races
<1>7. \A s \in Reviews : Reading(s)' => \A c \in review'[s].docs \ raced' :
            review'[s].copy[c] = entry'[c] /\ entry'[c].text # NoText
  <2>1. \A s \in Reviews : review[s].docs \subseteq Docs
    BY DEF Shaped, ReviewOf, TypeOK
  <2> QED  BY <1>2, <1>3, <1>6, <2>1 DEF Decided, Reading
<1>8. d \notin raced' => decided[d] = NoEntry
  BY <1>1, <1>2 DEF Decided
<1>9. \A c \in Docs \ raced' : decided'[c] # NoEntry =>
            entry'[c] = decided'[c] /\ entry'[c].text # NoText
  BY <1>2, <1>3, <1>8 DEF Decided
<1>10. \A u \in Requests : \A c \in Docs \ raced' : c \in Held(u)' => decided'[c] = NoEntry
  BY <1>2, <1>5 DEF Decided
<1> QED  BY <1>7, <1>9, <1>10 DEF Decided

LEMMA DecidedRead ==
    ASSUME Shaped, Decided, NEW r \in Reviews, Reads(r)
    PROVE  Decided'
<1>1. PICK x : /\ review' = [review EXCEPT ![r] = x]
               /\ \A d \in x.docs : x.copy[d] = entry[d] /\ entry[d].text # NoText
               /\ UNCHANGED <<requests, entry, decided, raced>>
  BY ReadIs
<1> QED  BY <1>1, DecidedReview DEF requests

LEMMA DecidedNumber ==
    ASSUME Shaped, Decided, NEW r \in Reviews, Number(r)
    PROVE  Decided'
<1>1. PICK x : /\ review' = [review EXCEPT ![r] = x]
               /\ x.at = IF review[r].kind = "approve" THEN "write" ELSE "audit"
               /\ x.kind = review[r].kind /\ x.docs = review[r].docs
               /\ x.copy = review[r].copy
  BY NumberIs
<1>2. /\ review[r].at = "version" /\ UNCHANGED <<requests, entry, decided>>
      /\ raced \subseteq raced'
  BY DEF Number, Races
<1>3. review[r].kind = "approve" =>
        \A d \in x.docs \ raced' : x.copy[d] = entry[d] /\ entry[d].text # NoText
  BY <1>1, <1>2 DEF Decided, Reading
<1> QED  BY <1>1, <1>2, <1>3, DecidedReview DEF requests

LEMMA DecidedWrite ==
    ASSUME Shaped, Decided, NEW r \in Reviews, Write(r)
    PROVE  Decided'
<1>1. PICK ds, x : WroteAs(r, ds, x) /\ ds \subseteq review[r].docs
  BY WriteIs DEF WroteAs
<1>2. review'[r] = x /\ \A s \in Reviews \ {r} : review'[s] = review[s]
  BY <1>1, ReviewSteps DEF WroteAs
<1>3. /\ review[r].at = "write" /\ ds \subseteq Docs
      /\ \A s \in Reviews : review[s].docs \subseteq Docs
      /\ entry \in [Docs -> Entry]
  BY <1>1 DEF Write, Shaped, ReviewOf, TypeOK
<1>4. /\ raced \subseteq raced' /\ UNCHANGED request
      /\ \A d \in Docs : entry'[d] = IF d \in ds THEN Outcome(r, entry[d]) ELSE entry[d]
      /\ \A d \in Docs : decided'[d] = IF d \in ds THEN Outcome(r, review[r].copy[d])
                                                   ELSE decided[d]
  BY <1>1 DEF WroteAs, Races, requests
<1>5. ~ Reading(r)'
  BY <1>1, <1>2 DEF WroteAs, Reading
<1>6. \A d \in ds \ raced' :
        /\ \A u \in Requests : d \notin Held(u)
        /\ \A s \in Reviews \ {r} : review[s].at \in {"version", "write"} =>
                d \notin review[s].docs
  BY <1>1, <1>3, OthersHold DEF WroteAs, Races, HeldByReview
<1>7. \A s \in Reviews : Reading(s)' => \A d \in review'[s].docs \ raced' :
            review'[s].copy[d] = entry'[d] /\ entry'[d].text # NoText
  BY <1>2, <1>3, <1>4, <1>5, <1>6 DEF Decided, Reading
<1>8. \A d \in ds \ raced' : review[r].copy[d] = entry[d] /\ entry[d].text # NoText
  BY <1>1, <1>3, <1>4 DEF Decided, Reading
<1>9. \A d \in ds \ raced' : entry'[d] = decided'[d] /\ entry'[d].text # NoText
  <2>1. \A d \in ds : entry[d] \in Entry
    BY <1>3
  <2> QED  BY <1>3, <1>4, <1>8, <2>1, OutcomeIs
<1>10. \A d \in Docs \ raced' : decided'[d] # NoEntry =>
            entry'[d] = decided'[d] /\ entry'[d].text # NoText
  BY <1>4, <1>9 DEF Decided
<1>11. \A u \in Requests : \A d \in Docs \ raced' : d \in Held(u)' => decided'[d] = NoEntry
  BY <1>4, <1>6 DEF Decided, Held
<1> QED  BY <1>7, <1>10, <1>11 DEF Decided

LEMMA DecidedStep ==
    ASSUME Shaped, Decided, [Next]_vars
    PROVE  Decided'
<1>1. CASE SwitchSite \/ \E ds \in SUBSET Docs : ExtractItems(ds)
  <2>1. UNCHANGED <<entry, request, raced, review, decided>>
    BY <1>1 DEF SwitchSite, ExtractItems, unreviewed
  <2> QED  BY <2>1 DEF Decided, Reading, Held
<1>2. CASE \E v \in Requests : Generating(v)
  BY <1>2, DecidedQuiet, DecidedPersist DEF Generating, Quiet
<1>3. ASSUME NEW r \in Reviews, Record(r) \/ CutShort(r)
      PROVE  Decided'
  BY <1>3, DecidedReview, FinishedIs DEF Record, CutShort, requests
<1>4. CASE \E r \in Reviews : Reviewing(r)
  BY <1>3, <1>4, DecidedRead, DecidedNumber, DecidedWrite DEF Reviewing, Reads
<1>5. CASE UNCHANGED vars
  BY <1>5 DEF vars, Decided, Reading, Held
<1> QED  BY <1>1, <1>2, <1>4, <1>5 DEF Next

-----------------------------------------------------------------------------
(* What the memory spreads stays approved. *)

LEMMA ApprovedQuiet ==
    ASSUME Shaped, Approved, NEW v \in Requests, Quiet(v)
    PROVE  Approved'
<1>1. PICK q \in RequestType :
        /\ request' = [request EXCEPT ![v] = q]
        /\ \/ q.at # "keep" /\ q.out = request[v].out
           \/ q.at # "keep" /\ \A d \in Docs : q.out[d] \in {NoText, Served(d)}
           \/ /\ q.at = "keep" /\ q.hit \in Docs /\ q.out = request[v].out
              /\ \E e \in FindExactMatch(q.hit) : q.text = entry[e].text
  BY QuietIs
<1>2. UNCHANGED <<entry, blessed>>
  BY QuietIs DEF unreviewed
<1>3. \A u \in Requests : request'[u] = IF u = v THEN q ELSE request[u]
  BY <1>1, RequestOf
<1>4. q.at = "keep" => <<SourceOf[q.hit], q.text>> \in blessed
  <2> SUFFICES ASSUME q.at = "keep" PROVE <<SourceOf[q.hit], q.text>> \in blessed
    OBVIOUS
  <2>1. PICK e \in FindExactMatch(q.hit) : q.text = entry[e].text
    BY <1>1
  <2>2. /\ e \in Docs /\ SourceOf[e] = SourceOf[q.hit] /\ entry[e].status = "approved"
    BY <2>1 DEF FindExactMatch, Same, Shaped, TypeOK
  <2> QED  BY <2>1, <2>2 DEF Approved, OnlyApproved, MemoryApproved
<1>5. \A d \in Docs : (~ FirstParty /\ q.out[d] # NoText) =>
            <<SourceOf[d], q.out[d]>> \in blessed
  <2>1. CASE q.out = request[v].out
    BY <2>1 DEF Approved, OnlyApproved, ServedApproved
  <2>2. CASE \A d \in Docs : q.out[d] \in {NoText, Served(d)}
    BY <2>2 DEF Approved, OnlyApproved, MemoryApproved, Served
  <2> QED  BY <1>1, <2>1, <2>2
<1>6. MemoryApproved'
  BY <1>2 DEF Approved, OnlyApproved, MemoryApproved
<1>7. ServedApproved'
  BY <1>2, <1>3, <1>5 DEF Approved, OnlyApproved, ServedApproved
<1> QED  BY <1>2, <1>3, <1>4, <1>6, <1>7 DEF Approved, OnlyApproved

LEMMA ApprovedPersist ==
    ASSUME Shaped, Approved, NEW v \in Requests, Keep(v) \/ \E d \in Docs : Store(v, d)
    PROVE  Approved'
<1>1. PICK d, e, q : PersistedAs(v, d, e, q) /\ d \in Docs
  BY PersistDoes DEF PersistedAs
<1>2. /\ \A u \in Requests : request'[u] = IF u = v THEN q ELSE request[u]
      /\ \A c \in Docs : entry'[c] = IF c = d THEN e ELSE entry[c]
      /\ UNCHANGED blessed /\ q.at # "keep"
  BY <1>1, RequestOf DEF PersistedAs, unreviewed
<1>3. CASE /\ e.status = "approved" /\ e.text = request[v].text
           /\ request[v].at = "keep" /\ d = request[v].hit
           /\ \A c \in Docs : \/ q.out[c] = request[v].out[c]
                              \/ c = d /\ q.out[c] = request[v].text
  <2>1. <<SourceOf[d], request[v].text>> \in blessed
    BY <1>3 DEF Approved
  <2>2. MemoryApproved'
    BY <1>2, <1>3, <2>1 DEF Approved, OnlyApproved, MemoryApproved
  <2>3. ServedApproved'
    BY <1>2, <1>3, <2>1 DEF Approved, OnlyApproved, ServedApproved
  <2> QED  BY <1>2, <2>2, <2>3 DEF Approved, OnlyApproved
<1>4. CASE /\ e.status = "pending"
           /\ \A c \in Docs : q.out[c] \in {request[v].out[c], NoText} \/ FirstParty
  <2>1. MemoryApproved'
    BY <1>2, <1>4 DEF Approved, OnlyApproved, MemoryApproved
  <2>2. ServedApproved'
    BY <1>2, <1>4 DEF Approved, OnlyApproved, ServedApproved
  <2> QED  BY <1>2, <2>1, <2>2 DEF Approved, OnlyApproved
<1> QED  BY <1>1, <1>3, <1>4 DEF PersistedAs

LEMMA ApprovedWrite ==
    ASSUME Shaped, Approved, NEW r \in Reviews, Write(r)
    PROVE  Approved'
<1>1. PICK ds, x : WroteAs(r, ds, x)
  BY WriteIs
<1>2. /\ UNCHANGED request /\ blessed \subseteq blessed'
      /\ \A d \in Docs \ ds : entry'[d] = entry[d]
      /\ \A d \in ds : entry'[d].status = "approved" =>
            <<SourceOf[d], entry'[d].text>> \in blessed'
  <2> DEFINE b == {<<SourceOf[d], entry'[d].text>> :
                       d \in {e \in ds : entry'[e].status = "approved"}}
  <2>1. blessed' = blessed \cup b
    BY <1>1 DEF WroteAs
  <2>2. \A d \in ds : entry'[d].status = "approved" =>
            <<SourceOf[d], entry'[d].text>> \in b
    OBVIOUS
  <2>3. UNCHANGED request /\ \A d \in Docs \ ds : entry'[d] = entry[d]
    BY <1>1 DEF WroteAs, requests
  <2> HIDE DEF b
  <2> QED  BY <2>1, <2>2, <2>3
<1>3. MemoryApproved'
  BY <1>2 DEF Approved, OnlyApproved, MemoryApproved
<1> QED  BY <1>2, <1>3 DEF Approved, OnlyApproved, ServedApproved

LEMMA ApprovedStep ==
    ASSUME Shaped, Approved, [Next]_vars
    PROVE  Approved'
<1>1. CASE \/ SwitchSite \/ \E ds \in SUBSET Docs : ExtractItems(ds)
           \/ \E r \in Reviews : Number(r) \/ Record(r) \/ CutShort(r)
           \/ UNCHANGED vars
  <2>1. UNCHANGED <<entry, request, blessed>>
    BY <1>1 DEF SwitchSite, ExtractItems, unreviewed, Number, Record, CutShort,
                requests, vars
  <2> QED  BY <2>1 DEF Approved, OnlyApproved, MemoryApproved, ServedApproved
<1>2. ASSUME NEW r \in Reviews, Reads(r)
      PROVE  Approved'
  <2>1. UNCHANGED <<entry, request, blessed>>
    BY <1>2, ReadIs DEF requests
  <2> QED  BY <2>1 DEF Approved, OnlyApproved, MemoryApproved, ServedApproved
<1>3. CASE \E v \in Requests : Generating(v)
  BY <1>3, ApprovedQuiet, ApprovedPersist DEF Generating, Quiet
<1>4. CASE \E r \in Reviews : Reviewing(r)
  BY <1>1, <1>2, <1>4, ApprovedWrite DEF Reviewing, Reads
<1> QED  BY <1>1, <1>3, <1>4 DEF Next

-----------------------------------------------------------------------------
(* The audit trail tells every change. *)

(* A review x has a change of d to record. *)
Owes(x, d) == /\ d \in x.docs
              /\ \/ x.at = "audit"
                 \/ x.kind = "bulk" /\ x.at = "version"

LEMMA OwingStep ==
    ASSUME Shaped, NEW r \in Reviews, NEW x, review' = [review EXCEPT ![r] = x], NEW d
    PROVE  /\ Unrecorded(d) \in Nat /\ Unrecorded(d)' \in Nat
           /\ (Owes(x, d) <=> Owes(review[r], d)) => Unrecorded(d)' = Unrecorded(d)
           /\ Owes(x, d) /\ ~ Owes(review[r], d) => Unrecorded(d)' = Unrecorded(d) + 1
           /\ ~ Owes(x, d) /\ Owes(review[r], d) => Unrecorded(d) = Unrecorded(d)' + 1
<1> DEFINE S == {s \in Reviews : Owes(review[s], d)}
           T == {s \in Reviews : Owes(review'[s], d)}
<1>1. IsFiniteSet(S) /\ IsFiniteSet(T)
  BY FS_Subset, TranslationAssumption
<1>2. Unrecorded(d) = Cardinality(S) /\ Unrecorded(d)' = Cardinality(T)
  BY DEF Unrecorded, Owes
<1>3. review'[r] = x /\ \A s \in Reviews \ {r} : review'[s] = review[s]
  BY ReviewSteps
<1>4. (Owes(x, d) <=> Owes(review[r], d)) => S = T
  BY <1>3
<1>5. Owes(x, d) /\ ~ Owes(review[r], d) => T = S \cup {r} /\ r \notin S
  BY <1>3
<1>6. ~ Owes(x, d) /\ Owes(review[r], d) => S = T \cup {r} /\ r \notin T
  BY <1>3
<1> HIDE DEF S, T
<1>7. Cardinality(S) \in Nat /\ Cardinality(T) \in Nat
  BY <1>1, FS_CardinalityType
<1>8. r \notin S => Cardinality(S \cup {r}) = Cardinality(S) + 1
  BY <1>1, FS_AddElement
<1>9. r \notin T => Cardinality(T \cup {r}) = Cardinality(T) + 1
  BY <1>1, FS_AddElement
<1> QED  BY <1>2, <1>4, <1>5, <1>6, <1>7, <1>8, <1>9

LEMMA AuditedPersist ==
    ASSUME Shaped, Audited, NEW v \in Requests, Keep(v) \/ \E d \in Docs : Store(v, d)
    PROVE  Audited'
<1>1. PICK d, e, q : PersistedAs(v, d, e, q)
  BY PersistDoes
<1>2. UNCHANGED review /\ \A c : Unrecorded(c)' = Unrecorded(c)
  BY <1>1 DEF PersistedAs, unreviewed, Unrecorded
<1>3. /\ changes \in [Docs -> Nat] /\ trail \in [Docs -> Nat]
      /\ \A c \in Docs : Unrecorded(c) \in Nat
  <2>1. \A c \in Docs : IsFiniteSet({r \in Reviews : /\ c \in review[r].docs
                                 /\ \/ review[r].at = "audit"
                                    \/ /\ review[r].kind = "bulk"
                                       /\ review[r].at = "version"})
    BY FS_Subset, TranslationAssumption
  <2>2. \A c \in Docs : Unrecorded(c) \in Nat
    BY <2>1, FS_CardinalityType DEF Unrecorded
  <2> QED  BY <2>2 DEF Shaped, TypeOK
<1>4. \A c \in Docs : changes'[c] = IF c = d THEN changes[c] + 1 ELSE changes[c]
  BY <1>1 DEF PersistedAs, Changes
<1>5. CASE Audit({d}) /\ UNCHANGED cut
  <2>1. \A c \in Docs : trail'[c] = IF c = d THEN trail[c] + 1 ELSE trail[c]
    BY <1>5 DEF Audit
  <2> QED  BY <1>2, <1>3, <1>4, <1>5, <2>1 DEF Audited, AuditTells
<1>6. CASE UNCHANGED trail /\ cut' = cut \cup {d}
  BY <1>2, <1>4, <1>6 DEF Audited, AuditTells
<1> QED  BY <1>1, <1>5, <1>6 DEF PersistedAs

(* Steps of a review that change nothing. *)
LEMMA AuditedReview ==
    ASSUME Shaped, Audited, NEW r \in Reviews, NEW x, review' = [review EXCEPT ![r] = x],
           UNCHANGED <<changes, trail>>, cut \subseteq cut',
           \A d \in Docs \ cut' : Owes(x, d) <=> Owes(review[r], d)
    PROVE  Audited'
<1>1. \A d \in Docs \ cut' : Unrecorded(d)' = Unrecorded(d)
  BY OwingStep
<1> QED  BY <1>1 DEF Audited, AuditTells

LEMMA AuditedWrite ==
    ASSUME Shaped, Audited, NEW r \in Reviews, Write(r)
    PROVE  Audited'
<1>1. PICK ds, x : WroteAs(r, ds, x)
  BY WriteIs
<1>2. review[r].at = "write" /\ review' = [review EXCEPT ![r] = x]
  BY <1>1 DEF Write, WroteAs
<1>3. \A d : ~ Owes(review[r], d) /\ (Owes(x, d) <=> d \in ds)
  BY <1>1, <1>2 DEF Owes, WroteAs
<1>4. \A d : /\ Unrecorded(d) \in Nat /\ Unrecorded(d)' \in Nat
             /\ Unrecorded(d)' = IF d \in ds THEN Unrecorded(d) + 1 ELSE Unrecorded(d)
  BY <1>2, <1>3, OwingStep
<1>5. /\ changes \in [Docs -> Nat] /\ trail \in [Docs -> Nat] /\ UNCHANGED <<trail, cut>>
  BY <1>1 DEF Shaped, TypeOK, WroteAs
<1>6. \A d \in Docs : changes'[d] = IF d \in ds THEN changes[d] + 1 ELSE changes[d]
  BY <1>1 DEF WroteAs, Changes
<1> QED  BY <1>4, <1>5, <1>6 DEF Audited, AuditTells

LEMMA AuditedRecord ==
    ASSUME Shaped, Audited, NEW r \in Reviews, Record(r)
    PROVE  Audited'
<1>1. /\ review' = [review EXCEPT ![r] = Finished] /\ review[r].at = "audit"
      /\ UNCHANGED <<changes, cut>>
      /\ \A d \in Docs : trail'[d] = IF d \in review[r].docs THEN trail[d] + 1 ELSE trail[d]
  BY DEF Record, Audit
<1>2. \A d : ~ Owes(Finished, d) /\ (Owes(review[r], d) <=> d \in review[r].docs)
  BY <1>1, FinishedIs DEF Owes
<1>3. \A d : /\ Unrecorded(d) \in Nat /\ Unrecorded(d)' \in Nat
             /\ d \in review[r].docs => Unrecorded(d) = Unrecorded(d)' + 1
             /\ d \notin review[r].docs => Unrecorded(d)' = Unrecorded(d)
  BY <1>1, <1>2, OwingStep
<1>4. changes \in [Docs -> Nat] /\ trail \in [Docs -> Nat]
  BY DEF Shaped, TypeOK
<1> QED  BY <1>1, <1>3, <1>4 DEF Audited, AuditTells

LEMMA AuditedStep ==
    ASSUME Shaped, Audited, [Next]_vars
    PROVE  Audited'
<1>1. CASE SwitchSite \/ (\E ds \in SUBSET Docs : ExtractItems(ds)) \/ UNCHANGED vars
  <2>1. UNCHANGED <<review, changes, trail, cut>>
    BY <1>1 DEF SwitchSite, ExtractItems, unreviewed, vars
  <2> QED  BY <2>1 DEF Audited, AuditTells, Unrecorded
<1>2. ASSUME NEW v \in Requests, Quiet(v)
      PROVE  Audited'
  <2>1. UNCHANGED <<review, changes, trail, cut>>
    BY <1>2, QuietIs DEF unreviewed
  <2> QED  BY <2>1 DEF Audited, AuditTells, Unrecorded
<1>3. CASE \E v \in Requests : Generating(v)
  BY <1>2, <1>3, AuditedPersist DEF Generating, Quiet
<1>4. ASSUME NEW r \in Reviews, Reads(r)
      PROVE  Audited'
  <2>1. PICK x : /\ review' = [review EXCEPT ![r] = x] /\ review[r].at = "new"
                 /\ x.at = IF x.kind = "approve" THEN "version" ELSE "write"
                 /\ UNCHANGED <<changes, trail, cut>>
    BY <1>4, ReadIs
  <2>2. \A d : ~ Owes(x, d) /\ ~ Owes(review[r], d)
    BY <2>1 DEF Owes
  <2> QED  BY <2>1, <2>2, AuditedReview
<1>5. ASSUME NEW r \in Reviews, Number(r)
      PROVE  Audited'
  <2>1. PICK x : /\ review' = [review EXCEPT ![r] = x]
                 /\ x.at = IF review[r].kind = "approve" THEN "write" ELSE "audit"
                 /\ x.kind = review[r].kind /\ x.docs = review[r].docs
    BY <1>5, NumberIs
  <2>2. /\ review[r].at = "version" /\ review[r].kind \in {"approve", "bulk"}
        /\ UNCHANGED <<changes, trail, cut>>
    BY <1>5 DEF Number, Shaped, ReviewOf
  <2>3. \A d : Owes(x, d) <=> Owes(review[r], d)
    BY <2>1, <2>2 DEF Owes
  <2> QED  BY <2>1, <2>2, <2>3, AuditedReview
<1>6. ASSUME NEW r \in Reviews, CutShort(r)
      PROVE  Audited'
  <2>1. /\ review' = [review EXCEPT ![r] = Finished] /\ UNCHANGED <<changes, trail>>
        /\ cut' = cut \cup review[r].docs
    BY <1>6 DEF CutShort
  <2>2. \A d : ~ Owes(Finished, d) /\ (d \notin cut' => ~ Owes(review[r], d))
    BY <2>1, FinishedIs DEF Owes
  <2> QED  BY <2>1, <2>2, AuditedReview
<1>7. CASE \E r \in Reviews : Reviewing(r)
  BY <1>4, <1>5, <1>6, <1>7, AuditedWrite, AuditedRecord DEF Reviewing, Reads
<1> QED  BY <1>1, <1>3, <1>7 DEF Next

-----------------------------------------------------------------------------
(* The numbers of the versions. *)

LEMMA NumberTypes ==
    ASSUME Shaped
    PROVE  /\ version \in [Docs -> Nat]
           /\ \A d \in Docs : versions[d] \in Seq(Nat \ {0})
           /\ \A d \in Docs : \A i \in DOMAIN versions[d] : versions[d][i] \in Nat
           /\ \A r \in Reviews : /\ review[r].docs \subseteq Docs
                                 /\ \A d \in review[r].docs : review[r].numbers[d] \in Nat
<1>1. /\ version \in [Docs -> Nat] /\ extracted \subseteq Docs
      /\ \A d \in Docs : versions[d] \in Seq(Nat \ {0})
      /\ \A r \in Reviews : review[r].docs \subseteq extracted
      /\ \A r \in Reviews : review[r].numbers \in [review[r].docs -> Nat \ {0}]
  BY DEF Shaped, TypeOK, ReviewOf
<1> QED  BY <1>1

(* Nothing is numbered. *)
LEMMA NumbersFrame ==
    ASSUME Numbers, UNCHANGED <<version, versions, review>>,
           raced \subseteq raced', cut \subseteq cut'
    PROVE  Numbers'
<1>1. Bounded' /\ NextNumber'
  BY DEF Numbers, Bounded, NextNumber, Approving, Reading
<1>2. BulkNumber' /\ Inserted'
  BY DEF Numbers, BulkNumber, Inserted, Approving, Numbering
<1>3. Recorded' /\ VersionsDistinct'
  BY DEF Numbers, Recorded, VersionsDistinct, Numbering
<1> QED  BY <1>1, <1>2, <1>3 DEF Numbers

(* Nothing is numbered by the step of a review. *)
LEMMA NumbersReview ==
    ASSUME Shaped, Numbers, NEW r \in Reviews, NEW x, review' = [review EXCEPT ![r] = x],
           UNCHANGED <<version, versions>>, raced \subseteq raced', cut \subseteq cut',
           Approving(r) \/ Numbering(r) => review[r].docs \subseteq cut',
           (x.at = "write" \/ (x.at = "version" /\ x.kind = "approve")) =>
                \A d \in x.docs \ raced' : x.numbers[d] = version[d] + 1,
           x.at = "write" => x.kind # "approve",
           x.at = "version" => x.kind # "bulk"
    PROVE  Numbers'
<1>1. review'[r] = x /\ \A s \in Reviews \ {r} : review'[s] = review[s]
  BY ReviewSteps
<1>2. Bounded'
  <2> SUFFICES ASSUME NEW d \in Docs \ (raced' \cup cut'), NEW i \in DOMAIN versions[d],
                      ~ versions[d][i] <= version[d]
               PROVE  \E s \in Reviews : /\ Approving(s)' /\ d \in review'[s].docs
                                         /\ versions[d][i] = review'[s].numbers[d]
    BY DEF Bounded
  <2>1. PICK s \in Reviews : /\ Approving(s) /\ d \in review[s].docs
                             /\ versions[d][i] = review[s].numbers[d]
    BY DEF Numbers, Bounded
  <2>2. s # r
    BY <2>1
  <2> QED  BY <1>1, <2>1, <2>2 DEF Approving
<1>3. NextNumber'
  BY <1>1 DEF Numbers, NextNumber, Reading
<1>4. BulkNumber' /\ Inserted'
  BY <1>1 DEF Numbers, BulkNumber, Inserted, Numbering, Approving
<1>5. Recorded'
  <2> SUFFICES ASSUME NEW d \in Docs \ cut', version[d] # 0,
                      ~ \E i \in DOMAIN versions[d] : versions[d][i] = version[d]
               PROVE  \E s \in Reviews : /\ Numbering(s)' /\ d \in review'[s].docs
                                         /\ review'[s].numbers[d] = version[d]
    BY DEF Recorded
  <2>1. PICK s \in Reviews : /\ Numbering(s) /\ d \in review[s].docs
                             /\ review[s].numbers[d] = version[d]
    BY DEF Numbers, Recorded
  <2>2. s # r
    BY <2>1
  <2> QED  BY <1>1, <2>1, <2>2 DEF Numbering
<1>6. VersionsDistinct'
  BY DEF Numbers, VersionsDistinct
<1> QED  BY <1>2, <1>3, <1>4, <1>5, <1>6 DEF Numbers

LEMMA NumbersRead ==
    ASSUME Shaped, Numbers, NEW r \in Reviews, Reads(r)
    PROVE  Numbers'
<1>1. PICK x : /\ review' = [review EXCEPT ![r] = x] /\ review[r].at = "new"
               /\ x.at = IF x.kind = "approve" THEN "version" ELSE "write"
               /\ \A d \in x.docs : x.numbers[d] = version[d] + 1
               /\ UNCHANGED <<version, versions, raced, cut>>
  BY ReadIs
<1> QED  BY <1>1, NumbersReview DEF Approving, Numbering

LEMMA NumbersEnd ==
    ASSUME Shaped, Numbers, NEW r \in Reviews, Record(r) \/ CutShort(r)
    PROVE  Numbers'
<1>1. /\ review' = [review EXCEPT ![r] = Finished]
      /\ UNCHANGED <<version, versions, raced>> /\ cut \subseteq cut'
      /\ review[r].at = "audit" \/ review[r].docs \subseteq cut'
  BY DEF Record, CutShort
<1> QED  BY <1>1, FinishedIs, NumbersReview DEF Approving, Numbering

(* What add_version does to the versions of the documents of r. *)
LEMMA AddedVersions ==
    ASSUME Shaped, NEW r \in Reviews, Number(r), NEW d \in Docs
    PROVE  /\ d \notin review[r].docs => versions'[d] = versions[d]
           /\ d \in review[r].docs =>
                /\ \A i \in DOMAIN versions'[d] :
                      \/ i \in DOMAIN versions[d] /\ versions'[d][i] = versions[d][i]
                      \/ /\ i = Len(versions[d]) + 1 /\ i \notin DOMAIN versions[d]
                         /\ versions'[d][i] = review[r].numbers[d]
                /\ \E i \in DOMAIN versions'[d] : versions'[d][i] = review[r].numbers[d]
           /\ \A i \in DOMAIN versions[d] :
                i \in DOMAIN versions'[d] /\ versions'[d][i] = versions[d][i]
<1>1. versions'[d] = IF d \in review[r].docs THEN Append(versions[d], review[r].numbers[d])
                                             ELSE versions[d]
  BY DEF Number, AddVersion
<1>2. versions[d] \in Seq(Nat \ {0})
  BY NumberTypes
<1>3. CASE d \in review[r].docs
  <2> DEFINE n == review[r].numbers[d]
  <2>1. versions'[d] = Append(versions[d], n)
    BY <1>1, <1>3
  <2>2. n \in Nat \ {0}
    BY <1>3 DEF Shaped, ReviewOf
  <2> HIDE DEF n
  <2>3. /\ Len(versions[d]) \in Nat /\ DOMAIN versions[d] = 1..Len(versions[d])
        /\ DOMAIN versions'[d] = 1..(Len(versions[d]) + 1)
        /\ \A i \in 1..Len(versions[d]) : versions'[d][i] = versions[d][i]
        /\ versions'[d][Len(versions[d]) + 1] = n
    BY <1>2, <2>1, <2>2
  <2>4. /\ \A i \in DOMAIN versions'[d] :
              \/ i \in DOMAIN versions[d] /\ versions'[d][i] = versions[d][i]
              \/ /\ i = Len(versions[d]) + 1 /\ i \notin DOMAIN versions[d]
                 /\ versions'[d][i] = n
        /\ Len(versions[d]) + 1 \in DOMAIN versions'[d]
        /\ \A i \in DOMAIN versions[d] : i \in DOMAIN versions'[d]
    BY <2>3
  <2> QED  BY <1>3, <2>3, <2>4 DEF n
<1>4. CASE d \notin review[r].docs
  BY <1>1, <1>4
<1> QED  BY <1>3, <1>4

LEMMA NumbersNumber ==
    ASSUME Shaped, Numbers, NEW r \in Reviews, Number(r)
    PROVE  Numbers'
<1>1. PICK x : /\ review' = [review EXCEPT ![r] = x]
               /\ x.at = IF review[r].kind = "approve" THEN "write" ELSE "audit"
               /\ x.kind = review[r].kind /\ x.docs = review[r].docs
               /\ x.numbers = review[r].numbers
  BY NumberIs
<1>2. review'[r] = x /\ \A s \in Reviews \ {r} : review'[s] = review[s]
  BY <1>1, ReviewSteps
<1>3. /\ review[r].at = "version" /\ review[r].kind \in {"approve", "bulk"}
      /\ raced \subseteq raced' /\ UNCHANGED <<version, cut>>
      /\ review[r].docs \subseteq Docs
  BY NumberTypes DEF Number, Races, Shaped, ReviewOf
<1>4. \A d \in review[r].docs \ raced' : \A s \in Reviews \ {r} :
            review[s].at \in {"version", "write"} => d \notin review[s].docs
  BY <1>3 DEF Number, Races, HeldByReview
<1>5. \A d \in review[r].docs \ (raced' \cup cut) : \A i \in DOMAIN versions[d] :
            versions[d][i] < review[r].numbers[d] /\ versions[d][i] \in Nat
  <2> SUFFICES ASSUME NEW d \in review[r].docs \ (raced' \cup cut),
                      NEW i \in DOMAIN versions[d]
               PROVE  versions[d][i] < review[r].numbers[d] /\ versions[d][i] \in Nat
    OBVIOUS
  <2>1. /\ d \in Docs \ (raced \cup cut) /\ version[d] \in Nat
        /\ versions[d][i] \in Nat
    BY <1>3, NumberTypes
  <2>2. CASE review[r].kind = "bulk"
    BY <1>3, <2>1, <2>2 DEF Numbers, BulkNumber, Numbering
  <2>3. CASE review[r].kind = "approve"
    <3>1. review[r].numbers[d] = version[d] + 1
      BY <1>3, <2>1, <2>3 DEF Numbers, NextNumber, Reading
    <3>2. \A s \in Reviews : Approving(s) => d \notin review[s].docs
      BY <1>3, <1>4 DEF Approving
    <3>3. versions[d][i] <= version[d]
      BY <2>1, <3>2 DEF Numbers, Bounded
    <3> QED  BY <2>1, <3>1, <3>3
  <2> QED  BY <1>3, <2>2, <2>3
<1>6. Bounded'
  <2> SUFFICES ASSUME NEW d \in Docs \ (raced' \cup cut'), NEW i \in DOMAIN versions'[d]
               PROVE  \/ versions'[d][i] <= version'[d]
                      \/ \E s \in Reviews : /\ Approving(s)' /\ d \in review'[s].docs
                                            /\ versions'[d][i] = review'[s].numbers[d]
    BY DEF Bounded
  <2>1. version[d] \in Nat /\ d \notin raced \cup cut
    BY <1>3, NumberTypes
  <2>2. CASE i \in DOMAIN versions[d] /\ versions'[d][i] = versions[d][i]
    <3>1. CASE versions[d][i] <= version[d]
      BY <1>3, <2>2, <3>1
    <3>2. CASE ~ versions[d][i] <= version[d]
      <4>1. PICK s \in Reviews : /\ Approving(s) /\ d \in review[s].docs
                                 /\ versions[d][i] = review[s].numbers[d]
        BY <2>1, <2>2, <3>2 DEF Numbers, Bounded
      <4>2. s # r
        BY <1>3, <4>1 DEF Approving
      <4> QED  BY <1>2, <2>2, <4>1, <4>2 DEF Approving
    <3> QED  BY <3>1, <3>2
  <2>3. CASE d \in review[r].docs /\ versions'[d][i] = review[r].numbers[d]
    <3>1. CASE review[r].kind = "approve"
      BY <1>1, <1>2, <2>3, <3>1 DEF Approving
    <3>2. CASE review[r].kind = "bulk"
      BY <1>3, <2>1, <2>3, <3>2 DEF Numbers, BulkNumber, Numbering
    <3> QED  BY <1>3, <3>1, <3>2
  <2> QED  BY <2>2, <2>3, AddedVersions
<1>7. NextNumber'
  BY <1>1, <1>2, <1>3 DEF Numbers, NextNumber, Reading
<1>8. BulkNumber'
  <2> SUFFICES ASSUME NEW s \in Reviews, Numbering(s)',
                      NEW d \in review'[s].docs \ (raced' \cup cut')
               PROVE  /\ review'[s].numbers[d] = version'[d]
                      /\ \A i \in DOMAIN versions'[d] : versions'[d][i] < version'[d]
    BY DEF BulkNumber
  <2>1. s # r /\ review'[s] = review[s] /\ Numbering(s)
    BY <1>1, <1>2 DEF Numbering
  <2>2. d \in Docs /\ d \notin review[r].docs
    BY <1>4, <2>1, NumberTypes DEF Numbering
  <2>3. versions'[d] = versions[d]
    BY <2>2, AddedVersions
  <2> QED  BY <1>3, <2>1, <2>3 DEF Numbers, BulkNumber
<1>9. Inserted'
  <2> SUFFICES ASSUME NEW s \in Reviews, Approving(s)', NEW d \in review'[s].docs
               PROVE  \E i \in DOMAIN versions'[d] : versions'[d][i] = review'[s].numbers[d]
    BY DEF Inserted
  <2>1. CASE s = r
    BY <1>1, <1>2, <1>3, <2>1, AddedVersions
  <2>2. CASE s # r
    <3>1. review'[s] = review[s] /\ Approving(s) /\ d \in Docs
      BY <1>2, <2>2, NumberTypes DEF Approving
    <3>2. PICK i \in DOMAIN versions[d] : versions[d][i] = review[s].numbers[d]
      BY <3>1 DEF Numbers, Inserted
    <3> QED  BY <3>1, <3>2, AddedVersions
  <2> QED  BY <2>1, <2>2
<1>10. Recorded'
  <2> SUFFICES ASSUME NEW d \in Docs \ cut', version'[d] # 0
               PROVE  \/ \E i \in DOMAIN versions'[d] : versions'[d][i] = version'[d]
                      \/ \E s \in Reviews : /\ Numbering(s)' /\ d \in review'[s].docs
                                            /\ review'[s].numbers[d] = version'[d]
    BY DEF Recorded
  <2>1. CASE \E i \in DOMAIN versions[d] : versions[d][i] = version[d]
    BY <1>3, <2>1, AddedVersions
  <2>2. CASE \E s \in Reviews : /\ Numbering(s) /\ d \in review[s].docs
                                /\ review[s].numbers[d] = version[d]
    <3>1. PICK s \in Reviews : /\ Numbering(s) /\ d \in review[s].docs
                               /\ review[s].numbers[d] = version[d]
      BY <2>2
    <3>2. CASE s = r
      BY <1>3, <3>1, <3>2, AddedVersions
    <3>3. CASE s # r
      BY <1>2, <1>3, <3>1, <3>3 DEF Numbering
    <3> QED  BY <3>2, <3>3
  <2> QED  BY <1>3, <2>1, <2>2 DEF Numbers, Recorded
<1>11. VersionsDistinct'
  <2> SUFFICES ASSUME NEW d \in Docs \ (raced' \cup cut'), NEW i \in DOMAIN versions'[d],
                      NEW j \in DOMAIN versions'[d], i # j
               PROVE  versions'[d][i] # versions'[d][j]
    BY DEF VersionsDistinct
  <2>1. CASE d \notin review[r].docs
    BY <1>3, <2>1, AddedVersions DEF Numbers, VersionsDistinct
  <2>2. CASE d \in review[r].docs
    <3>1. \A k \in DOMAIN versions[d] : versions[d][k] # review[r].numbers[d]
      <4>1. review[r].numbers[d] \in Nat
        BY <2>2, NumberTypes
      <4> QED  BY <1>3, <1>5, <2>2, <4>1
    <3>2. /\ \/ i \in DOMAIN versions[d] /\ versions'[d][i] = versions[d][i]
             \/ /\ i = Len(versions[d]) + 1 /\ i \notin DOMAIN versions[d]
                /\ versions'[d][i] = review[r].numbers[d]
          /\ \/ j \in DOMAIN versions[d] /\ versions'[d][j] = versions[d][j]
             \/ /\ j = Len(versions[d]) + 1 /\ j \notin DOMAIN versions[d]
                /\ versions'[d][j] = review[r].numbers[d]
      BY <2>2, AddedVersions
    <3>3. \A k, l \in DOMAIN versions[d] : k # l => versions[d][k] # versions[d][l]
      BY <1>3 DEF Numbers, VersionsDistinct
    <3> QED  BY <3>1, <3>2, <3>3
  <2> QED  BY <2>1, <2>2
<1> QED  BY <1>6, <1>7, <1>8, <1>9, <1>10, <1>11 DEF Numbers

LEMMA NumbersWrite ==
    ASSUME Shaped, Numbers, NEW r \in Reviews, Write(r)
    PROVE  Numbers'
<1>1. PICK ds, x : WroteAs(r, ds, x)
  BY WriteIs
<1>2. /\ review[r].at = "write" /\ review[r].kind \in {"edit", "approve", "reject", "bulk"}
      /\ ds \subseteq review[r].docs /\ review[r].docs \subseteq Docs
      /\ review[r].kind # "bulk" => ds = review[r].docs
      /\ raced \subseteq raced' /\ UNCHANGED <<versions, cut>>
  BY <1>1, NumberTypes DEF Write, WroteAs, Races, Shaped, ReviewOf
<1>3. /\ review'[r] = x /\ x.docs = ds
      /\ \A s \in Reviews \ {r} : review'[s] = review[s]
  BY <1>1, ReviewSteps DEF WroteAs
<1>4. /\ ~ Approving(r)' /\ ~ Reading(r)' /\ ~ Numbering(r)
      /\ Numbering(r)' => ds # {} /\ review[r].kind = "bulk"
      /\ ds # {} /\ review[r].kind = "bulk" => Numbering(r)'
      /\ \A d \in ds : review'[r].numbers[d] = review[r].numbers[d]
  BY <1>1, <1>2, <1>3 DEF Approving, Reading, Numbering, WroteAs
<1>5. \A d \in ds \ raced' : \A s \in Reviews \ {r} :
            review[s].at \in {"version", "write"} => d \notin review[s].docs
  BY <1>1 DEF WroteAs, Races, HeldByReview
<1>6. \A d \in Docs : version'[d] =
            IF d \in ds /\ review[r].kind \in {"approve", "bulk"}
            THEN review[r].numbers[d] ELSE version[d]
  BY <1>1 DEF WroteAs, Numbered
<1>7. \A d \in ds \ raced : /\ review[r].numbers[d] = version[d] + 1
                            /\ version[d] \in Nat
  BY <1>2, NumberTypes DEF Numbers, NextNumber, Reading
<1>8. Bounded'
  <2> SUFFICES ASSUME NEW d \in Docs \ (raced' \cup cut'), NEW i \in DOMAIN versions[d]
               PROVE  \/ versions[d][i] <= version'[d]
                      \/ \E s \in Reviews : /\ Approving(s)' /\ d \in review'[s].docs
                                            /\ versions[d][i] = review'[s].numbers[d]
    BY <1>2 DEF Bounded
  <2>1. version[d] \in Nat /\ d \notin raced \cup cut /\ versions[d][i] \in Nat
    BY <1>2, NumberTypes
  <2>2. CASE versions[d][i] <= version[d]
    BY <1>2, <1>6, <1>7, <2>1, <2>2
  <2>3. CASE ~ versions[d][i] <= version[d]
    <3>1. PICK s \in Reviews : /\ Approving(s) /\ d \in review[s].docs
                               /\ versions[d][i] = review[s].numbers[d]
      BY <2>1, <2>3 DEF Numbers, Bounded
    <3>2. CASE s = r
      BY <1>2, <1>6, <2>1, <3>1, <3>2 DEF Approving
    <3>3. CASE s # r
      BY <1>3, <3>1, <3>3 DEF Approving
    <3> QED  BY <3>2, <3>3
  <2> QED  BY <2>2, <2>3
<1>9. NextNumber'
  <2> SUFFICES ASSUME NEW s \in Reviews, Reading(s)', NEW d \in review'[s].docs \ raced'
               PROVE  review'[s].numbers[d] = version'[d] + 1
    BY DEF NextNumber
  <2>1. s # r /\ review'[s] = review[s] /\ Reading(s)
    BY <1>3, <1>4 DEF Reading
  <2>2. d \in Docs /\ d \notin ds
    BY <1>5, <2>1, NumberTypes DEF Reading
  <2> QED  BY <1>2, <1>6, <2>1, <2>2 DEF Numbers, NextNumber
<1>10. BulkNumber'
  <2> SUFFICES ASSUME NEW s \in Reviews, Numbering(s)',
                      NEW d \in review'[s].docs \ (raced' \cup cut')
               PROVE  /\ review'[s].numbers[d] = version'[d]
                      /\ \A i \in DOMAIN versions[d] : versions[d][i] < version'[d]
    BY <1>2 DEF BulkNumber
  <2>1. CASE s = r
    <3>1. /\ d \in ds /\ d \in Docs \ (raced \cup cut)
          /\ version'[d] = review[r].numbers[d] /\ review[r].numbers[d] = version[d] + 1
          /\ version[d] \in Nat /\ review'[s].numbers[d] = version'[d]
      BY <1>2, <1>3, <1>4, <1>6, <1>7, <2>1
    <3>2. \A t \in Reviews : Approving(t) => d \notin review[t].docs
      BY <1>2, <1>4, <1>5, <2>1, <3>1 DEF Approving
    <3>3. \A i \in DOMAIN versions[d] : versions[d][i] <= version[d] /\ versions[d][i] \in Nat
      BY <3>1, <3>2, NumberTypes DEF Numbers, Bounded
    <3> QED  BY <3>1, <3>3
  <2>2. CASE s # r
    <3>1. review'[s] = review[s] /\ Numbering(s)
      BY <1>3, <2>2 DEF Numbering
    <3>2. d \in Docs /\ d \notin ds
      BY <1>5, <2>2, <3>1, NumberTypes DEF Numbering
    <3> QED  BY <1>2, <1>6, <3>1, <3>2 DEF Numbers, BulkNumber
  <2> QED  BY <2>1, <2>2
<1>11. Inserted'
  BY <1>2, <1>3, <1>4 DEF Numbers, Inserted, Approving
<1>12. Recorded'
  <2> SUFFICES ASSUME NEW d \in Docs \ cut', version'[d] # 0
               PROVE  \/ \E i \in DOMAIN versions[d] : versions[d][i] = version'[d]
                      \/ \E s \in Reviews : /\ Numbering(s)' /\ d \in review'[s].docs
                                            /\ review'[s].numbers[d] = version'[d]
    BY <1>2 DEF Recorded
  <2>1. CASE d \in ds /\ review[r].kind = "approve"
    BY <1>2, <1>6, <2>1 DEF Numbers, Inserted, Approving
  <2>2. CASE d \in ds /\ review[r].kind = "bulk"
    BY <1>3, <1>4, <1>6, <2>2
  <2>3. CASE ~ (d \in ds /\ review[r].kind \in {"approve", "bulk"})
    <3>1. version'[d] = version[d] /\ d \notin cut
      BY <1>2, <1>6, <2>3
    <3>2. \A s \in Reviews : Numbering(s) => Numbering(s)' /\ review'[s] = review[s]
      BY <1>3, <1>4 DEF Numbering
    <3> QED  BY <3>1, <3>2 DEF Numbers, Recorded
  <2> QED  BY <2>1, <2>2, <2>3
<1>13. VersionsDistinct'
  BY <1>2 DEF Numbers, VersionsDistinct
<1> QED  BY <1>8, <1>9, <1>10, <1>11, <1>12, <1>13 DEF Numbers

LEMMA NumbersStep ==
    ASSUME Shaped, Numbers, [Next]_vars
    PROVE  Numbers'
<1>1. CASE SwitchSite \/ (\E ds \in SUBSET Docs : ExtractItems(ds)) \/ UNCHANGED vars
  <2>1. UNCHANGED <<version, versions, review, raced, cut>>
    BY <1>1 DEF SwitchSite, ExtractItems, unreviewed, vars
  <2> QED  BY <2>1, NumbersFrame
<1>2. ASSUME NEW v \in Requests, Quiet(v)
      PROVE  Numbers'
  <2>1. UNCHANGED <<version, versions, review, raced, cut>>
    BY <1>2, QuietIs DEF unreviewed
  <2> QED  BY <2>1, NumbersFrame
<1>3. ASSUME NEW v \in Requests, Keep(v) \/ \E d \in Docs : Store(v, d)
      PROVE  Numbers'
  <2>1. PICK d, e, q : PersistedAs(v, d, e, q)
    BY <1>3, PersistDoes
  <2>2. UNCHANGED <<version, versions, review>> /\ raced \subseteq raced' /\ cut \subseteq cut'
    BY <2>1 DEF PersistedAs, unreviewed, Races
  <2> QED  BY <2>2, NumbersFrame
<1>4. CASE \E v \in Requests : Generating(v)
  BY <1>2, <1>3, <1>4 DEF Generating, Quiet
<1>5. CASE \E r \in Reviews : Reviewing(r)
  BY <1>5, NumbersRead, NumbersNumber, NumbersWrite, NumbersEnd DEF Reviewing, Reads
<1> QED  BY <1>1, <1>4, <1>5 DEF Next

-----------------------------------------------------------------------------
LEMMA IInvInit == Init => IInv
<1> SUFFICES ASSUME Init PROVE IInv
  OBVIOUS
<1>0. /\ \A v \in Requests : request[v] = New
      /\ \A r \in Reviews : review[r] = NewReview
      /\ \A d \in Docs : /\ versions[d] = <<>> /\ version[d] = 0 /\ entry[d] = NoEntry
                         /\ decided[d] = NoEntry /\ trail[d] = 0 /\ changes[d] = 0
      /\ review = [r \in Reviews |-> NewReview]
  BY DEF Init
<1>1. /\ New \in RequestType /\ NoEntry \in Entry
      /\ New.at = "new" /\ New.hit = Nobody /\ New.todo = {} /\ New.miss = {}
      /\ \A d \in Docs : New.out[d] = NoText
  BY DEF New, RequestType, NoEntry, NoText, Entry, Statuses
<1>2. /\ ReviewOf(NewReview, extracted) /\ NewReview.at = "new" /\ NewReview.docs = {}
  BY FinishedIs DEF NewReview
<1>3. Shaped
  <2>1. \A r \in Reviews :
        /\ review[r].at \in {"new", "version", "write", "audit", "done"}
        /\ review[r].kind \in {"edit", "approve", "reject", "bulk"}
        /\ review[r].docs \subseteq extracted
        /\ review[r].copy \in [review[r].docs -> Entry]
    BY <1>0, <1>2 DEF ReviewOf
  <2>2. request \in [Requests -> RequestType]
    BY <1>1 DEF Init
  <2>3. TypeOK
    BY <1>0, <1>1, <2>1, <2>2 DEF Init, TypeOK, RequestType
  <2> QED  BY <1>0, <1>1, <1>2, <2>3 DEF Shaped
<1>4. Decided
  BY <1>0, <1>1, <1>2, NobodyIsNoItem DEF Decided, Reading, Held
<1>5. Approved
  BY <1>0, <1>1 DEF Approved, OnlyApproved, MemoryApproved, ServedApproved, NoEntry
<1>6. Numbers
  BY <1>0, <1>2 DEF Numbers, Bounded, NextNumber, BulkNumber, Inserted, Recorded,
                    VersionsDistinct, Approving, Numbering, Reading
<1>7. Audited
  <2>1. \A d \in Docs : {r \in Reviews : /\ d \in review[r].docs
                                         /\ \/ review[r].at = "audit"
                                            \/ /\ review[r].kind = "bulk"
                                               /\ review[r].at = "version"} = {}
    BY <1>0, <1>2
  <2>2. \A d \in Docs : Unrecorded(d) = 0
    BY <2>1, FS_EmptySet DEF Unrecorded
  <2> QED  BY <1>0, <2>2 DEF Audited, AuditTells
<1> QED  BY <1>3, <1>4, <1>5, <1>6, <1>7 DEF IInv

LEMMA IInvStep == IInv /\ [Next]_vars => IInv'
BY ShapedStep, DecidedStep, ApprovedStep, NumbersStep, AuditedStep DEF IInv

(* The inductive invariant holds in every reachable state.                 *)
THEOREM TranslationsInvariant == Spec => []IInv
BY IInvInit, IInvStep, PTL DEF Spec

(* The history and the audit trail of an entry are complete: each change   *)
(* of an entry is recorded once and each version that a document shows is  *)
(* in its history or on its way there, unless a request was cut between    *)
(* its writes (Consistent).                                                *)
THEOREM TranslationsConsistent == Spec => []Consistent
<1>1. IInv => Consistent
  <2>1. IInv => VersionRecorded
    BY DEF IInv, Numbers, Recorded, VersionRecorded, Numbering
  <2> QED  BY <2>1 DEF IInv, Shaped, Audited, Consistent
<1> QED  BY <1>1, TranslationsInvariant, PTL

(* What a reviewer decided stays, and was decided on the text that was     *)
(* read, unless a request that had read the item before wrote it.          *)
THEOREM DecisionsStay == Spec => []DecisionKept
<1>1. IInv => DecisionKept
  BY DEF IInv, Decided, DecisionKept
<1> QED  BY <1>1, TranslationsInvariant, PTL

(* The memory spreads, and visitors read, only texts some reviewer         *)
(* approved for the same source text.                                      *)
THEOREM OnlyApprovedSpreads == Spec => []OnlyApproved
<1>1. IInv => OnlyApproved
  BY DEF IInv, Approved
<1> QED  BY <1>1, TranslationsInvariant, PTL

(* The versions of an item have different numbers, unless two approvals    *)
(* overlapped or one was cut short.                                        *)
THEOREM VersionsDiffer == Spec => []VersionsDistinct
<1>1. IInv => VersionsDistinct
  BY DEF IInv, Numbers
<1> QED  BY <1>1, TranslationsInvariant, PTL
=============================================================================
