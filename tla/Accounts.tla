------------------------------ MODULE Accounts ------------------------------
(***************************************************************************)
(* The users collection: tenants, schools (users with the role             *)
(* school_admin), teachers, content creators and students, and the classes *)
(* of teachers.  Every endpoint reads, decides and writes in separate      *)
(* database calls; a request is what it has decided to write.              *)
(*                                                                         *)
(* The caller of an endpoint is the claims of a token, which stay as they  *)
(* were at the login.  Passwords are not modelled: a login succeeds when   *)
(* the lookup finds the user whose password it is.                         *)
(***************************************************************************)
EXTENDS Missing, Naturals, FiniteSets

CONSTANTS
    Tenants, Schools, People,   \* ids of documents, never used twice
    Emails, PhoneNumbers,       \* a teacher's email is his phone
    Classes,
    UserRequests,               \* requests in flight at once
    Population,                 \* the users there may be at first
    MaxRequests, MaxTokens,     \* bounds: requests in all, tokens at once
    Gone, Blank                 \* a deleted document, the school ""

Ids == Tenants \cup Schools \cup People
Roles == {"tenant", "school_admin", "teacher", "content_creator", "student"}
UserDocs ==
    [role : Roles, tenant : Tenants \cup {None}, school : Schools \cup {None, Blank},
     phone : PhoneNumbers \cup {None}, email : Emails \cup PhoneNumbers \cup {None}]
ClassDocs ==
    [teacher : People, school : Schools \cup {Blank}, students : SUBSET People]

(* Who a user is: tenants and schools are users of their own, with no      *)
(* telephone; everybody but a tenant has one; a teacher's email is his     *)
(* phone.                                                                  *)
Fits(i, d) ==
    /\ (d.role = "tenant") = (i \in Tenants)
    /\ (d.role = "school_admin") = (i \in Schools)
    /\ d.tenant = None => i \in Tenants
Ordinary(i, d) ==
    /\ d.phone # None => i \in People
    /\ d.role \in {"teacher", "content_creator"} => d.email = d.phone

(* The phone does not tell two users apart. *)
PhoneAlike(d, e) ==
    "student" \in {d.role, e.role} /\ (d.role # e.role \/ d.school # e.school)

(* Ids are of one kind.  At first each school is in itself, and phones are *)
(* distinct as the checks would have it.                                   *)
ASSUME AccountsAssumption ==
    /\ IsFiniteSet(Ids) /\ None \notin Ids \cup PhoneNumbers
    /\ Tenants \cap Schools = {} /\ Tenants \cap People = {} /\ Schools \cap People = {}
    /\ {None, Blank} \cap Schools = {} /\ Gone # None
    /\ {None, Gone} \cap (UserDocs \cup ClassDocs) = {}
    /\ MaxRequests \in Nat
    /\ \A u \in Population :
        /\ u \in [Ids -> UserDocs \cup {None}]
        /\ \A i \in Ids : u[i] # None =>
            /\ Fits(i, u[i]) /\ Ordinary(i, u[i])
            /\ i \in Schools => u[i].school = i
            /\ \A j \in Ids \ {i} :
                u[j] # None /\ u[i].phone # None /\ u[j].phone = u[i].phone
                => PhoneAlike(u[i], u[j])

VARIABLES
    user,       \* the document of each id
    class,      \* documents of classes: [teacher, school, students]
    tokens,     \* the claims of the tokens that have not expired
    pending,    \* what each request will write
    requested,      \* bound: requests so far
    emailIndex, \* migration 002 created the unique index on tenant and email
    halves,     \* history: schools whose creation was cut
    doubtful,   \* history: users whose phone no check could vouch for
    moved,      \* history: users who were transferred
    uncounted   \* history: users who came to a school while or after it was
                \* deleted; schools deleted as a member of themselves

marks == <<halves, doubtful, moved, uncounted>>
accountVars == <<user, class, tokens, pending, requested, emailIndex, marks>>

Known == {i \in Ids : user[i] \notin {None, Gone}}

(* User. *)
Doc(role, tenant, school, phone, email) ==
    [role |-> role, tenant |-> tenant, school |-> school,
     phone |-> phone, email |-> email]

Verdict(op, id, doc, seen, unsure) ==
    [op |-> op, id |-> id, doc |-> doc, seen |-> seen, unsure |-> unsure]
Decision(op, id, doc) == Verdict(op, id, doc, {}, FALSE)
Undecided == Decision("idle", None, None)

AccountsInit ==
    /\ user \in Population
    /\ class = [c \in Classes |-> None]
    /\ tokens = {} /\ pending = [r \in UserRequests |-> Undecided] /\ requested = 0
    /\ emailIndex \in BOOLEAN
    /\ halves = {} /\ doubtful = {} /\ moved = {} /\ uncounted = {}

----------------------------------------------------------------------------
(* UserRepository. *)

(* find_one takes any of the documents that match. *)
FindOne(S) == IF S = {} THEN {None} ELSE S

FindByEmail(e) == {i \in Known : user[i].email = e}
FindByEmailAndRole(e, role) == {i \in FindByEmail(e) : user[i].role = role}
FindByPhone(p) == {i \in Known : user[i].phone = p}
CountBySchoolAndRole(s, role) ==
    Cardinality({i \in Known : user[i].school = s /\ user[i].role = role})

Duplicate(i, d) ==
    emailIndex /\ d.email # None
    /\ \E j \in Known \ {i} : user[j].tenant = d.tenant /\ user[j].email = d.email

(* A school is being deleted from the first count on. *)
Deleting(s) ==
    \E r \in UserRequests : pending[r].id = s
                        /\ pending[r].op \in {"count_teachers", "count_students", "delete"}

Comes(i, s) == s \in Schools /\ (user[s] = Gone \/ Deleting(s))

(* What a write leaves behind besides the document. *)
Marked(r, i, d) ==
    /\ doubtful' = IF pending[r].unsure \/ FindByPhone(d.phone) \ ({i} \cup pending[r].seen) # {}
                   THEN doubtful \cup {i} ELSE doubtful
    /\ uncounted' = IF Comes(i, d.school) THEN uncounted \cup {i} ELSE uncounted

Responds(r) == pending' = [pending EXCEPT ![r] = Undecided]

(* create *)
InsertOne(r) ==
    LET i == pending[r].id  d == pending[r].doc
    IN  /\ pending[r].op = "create"
        /\ IF Duplicate(i, d)
           THEN Responds(r) /\ UNCHANGED <<user, doubtful, uncounted>>
           ELSE /\ user' = [user EXCEPT ![i] = d]
                /\ Marked(r, i, d)
                /\ pending' = [pending EXCEPT ![r] =
                       IF i \in Schools THEN Decision("own", i, None) ELSE Undecided]
        /\ UNCHANGED <<class, tokens, requested, emailIndex, halves, moved>>

(* update, which finds nothing when the document was deleted *)
UpdateOne(r) ==
    LET i == pending[r].id
        d == [user[i] EXCEPT ![pending[r].doc[1]] = pending[r].doc[2]]
    IN  /\ pending[r].op = "update"
        /\ IF i \in Known /\ ~ Duplicate(i, d)
           THEN user' = [user EXCEPT ![i] = d] /\ Marked(r, i, d)
           ELSE UNCHANGED <<user, doubtful, uncounted>>
        /\ moved' = IF pending[r].doc[1] = "school" THEN moved \cup {i} ELSE moved
        /\ Responds(r)
        /\ UNCHANGED <<class, tokens, requested, emailIndex, halves>>

DeleteOne(r) ==
    /\ pending[r].op = "delete"
    /\ user' = [user EXCEPT ![pending[r].id] = Gone]
    /\ uncounted' = IF pending[r].unsure THEN uncounted \cup {pending[r].id} ELSE uncounted
    /\ Responds(r)
    /\ UNCHANGED <<class, tokens, requested, emailIndex, halves, doubtful, moved>>

(* create_school, its second write: a school is in itself *)
SetOwnSchool(r) ==
    LET s == pending[r].id
    IN  /\ pending[r].op = "own"
        /\ user' = IF s \in Known THEN [user EXCEPT ![s].school = s] ELSE user
        /\ Responds(r)
        /\ UNCHANGED <<class, tokens, requested, emailIndex, marks>>

(* The process ends, or the database does not answer. *)
CutRequest(r) ==
    /\ pending[r].op # "idle" /\ Responds(r)
    /\ halves' = IF pending[r].op = "own" THEN halves \cup {pending[r].id} ELSE halves
    /\ UNCHANGED <<user, class, tokens, requested, emailIndex, doubtful, moved, uncounted>>

----------------------------------------------------------------------------
(* Logins. *)

(* The claims; a tenant is its own tenant. *)
CreateAccessToken(i) ==
    [sub |-> i, role |-> user[i].role, school |-> user[i].school,
     tenant |-> IF user[i].tenant = None THEN i ELSE user[i].tenant]

LoginUnified(i) ==
    \/ /\ user[i].role \in {"tenant", "school_admin"}
       /\ i \in FindOne(FindByEmail(user[i].email))
    \/ /\ user[i].role = "content_creator"
       /\ i \in FindOne(FindByPhone(user[i].phone))

LoginByPhone(i) ==
    /\ user[i].role \in {"teacher", "content_creator"}
    /\ i \in FindOne(FindByPhone(user[i].phone))

Login(i) ==
    /\ i \in Known
    /\ LoginUnified(i) \/ LoginByPhone(i)
    /\ requested < MaxRequests /\ Cardinality(tokens) < MaxTokens
    /\ tokens' = tokens \cup {CreateAccessToken(i)}
    /\ UNCHANGED <<user, class, pending, requested, emailIndex, marks>>

Expires(c) ==
    /\ c \in tokens /\ requested < MaxRequests /\ tokens' = tokens \ {c}
    /\ UNCHANGED <<user, class, pending, requested, emailIndex, marks>>

(* Nobody looks at the user's document. *)
GetCurrentUser(c) == c \in tokens
RequireRole(c, roles) == GetCurrentUser(c) /\ c.role \in roles

----------------------------------------------------------------------------
(* The checks of the services; each leaves the write to its request.       *)

Counted == requested < MaxRequests /\ requested' = requested + 1

Asks(r, w) ==
    /\ pending[r].op = "idle" /\ r = CHOOSE q \in UserRequests : pending[q].op = "idle"
    /\ Counted
    /\ pending' = [pending EXCEPT ![r] = w]
    /\ UNCHANGED <<user, class, tokens, emailIndex, marks>>

RegisterTenant(r, i, e) ==
    /\ FindByEmail(e) = {}
    /\ Asks(r, Decision("create", i, Doc("tenant", None, None, None, e)))

CreateSchool(r, i, e, tenant) ==
    /\ FindByEmailAndRole(e, "school_admin") = {}
    /\ Asks(r, Decision("create", i, Doc("school_admin", tenant, None, None, e)))

(* The phone of a teacher is not looked up, only his email. *)
RegisterTeacher(r, i, role, p, c) ==
    /\ FindByEmail(p) = {}
    /\ Asks(r, Verdict("create", i, Doc(role, c.tenant, c.school, p, p),
                       FindByPhone(p), FALSE))

(* found is the one document the check of a phone sees. *)
Hides(found, p, school, self) ==
    \E i \in FindByPhone(p) \ {self, found} : user[i].school = school

CreateStudent(r, i, p, school, tenant) ==
    \E found \in FindOne(FindByPhone(p)) :
        /\ found # None => user[found].school # school
        /\ Asks(r, Verdict("create", i, Doc("student", tenant, school, p, None),
                           FindByPhone(p), Hides(found, p, school, i)))

UpdateStudentUnchecked(r, i, p, school) == \* mutant: only new students are checked
    /\ i \in Known /\ user[i].school = school
    /\ Asks(r, Verdict("update", i, <<"phone", p>>, FindByPhone(p),
                       user[i].role # "student"))

UpdateStudent(r, i, p, school) ==
    /\ i \in Known /\ user[i].school = school
    /\ \E found \in FindOne(FindByPhone(p)) :
        /\ found \notin {None, i} => user[found].school # school
        /\ Asks(r, Verdict("update", i, <<"phone", p>>, FindByPhone(p),
                           user[i].role # "student" \/ Hides(found, p, school, i)))

UpdateTeacher(r, i, p, school) ==
    /\ i \in Known /\ user[i].school = school
    /\ Asks(r, Verdict("update", i, <<"phone", p>>, {}, TRUE))

DeleteTeacher(r, i, school) ==
    /\ i \in Known /\ user[i].school = school
    /\ Asks(r, Verdict("delete", i, None, {}, i \in Schools))

DeleteStudent(r, i, school) ==
    /\ i \in Known /\ user[i].school = school
    /\ Asks(r, Verdict("delete", i, None, {}, i \in Schools))

FindSchool(s, tenant) ==
    s \in Known /\ user[s].role = "school_admin" /\ user[s].tenant = tenant

UpdateSchool(r, s, e, tenant) ==
    FindSchool(s, tenant) /\ Asks(r, Decision("update", s, <<"email", e>>))

DeleteSchool(r, s, tenant) ==
    FindSchool(s, tenant) /\ Asks(r, Decision("count_teachers", s, None))

(* delete_school goes on: nothing is left to count, or it is refused. *)
Counts(r, op, role, next) ==
    /\ pending[r].op = op
    /\ pending' = [pending EXCEPT ![r] =
           IF CountBySchoolAndRole(@.id, role) = 0 THEN [@ EXCEPT !.op = next] ELSE Undecided]
    /\ UNCHANGED <<user, class, tokens, requested, emailIndex, marks>>

CountStudentsTwice(r) == \* mutant: the teachers are not counted
    \/ Counts(r, "count_teachers", "student", "count_students")
    \/ Counts(r, "count_students", "student", "delete")

CountMembers(r) ==
    \/ Counts(r, "count_teachers", "teacher", "count_students")
    \/ Counts(r, "count_students", "student", "delete")

(* Any user of the tenant may be transferred, a school too. *)
TransferTeacher(r, i, s, tenant) ==
    /\ i \in Known /\ user[i].tenant = tenant
    /\ FindSchool(s, tenant)
    /\ Asks(r, Verdict("update", i, <<"school", s>>, {}, TRUE))

----------------------------------------------------------------------------
(* The controllers. *)

Fresh(S) == {i \in S : user[i] = None /\ \A r \in UserRequests : pending[r].id # i}
OrBlank(school) == IF school = None THEN Blank ELSE school

TenantRegister(r) ==
    \E i \in Fresh(Tenants), e \in Emails : RegisterTenant(r, i, e)

PostSchool(r, c) ==
    /\ RequireRole(c, {"tenant"})
    /\ \E i \in Fresh(Schools), e \in Emails : CreateSchool(r, i, e, c.sub)

PatchSchool(r, c) ==
    /\ RequireRole(c, {"tenant"})
    /\ \E s \in Schools, e \in Emails : UpdateSchool(r, s, e, c.sub)

RemoveSchool(r, c) ==
    /\ RequireRole(c, {"tenant"})
    /\ \E s \in Schools : DeleteSchool(r, s, c.sub)

TeacherRegister(r, c) ==
    /\ RequireRole(c, {"school_admin"})
    /\ \E i \in Fresh(People), p \in PhoneNumbers, role \in {"teacher", "content_creator"} :
         RegisterTeacher(r, i, role, p, c)

PatchTeacher(r, c) ==
    /\ RequireRole(c, {"school_admin"}) /\ c.school # None
    /\ \E i \in Ids, p \in PhoneNumbers : UpdateTeacher(r, i, p, c.school)

RemoveTeacher(r, c) ==
    /\ RequireRole(c, {"school_admin"}) /\ c.school # None
    /\ \E i \in Ids : DeleteTeacher(r, i, c.school)

PostTransfer(r, c) ==
    /\ RequireRole(c, {"school_admin"})
    /\ \E i \in Ids, s \in Schools : TransferTeacher(r, i, s, c.tenant)

PostStudent(r, c) ==
    /\ RequireRole(c, {"school_admin"})
    /\ \E i \in Fresh(People), p \in PhoneNumbers :
         CreateStudent(r, i, p, OrBlank(c.school), c.tenant)

PatchStudent(r, c) ==
    /\ RequireRole(c, {"school_admin"}) /\ c.school # None
    /\ \E i \in Ids, p \in PhoneNumbers : UpdateStudent(r, i, p, c.school)

RemoveStudent(r, c) ==
    /\ RequireRole(c, {"school_admin"}) /\ c.school # None
    /\ \E i \in Ids : DeleteStudent(r, i, c.school)

(* POST /class: a class, which needs a student; or the members of one of   *)
(* the caller's, which are emptied when the body does not name them.       *)
UpsertClass(k, c) ==
    /\ RequireRole(c, {"teacher", "content_creator"})
    /\ \E members \in {{}, People} :
        \/ /\ class[k] = None /\ members # {}
           /\ class' = [class EXCEPT ![k] =
                [teacher |-> c.sub, school |-> OrBlank(c.school), students |-> members]]
        \/ /\ class[k] \notin {None, Gone} /\ class[k].teacher = c.sub
           /\ class' = [class EXCEPT ![k].students = members]
    /\ Counted /\ UNCHANGED <<user, tokens, pending, emailIndex, marks>>

RemoveClass(k, c) ==
    /\ RequireRole(c, {"teacher", "content_creator"})
    /\ class[k] \notin {None, Gone} /\ class' = [class EXCEPT ![k] = Gone]
    /\ Counted /\ UNCHANGED <<user, tokens, pending, emailIndex, marks>>

AccountsNext ==
    \/ \E i \in Ids : Login(i)
    \/ \E c \in tokens : Expires(c)
    \/ \E r \in UserRequests :
        \/ InsertOne(r) \/ UpdateOne(r) \/ DeleteOne(r) \/ SetOwnSchool(r) \/ CutRequest(r)
        \/ CountMembers(r) \/ TenantRegister(r)
        \/ \E c \in tokens :
            \/ PostSchool(r, c) \/ PatchSchool(r, c) \/ RemoveSchool(r, c)
            \/ TeacherRegister(r, c) \/ PatchTeacher(r, c) \/ RemoveTeacher(r, c)
            \/ PostTransfer(r, c) \/ PostStudent(r, c) \/ PatchStudent(r, c)
            \/ RemoveStudent(r, c)
    \/ \E k \in Classes, c \in tokens : UpsertClass(k, c) \/ RemoveClass(k, c)

AccountsSpec == AccountsInit /\ [][AccountsNext]_accountVars

----------------------------------------------------------------------------

AccountsTypeOK ==
    /\ \A i \in Known :
        /\ user[i].role \in Roles /\ user[i].tenant \in Tenants \cup {None}
        /\ user[i].school \in Schools \cup {None, Blank}
    /\ \A c \in tokens : c.sub \in Ids /\ c.role \in Roles
    /\ \A r \in UserRequests : pending[r].op \in {"idle", "create", "own", "update",
                                "delete", "count_teachers", "count_students"}
    /\ requested \in 0 .. MaxRequests

(* A school is in itself, unless its creation was cut, is under way, or it *)
(* was transferred like a teacher; only such a school has people of none.  *)
SchoolsWhole ==
    \A s \in Known \cap Schools :
        \/ user[s].school = s
        \/ s \in halves \cup moved
        \/ \E r \in UserRequests : pending[r] = Decision("own", s, None)

(* Two students of a school, or two teachers, have one phone only if no    *)
(* check could tell.                                                       *)
PhonesDistinct ==
    \A i, j \in Known : i # j /\ user[i].phone = user[j].phone /\ user[i].phone # None =>
        i \in doubtful \/ j \in doubtful \/ PhoneAlike(user[i], user[j])

(* A class is in the school of its teacher, unless he was transferred. *)
ClassesInSchool ==
    \A k \in Classes : class[k] \notin {None, Gone} =>
        \/ class[k].teacher \notin Known \/ class[k].teacher \in moved
        \/ OrBlank(user[class[k].teacher].school) = class[k].school

(* Users, schools and classes agree however requests overlap and are cut,  *)
(* but for what no check looks at.                                         *)
AccountsConsistent == AccountsTypeOK /\ SchoolsWhole /\ PhonesDistinct /\ ClassesInSchool

(* delete_school counts the teachers and the students first: nobody of     *)
(* them loses his school, but who came during the deletion or after it, or *)
(* when the school was deleted as a member of itself.                      *)
MembersKept ==
    \A i \in Known :
        user[i].role \in {"teacher", "student"} /\ user[i].school \in Schools
        /\ user[user[i].school] = Gone
        => {i, user[i].school} \cap uncounted # {}

=============================================================================
