---------------------------- MODULE LinkCatalogue ----------------------------
(***************************************************************************)
(* What users keep: their links, with the names the links answer to (a     *)
(* generated short code or a custom alias), the limits on how many there   *)
(* may be, the QR code of a link, and the tags on it.                      *)
(*                                                                         *)
(* A request is a process with one step per call of the database or of the *)
(* object store.  Status, dates, clicks and passwords are in LinkLifecycle; *)
(* that the user exists and is not blocked is in Accounts; the scan that   *)
(* creation asks for is in ScanPipeline.                                   *)
(***************************************************************************)
EXTENDS Integers, FiniteSets, Steps

CONSTANTS
    Owners,       \* the users
    Addresses,    \* the IP addresses of guests
    Links,        \* bound: the links created
    Names,        \* the short codes and aliases there are
    Tags,         \* bound: the tags created
    Tasks,        \* the requests the application can serve at one time
    FreeLimit,    \* the active links of a FREE user (25)
    GuestLimit,   \* the links of a guest in a day (5)
    MaxAttempts   \* the codes generated before giving up (5)

NoName == "none"
Gone == "gone"
KeepTags == {NoName}      \* an update that does not mention tags

ASSUME CreatorsAssumption == Owners \cap Addresses = {}
ASSUME NamesAssumption == NoName \notin Names \cup Owners \cup Addresses \cup Tags /\ Gone \notin Owners
ASSUME LimitsAssumption == FreeLimit \in Nat /\ GuestLimit \in Nat /\ MaxAttempts \in Nat

VARIABLES
    tier,         \* the subscription tier of each user
    link,         \* the rows of Link
    image,        \* the QR code stored for each link: the name it leads to
    tagOwner,     \* the rows of Tag
    task,         \* where each request stands
    (* observations of the run, read by no action *)
    reopened,     \* the users one of whose links became active again, or who were PRO
    crowded,      \* the creators two of whose creations overlapped
    given,        \* the names a user gave as an alias
    taken,        \* the names two requests were about to store at one time
    edited,       \* the links whose alias an administrator changed
    repointed       \* those whose alias changed while a QR code was made

catalogueTables == <<tier, link, image, tagOwner>>
catalogueObserved == <<reopened, crowded, given, taken, edited, repointed>>
catalogueVars == <<catalogueTables, task, catalogueObserved>>

CatalogueInit ==
    /\ tier = [o \in Owners |-> "FREE"]
    /\ link = [l \in Links |-> [state |-> "none"]]
    /\ image = [l \in Links |-> NoName]
    /\ tagOwner = [t \in Tags |-> NoName]
    /\ task = [k \in Tasks |-> Idle]
    /\ reopened = {} /\ crowded = {} /\ given = {} /\ taken = {} /\ edited = {} /\ repointed = {}

Live == {l \in Links : link[l].state = "live"}
TaskAt(k, p) == task[k].pc = p
TaskGoes(k, state) == task' = [task EXCEPT ![k] = state]
TaskOnly(k, state) ==
    TaskGoes(k, state) /\ UNCHANGED <<catalogueTables, catalogueObserved>>

(* The subscription starts or ends (Billing).                              *)
TierChanges(o) ==
    /\ tier' = [tier EXCEPT ![o] = IF @ = "FREE" THEN "PRO" ELSE "FREE"]
    /\ reopened' = reopened \cup {o}
    /\ UNCHANGED <<link, image, tagOwner, task, crowded, given, taken, edited, repointed>>

-----------------------------------------------------------------------------
(* Creation                                                                *)

(* UsageLimitGuard: the tier, ...                                          *)
BeginCreate(k, o, alias, tags) ==
    /\ TaskAt(k, "idle")
    /\ TaskOnly(k, [pc |-> IF tier[o] = "PRO" THEN "tier" ELSE "count", by |-> o,
                    alias |-> alias, code |-> NoName, tags |-> tags, tries |-> 0])

ActiveLinks(o) == {l \in Live : link[l].by = o /\ ~link[l].archived}
Counted(q, c) == task[q].pc \in {"tier", "name", "tags", "insert"} /\ task[q].by = c
Crowds(k, c) ==
    crowded' = crowded \cup {d \in {c} : \E q \in Tasks \ {k} : Counted(q, d)}

CountLinksOver(k) ==                              \* mutant: one more than the limit
    /\ TaskAt(k, "count")
    /\ TaskGoes(k, IF Cardinality(ActiveLinks(task[k].by)) > FreeLimit
                   THEN Idle ELSE [task[k] EXCEPT !.pc = "tier"])
    /\ Crowds(k, task[k].by)
    /\ UNCHANGED <<catalogueTables, reopened, given, taken, edited, repointed>>

(* ... and for a FREE user the active links.                               *)
CountLinks(k) ==
    /\ TaskAt(k, "count")
    /\ TaskGoes(k, IF Cardinality(ActiveLinks(task[k].by)) >= FreeLimit
                   THEN Idle ELSE [task[k] EXCEPT !.pc = "tier"])
    /\ Crowds(k, task[k].by)
    /\ UNCHANGED <<catalogueTables, reopened, given, taken, edited, repointed>>

(* SubscriptionTierGuard: aliases are for PRO users.                       *)
CheckTier(k) ==
    /\ TaskAt(k, "tier")
    /\ TaskOnly(k, IF task[k].alias # NoName /\ tier[task[k].by] # "PRO"
                   THEN Idle ELSE [task[k] EXCEPT !.pc = "name"])

RecentLinks(a) == {l \in Live : link[l].by = a /\ link[l].recent}

(* createGuestLink: validateGuestRateLimit.                                *)
BeginGuest(k, a) ==
    /\ TaskAt(k, "idle")
    /\ Cardinality(RecentLinks(a)) < GuestLimit
    /\ TaskGoes(k, [pc |-> "name", by |-> a, alias |-> NoName, code |-> NoName,
                    tags |-> {}, tries |-> 0])
    /\ Crowds(k, a)
    /\ UNCHANGED <<catalogueTables, reopened, given, taken, edited, repointed>>

Coded(n) == n # NoName /\ \E l \in Live : link[l].code = n
Aliased(n, except) == n # NoName /\ \E l \in Live \ except : link[l].alias = n
Named(k) == IF task[k].tags = {} THEN "insert" ELSE "tags"

(* ensureAliasAvailability                                                 *)
CheckAlias(k) ==
    /\ TaskAt(k, "name") /\ task[k].alias # NoName
    /\ TaskOnly(k, IF Aliased(task[k].alias, {}) THEN Idle
                   ELSE [task[k] EXCEPT !.pc = Named(k)])

(* Mutant: a code is compared with codes only.                             *)
AnswersByCode(n) == Coded(n)

Answers(n) == Coded(n) \/ Aliased(n, {})

(* One attempt of generateUniqueShortCode.                                 *)
Generate(k, n) ==
    /\ TaskAt(k, "name") /\ task[k].alias = NoName
    /\ TaskOnly(k, IF ~Answers(n)
                   THEN [pc |-> Named(k), by |-> task[k].by, alias |-> NoName, code |-> n,
                         tags |-> task[k].tags, tries |-> task[k].tries]
                   ELSE IF task[k].tries + 1 < MaxAttempts
                   THEN [task[k] EXCEPT !.tries = @ + 1] ELSE Idle)

(* ensureTagsBelongToUser                                                  *)
MayUse(o, tags) == \A t \in tags \ KeepTags : tagOwner[t] = o

CheckTags(k) ==
    /\ TaskAt(k, "tags")
    /\ TaskOnly(k, IF MayUse(task[k].by, task[k].tags)
                   THEN [task[k] EXCEPT !.pc = "insert"] ELSE Idle)

(* Names that requests found free and are about to store.                  *)
Claims(q) ==
    IF task[q].pc \in {"tags", "insert"} THEN {task[q].code, task[q].alias}
    ELSE IF task[q].pc \in {"retag", "modify", "edit"} THEN {task[q].alias} ELSE {}

Stores(k, n) ==
    taken' = taken \cup {m \in {n} \ {NoName} : \E q \in Tasks \ {k} : m \in Claims(q)}

TagsThere(tags) == \A t \in tags \ KeepTags : tagOwner[t] \in Owners

(* The insertion, which the unique columns, or tags that are gone, refuse. *)
Insert(k) ==
    /\ TaskAt(k, "insert")
    /\ ~Coded(task[k].code) /\ ~Aliased(task[k].alias, {}) /\ TagsThere(task[k].tags)
    /\ \E l \in Links :
          /\ link[l].state = "none"
          /\ link' = [link EXCEPT ![l] =
                [state |-> "live", by |-> task[k].by, code |-> task[k].code,
                 alias |-> task[k].alias, archived |-> FALSE, recent |-> TRUE,
                 qr |-> FALSE, tags |-> task[k].tags]]
    /\ Stores(k, IF task[k].alias = NoName THEN task[k].code ELSE task[k].alias)
    /\ given' = given \cup {n \in {task[k].alias} : Coded(n)}
    /\ TaskGoes(k, Idle)
    /\ UNCHANGED <<tier, image, tagOwner, reopened, crowded, edited, repointed>>

(* A call of the database or the object store fails, and the request.      *)
TaskFails(k) ==
    /\ ~TaskAt(k, "idle")
    /\ TaskOnly(k, Idle)

-----------------------------------------------------------------------------
(* Changes                                                                 *)

Owned(o, l) == l \in Live /\ link[l].by = o

(* updateLink: the guard of aliases, the link as it is now, ...            *)
BeginUpdate(k, o, l, alias, archived, tags) ==
    /\ TaskAt(k, "idle")
    /\ alias # NoName => tier[o] = "PRO"
    /\ Owned(o, l)
    /\ TaskOnly(k, [pc |-> IF alias = NoName THEN "retag" ELSE "alias", by |-> o,
                    link |-> l, alias |-> alias, archived |-> archived, tags |-> tags,
                    seen |-> [alias |-> link[l].alias, qr |-> link[l].qr,
                                archived |-> link[l].archived]])

CheckNewAlias(k) ==
    /\ TaskAt(k, "alias")
    /\ TaskOnly(k, IF Aliased(task[k].alias, {task[k].link}) THEN Idle
                   ELSE [task[k] EXCEPT !.pc = "retag"])

CheckNewTags(k) ==
    /\ TaskAt(k, "retag")
    /\ TaskOnly(k, IF MayUse(task[k].by, task[k].tags)
                   THEN [task[k] EXCEPT !.pc = "modify"] ELSE Idle)

MakingQr(l) == \E q \in Tasks : task[q].pc \in {"put", "url"} /\ task[q].link = l
Renaming(l) == \E q \in Tasks : task[q].pc \in {"alias", "retag", "modify"} /\ task[q].link = l
                                /\ task[q].alias # NoName

ForgetsQrNot(k) == FALSE                          \* mutant: the QR code is kept

(* The QR code is forgotten when the alias changes, by what was read.      *)
ForgetsQr(k) ==
    task[k].alias \notin {NoName, task[k].seen.alias} /\ task[k].seen.qr

(* ... and what was asked for, else what was read, is written.             *)
Modify(k) ==
    /\ TaskAt(k, "modify")
    /\ LET l == task[k].link
           old == link[l]
           alias == IF task[k].alias = NoName THEN old.alias ELSE task[k].alias
           archived == IF task[k].archived = "keep" THEN task[k].seen.archived
                       ELSE task[k].archived = "yes"
       IN  /\ l \in Live
           /\ ~Aliased(task[k].alias, {l}) /\ TagsThere(task[k].tags)
           /\ link' = [link EXCEPT ![l] =
                 [state |-> "live", by |-> old.by, code |-> old.code, alias |-> alias,
                  archived |-> archived, recent |-> old.recent,
                  qr |-> old.qr /\ ~ForgetsQr(k),
                  tags |-> IF task[k].tags = KeepTags THEN old.tags ELSE task[k].tags]]
           /\ reopened' = reopened \cup {o \in {old.by} : old.archived /\ ~archived}
           /\ given' = given \cup {n \in {alias} \ {old.alias, old.code} : Coded(n)}
           /\ repointed' = repointed \cup {m \in {l} : alias # old.alias /\ MakingQr(m)}
    /\ Stores(k, task[k].alias)
    /\ TaskGoes(k, Idle)
    /\ UNCHANGED <<tier, image, tagOwner, crowded, edited>>

(* editLink of an administrator compares the alias with codes as well, ... *)
BeginEdit(k, l, alias) ==
    /\ TaskAt(k, "idle")
    /\ l \in Live
    /\ TaskOnly(k, [pc |-> "both", link |-> l, alias |-> alias])

CheckBoth(k) ==
    /\ TaskAt(k, "both")
    /\ TaskOnly(k, IF \E l \in Live \ {task[k].link} :
                         task[k].alias \in {link[l].code, link[l].alias}
                   THEN Idle ELSE [task[k] EXCEPT !.pc = "edit"])

(* ... and leaves the QR code as it is.                                    *)
Edit(k) ==
    /\ TaskAt(k, "edit")
    /\ LET l == task[k].link
       IN  /\ l \in Live
           /\ ~Aliased(task[k].alias, {l})
           /\ link' = [link EXCEPT ![l].alias = task[k].alias]
           /\ edited' = edited \cup {l}
    /\ Stores(k, task[k].alias)
    /\ TaskGoes(k, Idle)
    /\ UNCHANGED <<tier, image, tagOwner, reopened, crowded, given, repointed>>

(* Archiving finds the link first; what it checked may be stale, and then  *)
(* it writes what is there already.  An administrator's edit can do both.  *)
ArchiveLink(l) ==
    /\ l \in Live /\ ~link[l].archived
    /\ link' = [link EXCEPT ![l].archived = TRUE]
    /\ UNCHANGED <<tier, image, tagOwner, task, catalogueObserved>>

UnarchiveLink(l) ==
    /\ l \in Live /\ link[l].archived
    /\ link' = [link EXCEPT ![l].archived = FALSE]
    /\ reopened' = reopened \cup {link[l].by}
    /\ UNCHANGED <<tier, image, tagOwner, task, crowded, given, taken, edited, repointed>>

(* By the owner, an administrator or a cron.                               *)
DeleteLink(l) ==
    /\ l \in Live
    /\ link' = [link EXCEPT ![l] = [state |-> "gone"]]
    /\ UNCHANGED <<tier, image, tagOwner, task, catalogueObserved>>

DayPasses ==
    /\ \E l \in Live : link[l].recent
    /\ link' = [l \in Links |-> IF l \in Live THEN [link[l] EXCEPT !.recent = FALSE] ELSE link[l]]
    /\ UNCHANGED <<tier, image, tagOwner, task, catalogueObserved>>

-----------------------------------------------------------------------------
(* QR codes: generateQrCode finds the name, stores the image, ...          *)

BeginQr(k, o, l) ==
    /\ TaskAt(k, "idle")
    /\ Owned(o, l)
    /\ TaskOnly(k, [pc |-> "put", link |-> l,
                    name |-> IF link[l].alias # NoName THEN link[l].alias ELSE link[l].code])

PutImage(k) ==
    /\ TaskAt(k, "put")
    /\ image' = [image EXCEPT ![task[k].link] = task[k].name]
    /\ TaskGoes(k, [task[k] EXCEPT !.pc = "url"])
    /\ UNCHANGED <<tier, link, tagOwner, catalogueObserved>>

(* ... and writes its address, which is always the same.                   *)
SetQrUrl(k) ==
    /\ TaskAt(k, "url")
    /\ LET l == task[k].link
       IN  /\ l \in Live
           /\ link' = [link EXCEPT ![l].qr = TRUE]
           /\ repointed' = repointed \cup {m \in {l} : Renaming(m)}
    /\ TaskGoes(k, Idle)
    /\ UNCHANGED <<tier, image, tagOwner, reopened, crowded, given, taken, edited>>

-----------------------------------------------------------------------------
(* Tags.  Names and colours are left out: a creation or a change of name   *)
(* may be refused at any time.  What the finds check, the owners, never    *)
(* changes; what they find may be gone, and then the write is refused.     *)

CreateTag(t, o) ==
    /\ tagOwner[t] = NoName
    /\ tagOwner' = [tagOwner EXCEPT ![t] = o]
    /\ UNCHANGED <<tier, link, image, task, catalogueObserved>>

DeleteTagOnly(t) ==                               \* mutant: its rows of LinkTag stay
    /\ tagOwner[t] \in Owners
    /\ tagOwner' = [tagOwner EXCEPT ![t] = Gone]
    /\ UNCHANGED <<tier, link, image, task, catalogueObserved>>

(* With its rows of LinkTag.                                               *)
DeleteTag(t) ==
    /\ tagOwner[t] \in Owners
    /\ tagOwner' = [tagOwner EXCEPT ![t] = Gone]
    /\ link' = [l \in Links |-> IF l \in Live THEN [link[l] EXCEPT !.tags = @ \ {t}] ELSE link[l]]
    /\ UNCHANGED <<tier, image, task, catalogueObserved>>

AddTagToLink(l, t) ==
    /\ l \in Live /\ tagOwner[t] = link[l].by
    /\ link' = [link EXCEPT ![l].tags = @ \cup {t}]
    /\ UNCHANGED <<tier, image, tagOwner, task, catalogueObserved>>

RemoveTagFromLink(l, t) ==
    /\ l \in Live /\ t \in link[l].tags
    /\ link' = [link EXCEPT ![l].tags = @ \ {t}]
    /\ UNCHANGED <<tier, image, tagOwner, task, catalogueObserved>>

-----------------------------------------------------------------------------

Create(k) ==
    CountLinks(k) \/ CheckTier(k) \/ CheckAlias(k) \/ (\E n \in Names : Generate(k, n))
    \/ CheckTags(k) \/ Insert(k)

ChangeLink(k) == CheckNewAlias(k) \/ CheckNewTags(k) \/ Modify(k) \/ CheckBoth(k) \/ Edit(k)

MakeQr(k) == (\E o \in Owners, l \in Links : BeginQr(k, o, l)) \/ PutImage(k) \/ SetQrUrl(k)

Rename(k) ==
    \/ \E o \in Owners, l \in Links, n \in Names : BeginUpdate(k, o, l, n, "keep", KeepTags)
    \/ \E l \in Links, n \in Names : BeginEdit(k, l, n)

Reopen(k) ==
    \E o \in Owners, l \in Links, archived \in {"keep", "yes", "no"} :
        BeginUpdate(k, o, l, NoName, archived, KeepTags)

Retag(k) ==
    \E o \in Owners, tags \in SUBSET Tags :
        \/ BeginCreate(k, o, NoName, tags)
        \/ \E l \in Links : BeginUpdate(k, o, l, NoName, "keep", tags)

HandleTags ==
    \/ \E t \in Tags, o \in Owners : CreateTag(t, o)
    \/ \E t \in Tags : DeleteTag(t) \/ \E l \in Links : AddTagToLink(l, t) \/ RemoveTagFromLink(l, t)

CatalogueNext ==
    \/ \E o \in Owners : TierChanges(o)
    \/ \E k \in Tasks :
          \/ \E o \in Owners, n \in Names \cup {NoName} : BeginCreate(k, o, n, {})
          \/ \E a \in Addresses : BeginGuest(k, a)
          \/ Create(k) \/ Rename(k) \/ Reopen(k) \/ Retag(k) \/ ChangeLink(k) \/ MakeQr(k)
          \/ TaskFails(k)
    \/ \E l \in Links : ArchiveLink(l) \/ UnarchiveLink(l) \/ DeleteLink(l)
    \/ DayPasses \/ HandleTags

CatalogueSpec == CatalogueInit /\ [][CatalogueNext]_catalogueVars

-----------------------------------------------------------------------------
(* Properties                                                              *)

Creators == Owners \cup Addresses
Name == Names \cup {NoName}
LinkRow == [state: {"live"}, by: Creators, code: Name, alias: Name, archived: BOOLEAN,
            recent: BOOLEAN, qr: BOOLEAN, tags: SUBSET Tags]
Counting == [pc: {"count", "tier"}, by: Owners, alias: Name, code: Name, tags: SUBSET Tags,
             tries: Nat]
Creating == [pc: {"name", "tags", "insert"}, by: Creators, alias: Name, code: Name,
             tags: SUBSET Tags, tries: Nat]
Updating == [pc: {"alias", "retag", "modify"}, by: Owners, link: Links, alias: Name,
             archived: {"keep", "yes", "no"}, tags: (SUBSET Tags) \cup {KeepTags},
             seen: [alias: Name, qr: BOOLEAN, archived: BOOLEAN]]
Editing == [pc: {"both", "edit"}, link: Links, alias: Names]
Drawing == [pc: {"put", "url"}, link: Links, name: Name]
TaskState == {Idle} \cup Counting \cup Creating \cup Updating \cup Editing \cup Drawing

CatalogueTypeOK ==
    /\ tier \in [Owners -> {"FREE", "PRO"}]
    /\ link \in [Links -> LinkRow \cup [state: {"none", "gone"}]]
    /\ image \in [Links -> Name]
    /\ tagOwner \in [Tags -> Owners \cup {NoName, Gone}]
    /\ task \in [Tasks -> TaskState]
    /\ reopened \subseteq Creators /\ crowded \subseteq Creators
    /\ given \subseteq Names /\ taken \subseteq Names
    /\ edited \subseteq Links /\ repointed \subseteq Links

(* A link answers to a name, and its tags are there and its owner's, though *)
(* the tags of a request are looked up before they are stored.             *)
LinksCohere ==
    \A l \in Live : /\ link[l].code # NoName \/ link[l].alias # NoName
                    /\ \A t \in link[l].tags : tagOwner[t] = link[l].by

(* "FREE cap: 25 active (not archived) links", and five links a day for a  *)
(* guest: the limits are exceeded only by creations that overlapped, and   *)
(* then by no more than the application serves at one time; but for users  *)
(* who made an archived link active again, which no limit guards, or who   *)
(* were PRO.                                                               *)
LimitsHold ==
    LET excess == Cardinality(Tasks) - 1
    IN  /\ \A o \in Owners \ reopened :
              Cardinality(ActiveLinks(o)) <= FreeLimit + (IF o \in crowded THEN excess ELSE 0)
        /\ \A a \in Addresses :
              Cardinality(RecentLinks(a)) <= GuestLimit + (IF a \in crowded THEN excess ELSE 0)

(* resolveShortCode takes the first link with the name as code or alias.   *)
(* There is one at most, unless two requests stored the name at one time,  *)
(* or a user was given as alias what was a short code already:             *)
(* ensureAliasAvailability looks at aliases only.                          *)
NamesResolveAlone ==
    \A l, m \in Live : \A n \in Names :
        l # m /\ n = link[l].code /\ n = link[m].alias => n \in given \cup taken

(* "Invalidate QR code if alias changes": the QR code a link shows leads   *)
(* to one of its names, unless an administrator changed the alias, or it   *)
(* changed while the code was made.                                        *)
QrLeadsHere ==
    \A l \in Live \ (edited \cup repointed) :
        link[l].qr => image[l] \in {link[l].code, link[l].alias}
=============================================================================
