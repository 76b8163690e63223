------------------------ MODULE LinkCatalogue_proofs ------------------------
(***************************************************************************)
(* What LinkCatalogue promises about limits, names and QR codes, for any   *)
(* users, names and tags, and finitely many links and requests.            *)
(***************************************************************************)
EXTENDS LinkCatalogue, FiniteSetTheorems, TLAPS

-----------------------------------------------------------------------------
(* Type correctness                                                        *)

(* What the record of a request holds is known from where it stands.       *)
LEMMA TaskTypes ==
    ASSUME task \in [Tasks -> TaskState], NEW k \in Tasks
    PROVE  /\ task[k].pc \in {"count", "tier"} => task[k] \in Counting
           /\ task[k].pc \in {"name", "tags", "insert"} => task[k] \in Creating
           /\ task[k].pc \in {"alias", "retag", "modify"} => task[k] \in Updating
           /\ task[k].pc \in {"both", "edit"} => task[k] \in Editing
           /\ task[k].pc \in {"put", "url"} => task[k] \in Drawing
<1>1. task[k] \in TaskState
    OBVIOUS
<1>2. /\ \A r \in Counting : r.pc \in {"count", "tier"}
      /\ \A r \in Creating : r.pc \in {"name", "tags", "insert"}
      /\ \A r \in Updating : r.pc \in {"alias", "retag", "modify"}
      /\ \A r \in Editing : r.pc \in {"both", "edit"}
      /\ \A r \in Drawing : r.pc \in {"put", "url"}
      /\ Idle.pc = "idle"
    BY DEF Counting, Creating, Updating, Editing, Drawing, Idle
<1>3. QED
    BY <1>1, <1>2 DEF TaskState

LEMMA GoesTypes ==
    ASSUME task \in [Tasks -> TaskState], NEW k \in Tasks, NEW state \in TaskState,
           TaskGoes(k, state)
    PROVE  /\ task' \in [Tasks -> TaskState]
           /\ task'[k] = state /\ \A q \in Tasks \ {k} : task'[q] = task[q]
BY DEF TaskGoes

(* The steps of a request, with its record otherwise as it was.            *)
LEMMA CountingMoves ==
    ASSUME NEW r \in Counting
    PROVE  /\ [r EXCEPT !.pc = "tier"] \in TaskState /\ [r EXCEPT !.pc = "name"] \in TaskState
           /\ \A p \in {"tier", "name"} :
                 /\ [r EXCEPT !.pc = p].pc = p /\ [r EXCEPT !.pc = p].by = r.by
                 /\ [r EXCEPT !.pc = p].alias = r.alias /\ [r EXCEPT !.pc = p].code = r.code
                 /\ [r EXCEPT !.pc = p].tags = r.tags
<1>1. [r EXCEPT !.pc = "tier"] \in Counting /\ [r EXCEPT !.pc = "name"] \in Creating
    BY DEF Counting, Creating, Creators
<1>2. QED
    BY <1>1 DEF TaskState, Counting

LEMMA CreatingMoves ==
    ASSUME NEW r \in Creating, NEW p \in {"tags", "insert"}
    PROVE  /\ [r EXCEPT !.pc = p] \in Creating
           /\ [r EXCEPT !.pc = p].pc = p /\ [r EXCEPT !.pc = p].by = r.by
           /\ [r EXCEPT !.pc = p].alias = r.alias /\ [r EXCEPT !.pc = p].code = r.code
           /\ [r EXCEPT !.pc = p].tags = r.tags
BY DEF Creating

LEMMA TryingMoves ==
    ASSUME NEW r \in Creating
    PROVE  /\ [r EXCEPT !.tries = @ + 1] \in Creating
           /\ [r EXCEPT !.tries = @ + 1].pc = r.pc /\ [r EXCEPT !.tries = @ + 1].by = r.by
           /\ [r EXCEPT !.tries = @ + 1].alias = r.alias
           /\ [r EXCEPT !.tries = @ + 1].code = r.code
           /\ [r EXCEPT !.tries = @ + 1].tags = r.tags
BY DEF Creating

LEMMA UpdatingMoves ==
    ASSUME NEW r \in Updating, NEW p \in {"retag", "modify"}
    PROVE  /\ [r EXCEPT !.pc = p] \in Updating
           /\ [r EXCEPT !.pc = p].pc = p /\ [r EXCEPT !.pc = p].by = r.by
           /\ [r EXCEPT !.pc = p].link = r.link /\ [r EXCEPT !.pc = p].alias = r.alias
           /\ [r EXCEPT !.pc = p].tags = r.tags /\ [r EXCEPT !.pc = p].seen = r.seen
BY DEF Updating

LEMMA LastMoves ==
    ASSUME TRUE
    PROVE  /\ \A r \in Editing : /\ [r EXCEPT !.pc = "edit"] \in Editing
                                 /\ [r EXCEPT !.pc = "edit"].pc = "edit"
                                 /\ [r EXCEPT !.pc = "edit"].link = r.link
                                 /\ [r EXCEPT !.pc = "edit"].alias = r.alias
           /\ \A r \in Drawing : /\ [r EXCEPT !.pc = "url"] \in Drawing
                                 /\ [r EXCEPT !.pc = "url"].pc = "url"
                                 /\ [r EXCEPT !.pc = "url"].link = r.link
                                 /\ [r EXCEPT !.pc = "url"].name = r.name
BY DEF Editing, Drawing

(* A step that moves one request, and may note that creators overlap.      *)
LEMMA OnlyTypes ==
    ASSUME CatalogueTypeOK, NEW k \in Tasks, NEW state \in TaskState, TaskGoes(k, state),
           UNCHANGED <<catalogueTables, reopened, given, taken, edited, repointed>>,
           crowded' \subseteq Creators
    PROVE  CatalogueTypeOK'
<1>1. task' \in [Tasks -> TaskState]
    BY GoesTypes DEF CatalogueTypeOK
<1>2. QED
    BY <1>1 DEF CatalogueTypeOK, catalogueTables

(* The steps of a request that changes no table yet, and where they lead.  *)
Updates(k) ==
    \E o \in Owners, l \in Links, n \in Names \cup {NoName}, archived \in {"keep", "yes", "no"},
      tags \in (SUBSET Tags) \cup {KeepTags} : BeginUpdate(k, o, l, n, archived, tags)

Quiet(k) ==
    \/ \E o \in Owners, n \in Names \cup {NoName}, tags \in SUBSET Tags : BeginCreate(k, o, n, tags)
    \/ \E a \in Addresses : BeginGuest(k, a)
    \/ CountLinks(k) \/ CheckTier(k) \/ CheckAlias(k) \/ (\E n \in Names : Generate(k, n))
    \/ CheckTags(k)
    \/ Updates(k)
    \/ \E l \in Links, n \in Names : BeginEdit(k, l, n)
    \/ CheckNewAlias(k) \/ CheckNewTags(k) \/ CheckBoth(k)
    \/ \E o \in Owners, l \in Links : BeginQr(k, o, l)
    \/ TaskFails(k)

QuietKeeps(k, state) ==
    /\ TaskGoes(k, state)
    /\ UNCHANGED <<catalogueTables, reopened, given, taken, edited, repointed>>
    /\ crowded' \subseteq Creators

LEMMA OnlyKeeps ==
    ASSUME CatalogueTypeOK, NEW k \in Tasks, NEW state, TaskOnly(k, state)
    PROVE  QuietKeeps(k, state)
BY DEF CatalogueTypeOK, TaskOnly, catalogueObserved, QuietKeeps

(* The steps that change a table.                                          *)
Writes ==
    \/ \E o \in Owners : TierChanges(o)
    \/ \E k \in Tasks : Insert(k) \/ Modify(k) \/ Edit(k) \/ PutImage(k) \/ SetQrUrl(k)
    \/ \E l \in Links : ArchiveLink(l) \/ UnarchiveLink(l) \/ DeleteLink(l)
    \/ DayPasses \/ HandleTags

LEMMA QuietOrWrites ==
    ASSUME CatalogueNext
    PROVE  (\E k \in Tasks : Quiet(k)) \/ Writes
<1>1. ASSUME NEW k \in Tasks, Create(k)
      PROVE  Quiet(k) \/ Writes
    BY <1>1 DEF Create, Quiet, Writes
<1>2. ASSUME NEW k \in Tasks, Rename(k)
      PROVE  Quiet(k)
    <2>1. ASSUME NEW o \in Owners, NEW l \in Links, NEW n \in Names,
                 BeginUpdate(k, o, l, n, "keep", KeepTags)
          PROVE  Quiet(k)
        <3>1. /\ n \in Names \cup {NoName} /\ KeepTags \in (SUBSET Tags) \cup {KeepTags}
              /\ "keep" \in {"keep", "yes", "no"}
            OBVIOUS
        <3>2. Updates(k)
            BY <2>1, <3>1, Zenon DEF Updates
        <3>3. QED
            BY <3>2 DEF Quiet
    <2>2. ASSUME NEW l \in Links, NEW n \in Names, BeginEdit(k, l, n)
          PROVE  Quiet(k)
        BY <2>2, Zenon DEF Quiet
    <2>3. QED
        BY <1>2, <2>1, <2>2, Zenon DEF Rename
<1>3. ASSUME NEW k \in Tasks, Reopen(k)
      PROVE  Quiet(k)
    <2>1. NoName \in Names \cup {NoName} /\ KeepTags \in (SUBSET Tags) \cup {KeepTags}
        OBVIOUS
    <2>2. Updates(k)
        BY <1>3, <2>1, Zenon DEF Reopen, Updates
    <2>3. QED
        BY <2>2 DEF Quiet
<1>4. ASSUME NEW k \in Tasks, Retag(k)
      PROVE  Quiet(k)
    <2>1. ASSUME NEW o \in Owners, NEW tags \in SUBSET Tags, NEW l \in Links,
                 BeginUpdate(k, o, l, NoName, "keep", tags)
          PROVE  Updates(k)
        <3>1. /\ NoName \in Names \cup {NoName} /\ tags \in (SUBSET Tags) \cup {KeepTags}
              /\ "keep" \in {"keep", "yes", "no"}
            OBVIOUS
        <3>2. QED
            BY <2>1, <3>1, Zenon DEF Updates
    <2>2. ASSUME NEW o \in Owners, NEW tags \in SUBSET Tags, BeginCreate(k, o, NoName, tags)
          PROVE  Quiet(k)
        BY <2>2 DEF Quiet
    <2>3. QED
        BY <1>4, <2>1, <2>2 DEF Retag, Quiet
<1>5. ASSUME NEW k \in Tasks, ChangeLink(k) \/ MakeQr(k) \/ TaskFails(k)
      PROVE  Quiet(k) \/ Writes
    BY <1>5 DEF ChangeLink, MakeQr, Quiet, Writes
<1>6. ASSUME NEW k \in Tasks, NEW o \in Owners, NEW n \in Names \cup {NoName}, BeginCreate(k, o, n, {})
      PROVE  Quiet(k)
    BY <1>6 DEF Quiet
<1>7. ASSUME NEW k \in Tasks, NEW a \in Addresses, BeginGuest(k, a)
      PROVE  Quiet(k)
    BY <1>7 DEF Quiet
<1>8. QED
    BY <1>1, <1>2, <1>3, <1>4, <1>5, <1>6, <1>7 DEF CatalogueNext, Writes

-----------------------------------------------------------------------------
(* The invariant                                                           *)

Renamed == edited \cup repointed

(* A creation past its name has one: an alias, or a code that answered     *)
(* nowhere, or was stored by somebody else since.                          *)
NameFits(r) ==
    /\ r.pc \in {"count", "tier", "name"} => r.code = NoName
    /\ r.pc \in {"tags", "insert"} =>
          /\ r.code = NoName <=> r.alias # NoName
          /\ r.code # NoName => r.code \in taken \/ \A m \in Live : link[m].alias # r.code
    /\ r.pc = "edit" => r.alias \in taken \/ \A m \in Live \ {r.link} : link[m].code # r.alias

(* Tags that were looked up are the owner's, or gone.                      *)
TagFits(r) ==
    /\ r.pc \in {"insert", "modify"} => \A t \in r.tags \ KeepTags : tagOwner[t] \in {r.by, Gone}
    /\ r.pc \in {"alias", "retag", "modify"} /\ r.link \in Live => link[r.link].by = r.by

(* A request is for a link that was there.                                 *)
LinkFits(r) ==
    r.pc \in {"alias", "retag", "modify", "both", "edit", "put", "url"} => link[r.link].state # "none"

(* While nobody else renames the link: an update knows the QR code it has  *)
(* to forget, and a QR code is made of a name the link has.                *)
QrFits(r) ==
    /\ r.pc \in {"alias", "retag", "modify"} /\ r.alias # NoName /\ r.link \in Live \ Renamed
          => \/ link[r.link].qr = FALSE
             \/ r.seen.qr = TRUE /\ r.seen.alias = link[r.link].alias
    /\ r.pc \in {"put", "url"} /\ r.link \in Live \ Renamed
          => /\ r.name \in {link[r.link].code, link[r.link].alias}
             /\ r.pc = "url" => image[r.link] \in {link[r.link].code, link[r.link].alias}

Fits(r) == NameFits(r) /\ TagFits(r) /\ LinkFits(r) /\ QrFits(r)

TasksFit == \A k \in Tasks : Fits(task[k])

CodesUnique == \A l, m \in Live : l # m /\ link[l].code = link[m].code => link[l].code = NoName

Tidy == CodesUnique /\ NamesResolveAlone /\ LinksCohere /\ QrLeadsHere /\ TasksFit

LEMMA IdleFits == Fits(Idle)
BY DEF Fits, NameFits, TagFits, LinkFits, QrFits, Idle

(* Where a quiet step leads, the request fits.                             *)
LEMMA QuietFits ==
    ASSUME CatalogueTypeOK, TasksFit, NEW k \in Tasks, Quiet(k)
    PROVE  \E state \in TaskState : QuietKeeps(k, state) /\ Fits(state)
<1>. DEFINE Goal == \E state \in TaskState : QuietKeeps(k, state) /\ Fits(state)
<1>. SUFFICES Goal
    OBVIOUS
<1>a. ASSUME NEW state \in TaskState, TaskOnly(k, state), Fits(state)
      PROVE  Goal
    BY <1>a, OnlyKeeps
<1>b. Idle \in TaskState /\ Fits(Idle)
    BY IdleFits DEF TaskState
<1>c. /\ task \in [Tasks -> TaskState]
      /\ Fits(task[k])
    BY DEF CatalogueTypeOK, TasksFit
<1>d. /\ task[k].pc \in {"count", "tier"} => task[k] \in Counting
      /\ task[k].pc \in {"name", "tags", "insert"} => task[k] \in Creating
      /\ task[k].pc \in {"alias", "retag", "modify"} => task[k] \in Updating
      /\ task[k].pc \in {"both", "edit"} => task[k] \in Editing
      /\ task[k].pc \in {"put", "url"} => task[k] \in Drawing
    BY <1>c, TaskTypes
<1>e. ASSUME NEW r \in TaskState, TaskOnly(k, Idle) \/ (TaskOnly(k, r) /\ Fits(r))
      PROVE  Goal
    BY <1>a, <1>b, <1>e
<1>1. ASSUME NEW o \in Owners, NEW n \in Names \cup {NoName}, NEW tags \in SUBSET Tags,
             BeginCreate(k, o, n, tags)
      PROVE  Goal
    <2>1. PICK p \in {"count", "tier"} :
              TaskOnly(k, [pc |-> p, by |-> o, alias |-> n, code |-> NoName, tags |-> tags, tries |-> 0])
        BY <1>1 DEF BeginCreate
    <2>. DEFINE r == [pc |-> p, by |-> o, alias |-> n, code |-> NoName, tags |-> tags, tries |-> 0]
    <2>2. r \in Counting
        BY DEF Counting, Name
    <2>3. Fits(r)
        BY DEF Fits, NameFits, TagFits, LinkFits, QrFits
    <2>4. r \in TaskState
        BY <2>2 DEF TaskState
    <2>. HIDE DEF r
    <2>5. QED
        BY <2>1, <2>3, <2>4, <1>a DEF r
<1>2. ASSUME NEW a \in Addresses, BeginGuest(k, a)
      PROVE  Goal
    <2>. DEFINE r == [pc |-> "name", by |-> a, alias |-> NoName, code |-> NoName,
                      tags |-> {}, tries |-> 0]
    <2>1. r \in Creating
        BY DEF Creating, Name, Creators
    <2>2. Fits(r)
        BY DEF Fits, NameFits, TagFits, LinkFits, QrFits
    <2>3. QuietKeeps(k, r)
        BY <1>2 DEF BeginGuest, QuietKeeps, Crowds, Creators, CatalogueTypeOK
    <2>4. r \in TaskState
        BY <2>1 DEF TaskState
    <2>. HIDE DEF r
    <2>5. QED
        BY <2>2, <2>3, <2>4
<1>3. CASE CountLinks(k)
    <2>. DEFINE r == [task[k] EXCEPT !.pc = "tier"]
    <2>1. task[k].pc = "count"
        BY <1>3 DEF CountLinks, TaskAt
    <2>2. task[k] \in Counting
        BY <2>1, <1>d
    <2>3. r \in TaskState /\ r.pc = "tier" /\ r.code = task[k].code
        BY <2>2, CountingMoves
    <2>4. Fits(r)
        BY <2>1, <2>3, <1>c DEF Fits, NameFits, TagFits, LinkFits, QrFits
    <2>5. task[k].by \in Creators
        BY <2>2 DEF Counting, Creators
    <2>6. QuietKeeps(k, Idle) \/ QuietKeeps(k, r)
        BY <1>3, <2>5 DEF CountLinks, QuietKeeps, Crowds, CatalogueTypeOK
    <2>. HIDE DEF r
    <2>7. QED
        BY <2>3, <2>4, <2>6, <1>b
<1>4. CASE CheckTier(k)
    <2>. DEFINE r == [task[k] EXCEPT !.pc = "name"]
    <2>1. task[k].pc = "tier" /\ (TaskOnly(k, Idle) \/ TaskOnly(k, r))
        BY <1>4 DEF CheckTier, TaskAt
    <2>2. r \in TaskState /\ r.pc = "name" /\ r.code = task[k].code
        BY <2>1, <1>d, CountingMoves
    <2>3. Fits(r)
        BY <2>1, <2>2, <1>c DEF Fits, NameFits, TagFits, LinkFits, QrFits
    <2>. HIDE DEF r
    <2>4. QED
        BY <2>1, <2>2, <2>3, <1>e
<1>5. CASE CheckAlias(k)
    <2>1. PICK p \in {"tags", "insert"} :
             /\ p = Named(k)
             /\ TaskOnly(k, Idle) \/ TaskOnly(k, [task[k] EXCEPT !.pc = p])
        BY <1>5 DEF CheckAlias, Named
    <2>. DEFINE r == [task[k] EXCEPT !.pc = p]
    <2>2. task[k].pc = "name" /\ task[k].alias # NoName /\ task[k] \in Creating
        BY <1>5, <1>d DEF CheckAlias, TaskAt
    <2>3. /\ r \in Creating /\ r.pc = p /\ r.code = task[k].code /\ r.alias = task[k].alias
          /\ r.tags = task[k].tags /\ r.by = task[k].by
        BY <2>2, CreatingMoves
    <2>4. r.pc = "insert" => r.tags = {}
        BY <2>1, <2>3 DEF Named
    <2>. HIDE DEF r
    <2>5. Fits(r)
        BY <2>2, <2>3, <2>4, <1>c DEF Fits, NameFits, TagFits, LinkFits, QrFits
    <2>6. r \in TaskState
        BY <2>3 DEF TaskState
    <2>7. QED
        BY <2>1, <2>5, <2>6, <1>e DEF r
<1>6. ASSUME NEW n \in Names, Generate(k, n)
      PROVE  Goal
    <2>1. task[k].pc = "name" /\ task[k].alias = NoName /\ task[k] \in Creating
        BY <1>6, <1>d DEF Generate, TaskAt
    <2>2. CASE ~Answers(n)
        <3>1. PICK p \in {"tags", "insert"} : p = Named(k)
            BY DEF Named
        <3>. DEFINE r == [pc |-> p, by |-> task[k].by, alias |-> NoName, code |-> n,
                          tags |-> task[k].tags, tries |-> task[k].tries]
        <3>2. TaskOnly(k, r)
            BY <1>6, <2>2, <3>1 DEF Generate
        <3>3. r \in Creating
            BY <2>1 DEF Creating, Name
        <3>4. r.pc = "insert" => r.tags = {}
            BY <3>1 DEF Named
        <3>5. /\ r.pc \in {"tags", "insert"} /\ r.code = n /\ r.alias = NoName
              /\ n # NoName /\ \A m \in Live : link[m].alias # n
            BY <2>2, NamesAssumption DEF Answers, Aliased
        <3>. HIDE DEF r
        <3>6. Fits(r)
            BY <3>4, <3>5 DEF Fits, NameFits, TagFits, LinkFits, QrFits
        <3>7. QED
            BY <3>2, <3>3, <3>6, <1>a DEF TaskState
    <2>3. CASE Answers(n)
        <3>. DEFINE r == [task[k] EXCEPT !.tries = @ + 1]
        <3>1. TaskOnly(k, Idle) \/ TaskOnly(k, r)
            BY <1>6, <2>3 DEF Generate
        <3>2. r \in Creating /\ r.pc = "name" /\ r.code = task[k].code
            BY <2>1, TryingMoves
        <3>. HIDE DEF r
        <3>3. Fits(r)
            BY <2>1, <3>2, <1>c DEF Fits, NameFits, TagFits, LinkFits, QrFits
        <3>4. QED
            BY <3>1, <3>2, <3>3, <1>e DEF TaskState
    <2>4. QED
        BY <2>2, <2>3
<1>7. CASE CheckTags(k)
    <2>. DEFINE r == [task[k] EXCEPT !.pc = "insert"]
    <2>1. /\ task[k].pc = "tags" /\ task[k] \in Creating
          /\ TaskOnly(k, Idle) \/ (TaskOnly(k, r) /\ MayUse(task[k].by, task[k].tags))
        BY <1>7, <1>d DEF CheckTags, TaskAt
    <2>2. /\ r \in Creating /\ r.pc = "insert" /\ r.code = task[k].code /\ r.alias = task[k].alias
          /\ r.tags = task[k].tags /\ r.by = task[k].by
        BY <2>1, CreatingMoves
    <2>. HIDE DEF r
    <2>3. MayUse(task[k].by, task[k].tags) => Fits(r)
        BY <2>1, <2>2, <1>c DEF Fits, NameFits, TagFits, LinkFits, QrFits, MayUse
    <2>4. QED
        BY <2>1, <2>2, <2>3, <1>e DEF TaskState
<1>8. ASSUME NEW o \in Owners, NEW l \in Links, NEW n \in Names \cup {NoName},
             NEW archived \in {"keep", "yes", "no"}, NEW tags \in (SUBSET Tags) \cup {KeepTags},
             BeginUpdate(k, o, l, n, archived, tags)
      PROVE  Goal
    <2>1. PICK p \in {"alias", "retag"} : p = IF n = NoName THEN "retag" ELSE "alias"
        OBVIOUS
    <2>. DEFINE seen == [alias |-> link[l].alias, qr |-> link[l].qr, archived |-> link[l].archived]
                r == [pc |-> p, by |-> o, link |-> l, alias |-> n, archived |-> archived,
                      tags |-> tags, seen |-> seen]
    <2>2. link[l] \in LinkRow /\ l \in Live /\ link[l].by = o
        BY <1>8 DEF BeginUpdate, Owned, CatalogueTypeOK, Live
    <2>3. seen \in [alias: Name, qr: BOOLEAN, archived: BOOLEAN]
        BY <2>2 DEF LinkRow
    <2>4. seen.alias = link[l].alias /\ (link[l].qr = FALSE \/ seen.qr = TRUE)
        BY <2>2 DEF LinkRow
    <2>5. TaskOnly(k, r)
        BY <1>8, <2>1 DEF BeginUpdate
    <2>. HIDE DEF seen
    <2>6. r \in Updating
        BY <2>3 DEF Updating, Name
    <2>7. r.pc \in {"alias", "retag"} /\ r.by = o /\ r.link = l /\ r.alias = n /\ r.seen = seen
        OBVIOUS
    <2>. HIDE DEF r
    <2>8. Fits(r)
        BY <2>2, <2>4, <2>7 DEF Fits, NameFits, TagFits, LinkFits, QrFits, Live
    <2>9. QED
        BY <2>5, <2>6, <2>8, <1>a DEF TaskState
<1>9. ASSUME NEW l \in Links, NEW n \in Names, BeginEdit(k, l, n)
      PROVE  Goal
    <2>. DEFINE r == [pc |-> "both", link |-> l, alias |-> n]
    <2>1. TaskOnly(k, r) /\ r \in Editing /\ link[l].state # "none"
        BY <1>9 DEF BeginEdit, Editing, Live
    <2>2. Fits(r)
        BY <2>1 DEF Fits, NameFits, TagFits, LinkFits, QrFits
    <2>. HIDE DEF r
    <2>3. QED
        BY <2>1, <2>2, <1>a DEF TaskState
<1>10. CASE CheckNewAlias(k)
    <2>. DEFINE r == [task[k] EXCEPT !.pc = "retag"]
    <2>1. task[k].pc = "alias" /\ task[k] \in Updating /\ (TaskOnly(k, Idle) \/ TaskOnly(k, r))
        BY <1>10, <1>d DEF CheckNewAlias, TaskAt
    <2>2. /\ r \in Updating /\ r.pc = "retag" /\ r.by = task[k].by /\ r.link = task[k].link
          /\ r.alias = task[k].alias /\ r.tags = task[k].tags /\ r.seen = task[k].seen
        BY <2>1, UpdatingMoves
    <2>. HIDE DEF r
    <2>3. Fits(r)
        BY <2>1, <2>2, <1>c DEF Fits, NameFits, TagFits, LinkFits, QrFits
    <2>4. QED
        BY <2>1, <2>2, <2>3, <1>e DEF TaskState
<1>11. CASE CheckNewTags(k)
    <2>. DEFINE r == [task[k] EXCEPT !.pc = "modify"]
    <2>1. /\ task[k].pc = "retag" /\ task[k] \in Updating
          /\ TaskOnly(k, Idle) \/ (TaskOnly(k, r) /\ MayUse(task[k].by, task[k].tags))
        BY <1>11, <1>d DEF CheckNewTags, TaskAt
    <2>2. /\ r \in Updating /\ r.pc = "modify" /\ r.by = task[k].by /\ r.link = task[k].link
          /\ r.alias = task[k].alias /\ r.tags = task[k].tags /\ r.seen = task[k].seen
        BY <2>1, UpdatingMoves
    <2>. HIDE DEF r
    <2>3. MayUse(task[k].by, task[k].tags) => Fits(r)
        BY <2>1, <2>2, <1>c DEF Fits, NameFits, TagFits, LinkFits, QrFits, MayUse
    <2>4. QED
        BY <2>1, <2>2, <2>3, <1>e DEF TaskState
<1>12. CASE CheckBoth(k)
    <2>. DEFINE r == [task[k] EXCEPT !.pc = "edit"]
    <2>1. /\ task[k].pc = "both" /\ task[k] \in Editing
          /\ \/ TaskOnly(k, Idle)
             \/ /\ TaskOnly(k, r)
                /\ \A m \in Live \ {task[k].link} : link[m].code # task[k].alias
        BY <1>12, <1>d DEF CheckBoth, TaskAt
    <2>2. r \in Editing /\ r.pc = "edit" /\ r.link = task[k].link /\ r.alias = task[k].alias
        BY <2>1, LastMoves
    <2>. HIDE DEF r
    <2>3. (\A m \in Live \ {task[k].link} : link[m].code # task[k].alias) => Fits(r)
        BY <2>1, <2>2, <1>c DEF Fits, NameFits, TagFits, LinkFits, QrFits
    <2>4. QED
        BY <2>1, <2>2, <2>3, <1>e DEF TaskState
<1>13. ASSUME NEW o \in Owners, NEW l \in Links, BeginQr(k, o, l)
       PROVE  Goal
    <2>1. link[l] \in LinkRow /\ l \in Live
        BY <1>13 DEF BeginQr, Owned, CatalogueTypeOK, Live
    <2>2. PICK n \in Name : n = IF link[l].alias # NoName THEN link[l].alias ELSE link[l].code
        BY <2>1 DEF LinkRow
    <2>. DEFINE r == [pc |-> "put", link |-> l, name |-> n]
    <2>3. TaskOnly(k, r)
        BY <1>13, <2>2 DEF BeginQr
    <2>4. r \in Drawing /\ r.pc = "put" /\ r.link = l /\ r.name = n
        BY DEF Drawing
    <2>. HIDE DEF r
    <2>5. Fits(r)
        BY <2>1, <2>2, <2>4 DEF Fits, NameFits, TagFits, LinkFits, QrFits, Live
    <2>6. QED
        BY <2>3, <2>4, <2>5, <1>a DEF TaskState
<1>14. CASE TaskFails(k)
    <2>. HIDE DEF Goal
    <2>1. TaskOnly(k, Idle)
        BY <1>14 DEF TaskFails
    <2>2. QED
        BY <2>1, <1>b, <1>e
<1>. HIDE DEF Goal
<1>15. Updates(k) => Goal
    BY <1>8 DEF Updates
<1>16. Goal
    BY <1>1, <1>2, <1>3, <1>4, <1>5, <1>6, <1>7, <1>9, <1>10, <1>11, <1>12, <1>13, <1>14, <1>15
       DEF Quiet
<1>17. QED
    BY <1>16

-----------------------------------------------------------------------------
(* The steps that change a table keep the types.                           *)

LEMMA LinkTypes ==
    ASSUME CatalogueTypeOK, link' \in [Links -> LinkRow \cup [state: {"none", "gone"}]],
           UNCHANGED <<tier, image, tagOwner>>, task' \in [Tasks -> TaskState],
           reopened' \subseteq Creators, crowded' \subseteq Creators, given' \subseteq Names,
           taken' \subseteq Names, edited' \subseteq Links, repointed' \subseteq Links
    PROVE  CatalogueTypeOK'
BY DEF CatalogueTypeOK

LEMMA TableTypes ==
    ASSUME CatalogueTypeOK, link' \in [Links -> LinkRow \cup [state: {"none", "gone"}]],
           UNCHANGED <<tier, image, task, catalogueObserved>>,
           tagOwner' \in [Tags -> Owners \cup {NoName, Gone}]
    PROVE  CatalogueTypeOK'
BY DEF CatalogueTypeOK, catalogueObserved

LEMMA RowTypes ==
    ASSUME CatalogueTypeOK, NEW l \in Live
    PROVE  /\ l \in Links /\ link[l] \in LinkRow
           /\ link[l].by \in Creators /\ link[l].code \in Name /\ link[l].alias \in Name
           /\ link[l].tags \subseteq Tags
           /\ \A a \in BOOLEAN : [link[l] EXCEPT !.archived = a] \in LinkRow
           /\ [link[l] EXCEPT !.qr = TRUE] \in LinkRow
           /\ [link[l] EXCEPT !.recent = FALSE] \in LinkRow
           /\ \A n \in Name : [link[l] EXCEPT !.alias = n] \in LinkRow
           /\ \A tags \in SUBSET Tags : [link[l] EXCEPT !.tags = tags] \in LinkRow
<1>1. l \in Links /\ link[l] \in LinkRow
    BY DEF CatalogueTypeOK, Live, LinkRow
<1>2. QED
    BY <1>1 DEF LinkRow

(* A name that is stored is in use already, or not.                        *)
LEMMA StoresTypes ==
    ASSUME CatalogueTypeOK, NEW k \in Tasks, NEW n \in Name, Stores(k, n)
    PROVE  taken' \subseteq Names
BY DEF Stores, CatalogueTypeOK, Name

LEMMA WritesTypes ==
    ASSUME CatalogueTypeOK, Writes
    PROVE  CatalogueTypeOK'
<1>1. ASSUME NEW o \in Owners, TierChanges(o)
      PROVE  CatalogueTypeOK'
    BY <1>1 DEF CatalogueTypeOK, TierChanges, Creators
<1>2. ASSUME NEW k \in Tasks, Insert(k)
      PROVE  CatalogueTypeOK'
    <2>1. task[k] \in Creating
        BY <1>2, TaskTypes DEF Insert, TaskAt, CatalogueTypeOK
    <2>2. PICK l \in Links :
             link' = [link EXCEPT ![l] =
                [state |-> "live", by |-> task[k].by, code |-> task[k].code,
                 alias |-> task[k].alias, archived |-> FALSE, recent |-> TRUE,
                 qr |-> FALSE, tags |-> task[k].tags]]
        BY <1>2 DEF Insert
    <2>3. [state |-> "live", by |-> task[k].by, code |-> task[k].code,
           alias |-> task[k].alias, archived |-> FALSE, recent |-> TRUE,
           qr |-> FALSE, tags |-> task[k].tags] \in LinkRow
        BY <2>1 DEF Creating, LinkRow
    <2>4. link' \in [Links -> LinkRow \cup [state: {"none", "gone"}]]
        BY <2>2, <2>3 DEF CatalogueTypeOK
    <2>5. task[k].alias \in Name /\ task[k].code \in Name
        BY <2>1 DEF Creating
    <2>6. taken' \subseteq Names
        BY <1>2, <2>5, StoresTypes DEF Insert
    <2>7. given' \subseteq Names
        BY <1>2, <2>5 DEF Insert, CatalogueTypeOK, Name, Coded
    <2>8. task' \in [Tasks -> TaskState]
        BY <1>2, GoesTypes DEF Insert, CatalogueTypeOK, TaskState
    <2>9. QED
        BY <1>2, <2>4, <2>6, <2>7, <2>8, LinkTypes DEF Insert, CatalogueTypeOK
<1>3. ASSUME NEW k \in Tasks, Modify(k)
      PROVE  CatalogueTypeOK'
    <2>1. task[k] \in Updating
        BY <1>3, TaskTypes DEF Modify, TaskAt, CatalogueTypeOK
    <2>. DEFINE l == task[k].link
                old == link[l]
    <2>2. PICK alias, archived :
             /\ alias = IF task[k].alias = NoName THEN old.alias ELSE task[k].alias
             /\ archived = IF task[k].archived = "keep" THEN task[k].seen.archived
                           ELSE task[k].archived = "yes"
        OBVIOUS
    <2>3. l \in Live
        BY <1>3 DEF Modify
    <2>4. old \in LinkRow /\ l \in Links
        BY <2>3, RowTypes
    <2>5. alias \in Name /\ task[k].alias \in Name
        BY <2>1, <2>2, <2>4 DEF Updating, LinkRow
    <2>6. archived \in BOOLEAN
        BY <2>1, <2>2 DEF Updating
    <2>7. PICK qr \in BOOLEAN : qr = (old.qr /\ ~ForgetsQr(k))
        OBVIOUS
    <2>8. PICK tags \in SUBSET Tags :
             tags = IF task[k].tags = KeepTags THEN old.tags ELSE task[k].tags
        BY <2>1, <2>4 DEF Updating, LinkRow
    <2>9. /\ link' = [link EXCEPT ![l] =
                 [state |-> "live", by |-> old.by, code |-> old.code, alias |-> alias,
                  archived |-> archived, recent |-> old.recent, qr |-> qr, tags |-> tags]]
          /\ given' = given \cup {n \in {alias} \ {old.alias, old.code} : Coded(n)}
          /\ repointed' = repointed \cup {m \in {l} : alias # old.alias /\ MakingQr(m)}
          /\ reopened' = reopened \cup {o \in {old.by} : old.archived /\ ~archived}
        BY <1>3, <2>2, <2>7, <2>8 DEF Modify
    <2>10. [state |-> "live", by |-> old.by, code |-> old.code, alias |-> alias,
            archived |-> archived, recent |-> old.recent, qr |-> qr, tags |-> tags] \in LinkRow
        BY <2>4, <2>5, <2>6, <2>7, <2>8 DEF LinkRow
    <2>11. link' \in [Links -> LinkRow \cup [state: {"none", "gone"}]]
        BY <2>9, <2>10 DEF CatalogueTypeOK
    <2>12. given' \subseteq Names
        BY <2>5, <2>9 DEF CatalogueTypeOK, Name, Coded
    <2>13. repointed' \subseteq Links
        BY <2>4, <2>9 DEF CatalogueTypeOK
    <2>14. reopened' \subseteq Creators
        BY <2>4, <2>9 DEF CatalogueTypeOK, LinkRow
    <2>15. taken' \subseteq Names
        BY <1>3, <2>5, StoresTypes DEF Modify
    <2>16. task' \in [Tasks -> TaskState]
        BY <1>3, GoesTypes DEF Modify, CatalogueTypeOK, TaskState
    <2>17. QED
        BY <1>3, <2>11, <2>12, <2>13, <2>14, <2>15, <2>16, LinkTypes DEF Modify, CatalogueTypeOK
<1>4. ASSUME NEW k \in Tasks, Edit(k)
      PROVE  CatalogueTypeOK'
    <2>1. task[k] \in Editing
        BY <1>4, TaskTypes DEF Edit, TaskAt, CatalogueTypeOK
    <2>2. task[k].alias \in Name
        BY <2>1 DEF Editing, Name
    <2>3. task[k].link \in Live /\ task[k].link \in Links
        BY <1>4 DEF Edit, Live
    <2>4. link' \in [Links -> LinkRow \cup [state: {"none", "gone"}]]
        BY <1>4, <2>2, <2>3, RowTypes DEF Edit, CatalogueTypeOK
    <2>5. taken' \subseteq Names
        BY <1>4, <2>2, StoresTypes DEF Edit
    <2>6. task' \in [Tasks -> TaskState]
        BY <1>4, GoesTypes DEF Edit, CatalogueTypeOK, TaskState
    <2>7. QED
        BY <1>4, <2>3, <2>4, <2>5, <2>6, LinkTypes DEF Edit, CatalogueTypeOK
<1>5. ASSUME NEW k \in Tasks, PutImage(k)
      PROVE  CatalogueTypeOK'
    <2>1. task[k] \in Drawing
        BY <1>5, TaskTypes DEF PutImage, TaskAt, CatalogueTypeOK
    <2>2. task' \in [Tasks -> TaskState]
        BY <1>5, <2>1, GoesTypes, LastMoves DEF PutImage, CatalogueTypeOK, TaskState
    <2>3. image' \in [Links -> Name]
        BY <1>5, <2>1 DEF PutImage, CatalogueTypeOK, Drawing
    <2>4. QED
        BY <1>5, <2>2, <2>3 DEF PutImage, CatalogueTypeOK, catalogueObserved
<1>6. ASSUME NEW k \in Tasks, SetQrUrl(k)
      PROVE  CatalogueTypeOK'
    <2>1. task[k].link \in Live /\ task[k].link \in Links
        BY <1>6 DEF SetQrUrl, Live
    <2>2. link' \in [Links -> LinkRow \cup [state: {"none", "gone"}]]
        BY <1>6, <2>1, RowTypes DEF SetQrUrl, CatalogueTypeOK
    <2>3. task' \in [Tasks -> TaskState]
        BY <1>6, GoesTypes DEF SetQrUrl, CatalogueTypeOK, TaskState
    <2>4. QED
        BY <1>6, <2>1, <2>2, <2>3, LinkTypes DEF SetQrUrl, CatalogueTypeOK
<1>7. ASSUME NEW l \in Links, ArchiveLink(l)
      PROVE  CatalogueTypeOK'
    <2>1. link' \in [Links -> LinkRow \cup [state: {"none", "gone"}]]
        BY <1>7, RowTypes DEF ArchiveLink, CatalogueTypeOK
    <2>2. QED
        BY <1>7, <2>1, TableTypes DEF ArchiveLink, CatalogueTypeOK
<1>8. ASSUME NEW l \in Links, UnarchiveLink(l)
      PROVE  CatalogueTypeOK'
    <2>1. link' \in [Links -> LinkRow \cup [state: {"none", "gone"}]]
        BY <1>8, RowTypes DEF UnarchiveLink, CatalogueTypeOK
    <2>2. reopened' \subseteq Creators
        BY <1>8, RowTypes DEF UnarchiveLink, CatalogueTypeOK
    <2>3. QED
        BY <1>8, <2>1, <2>2, LinkTypes DEF UnarchiveLink, CatalogueTypeOK
<1>9. ASSUME NEW l \in Links, DeleteLink(l)
      PROVE  CatalogueTypeOK'
    <2>1. link' \in [Links -> LinkRow \cup [state: {"none", "gone"}]]
        BY <1>9 DEF DeleteLink, CatalogueTypeOK
    <2>2. QED
        BY <1>9, <2>1, TableTypes DEF DeleteLink, CatalogueTypeOK
<1>10. CASE DayPasses
    <2>1. link' \in [Links -> LinkRow \cup [state: {"none", "gone"}]]
        BY <1>10, RowTypes DEF DayPasses, CatalogueTypeOK
    <2>2. QED
        BY <1>10, <2>1, TableTypes DEF DayPasses, CatalogueTypeOK
<1>11. ASSUME NEW t \in Tags, NEW o \in Owners, CreateTag(t, o)
       PROVE  CatalogueTypeOK'
    BY <1>11, TableTypes DEF CreateTag, CatalogueTypeOK
<1>12. ASSUME NEW t \in Tags, DeleteTag(t)
       PROVE  CatalogueTypeOK'
    <2>1. \A l \in Live : link[l].tags \ {t} \in SUBSET Tags
        BY RowTypes
    <2>2. \A l \in Live : [link[l] EXCEPT !.tags = @ \ {t}] \in LinkRow
        BY <2>1, RowTypes
    <2>3. link' \in [Links -> LinkRow \cup [state: {"none", "gone"}]]
        BY <1>12, <2>2 DEF DeleteTag, CatalogueTypeOK
    <2>4. tagOwner' \in [Tags -> Owners \cup {NoName, Gone}]
        BY <1>12 DEF DeleteTag, CatalogueTypeOK
    <2>5. QED
        BY <1>12, <2>3, <2>4, TableTypes DEF DeleteTag
<1>13. ASSUME NEW l \in Links, NEW t \in Tags, AddTagToLink(l, t)
       PROVE  CatalogueTypeOK'
    <2>1. link[l].tags \cup {t} \in SUBSET Tags /\ l \in Live
        BY <1>13, RowTypes DEF AddTagToLink
    <2>2. [link[l] EXCEPT !.tags = @ \cup {t}] \in LinkRow
        BY <2>1, RowTypes
    <2>3. link' \in [Links -> LinkRow \cup [state: {"none", "gone"}]]
        BY <1>13, <2>2 DEF AddTagToLink, CatalogueTypeOK
    <2>4. QED
        BY <1>13, <2>3, TableTypes DEF AddTagToLink, CatalogueTypeOK
<1>14. ASSUME NEW l \in Links, NEW t \in Tags, RemoveTagFromLink(l, t)
       PROVE  CatalogueTypeOK'
    <2>1. link[l].tags \ {t} \in SUBSET Tags /\ l \in Live
        BY <1>14, RowTypes DEF RemoveTagFromLink
    <2>2. [link[l] EXCEPT !.tags = @ \ {t}] \in LinkRow
        BY <2>1, RowTypes
    <2>3. link' \in [Links -> LinkRow \cup [state: {"none", "gone"}]]
        BY <1>14, <2>2 DEF RemoveTagFromLink, CatalogueTypeOK
    <2>4. QED
        BY <1>14, <2>3, TableTypes DEF RemoveTagFromLink, CatalogueTypeOK
<1>15. QED
    BY <1>1, <1>2, <1>3, <1>4, <1>5, <1>6, <1>7, <1>8, <1>9, <1>10, <1>11, <1>12, <1>13, <1>14
       DEF Writes, HandleTags

-----------------------------------------------------------------------------
(* Every step keeps the invariant.                                         *)

(* A row that is otherwise as it was.                                      *)
SameRow(new, old) ==
    new.state = old.state /\ new.by = old.by /\ new.code = old.code /\ new.alias = old.alias
    /\ new.qr = old.qr

LEMMA RowKeeps ==
    ASSUME NEW r \in LinkRow
    PROVE  /\ \A a \in BOOLEAN : /\ SameRow([r EXCEPT !.archived = a], r)
                                 /\ [r EXCEPT !.archived = a].tags = r.tags
           /\ SameRow([r EXCEPT !.recent = FALSE], r) /\ [r EXCEPT !.recent = FALSE].tags = r.tags
           /\ \A tags : /\ SameRow([r EXCEPT !.tags = tags], r)
                        /\ [r EXCEPT !.tags = tags].tags = tags
BY DEF SameRow, LinkRow

LEMMA TaskFields ==
    ASSUME CatalogueTypeOK, NEW k \in Tasks
    PROVE  /\ task[k].pc \in {"name", "tags", "insert"} =>
                 task[k].by \in Creators /\ task[k].tags \subseteq Tags
                 /\ task[k].alias \in Name /\ task[k].code \in Name
           /\ task[k].pc \in {"alias", "retag", "modify"} =>
                 /\ task[k].by \in Owners /\ task[k].link \in Links /\ task[k].alias \in Name
                 /\ task[k].tags \subseteq Tags \/ task[k].tags = KeepTags
           /\ task[k].pc \in {"both", "edit"} => task[k].link \in Links /\ task[k].alias \in Names
           /\ task[k].pc \in {"put", "url"} => task[k].link \in Links /\ task[k].name \in Name
<1>1. task \in [Tasks -> TaskState]
    BY DEF CatalogueTypeOK
<1>2. QED
    BY <1>1, TaskTypes DEF Creating, Updating, Editing, Drawing

(* Where no link gets or changes a name, and tags at most come and go.     *)
LEMMA NamesStay ==
    ASSUME CatalogueTypeOK, CodesUnique, NamesResolveAlone, QrLeadsHere, TasksFit,
           \A l \in Links : link'[l].state = "live" => SameRow(link'[l], link[l]),
           \A l \in Links : link[l].state # "none" => link'[l].state # "none",
           \A t \in Tags : tagOwner[t] = NoName \/ tagOwner'[t] \in {tagOwner[t], Gone},
           UNCHANGED <<image, task, given, taken, edited, repointed>>
    PROVE  CodesUnique' /\ NamesResolveAlone' /\ QrLeadsHere' /\ TasksFit'
<1>1. \A l \in Live' : l \in Live /\ SameRow(link'[l], link[l])
    BY DEF Live, SameRow
<1>2. CodesUnique' /\ NamesResolveAlone'
    BY <1>1 DEF CodesUnique, NamesResolveAlone, SameRow
<1>3. QrLeadsHere'
    BY <1>1 DEF QrLeadsHere, SameRow
<1>4. ASSUME NEW k \in Tasks
      PROVE  Fits(task[k])'
    <2>1. Fits(task[k]) /\ task'[k] = task[k]
        BY DEF TasksFit
    <2>2. NameFits(task[k])'
        BY <1>1, <2>1 DEF Fits, NameFits, SameRow
    <2>3. TagFits(task[k])'
        <3>1. ASSUME task[k].pc \in {"insert", "modify"}, NEW t \in task[k].tags \ KeepTags
              PROVE  tagOwner'[t] \in {task[k].by, Gone}
            <4>1. t \in Tags /\ task[k].by \in Creators
                BY <3>1, TaskFields DEF Creators
            <4>2. tagOwner[t] \in {task[k].by, Gone}
                BY <2>1, <3>1 DEF Fits, TagFits
            <4>3. task[k].by # NoName /\ Gone # NoName
                BY <4>1, NamesAssumption DEF Creators, NoName, Gone
            <4>4. QED
                BY <4>1, <4>2, <4>3
        <3>2. task[k].pc \in {"alias", "retag", "modify"} /\ task[k].link \in Live'
                  => link'[task[k].link].by = task[k].by
            BY <1>1, <2>1 DEF Fits, TagFits, SameRow
        <3>3. QED
            BY <2>1, <3>1, <3>2 DEF TagFits
    <2>4. LinkFits(task[k])'
        BY <2>1, TaskFields DEF Fits, LinkFits
    <2>5. QrFits(task[k])'
        BY <1>1, <2>1 DEF Fits, QrFits, SameRow, Renamed
    <2>6. QED
        BY <2>2, <2>3, <2>4, <2>5 DEF Fits
<1>5. QED
    BY <1>2, <1>3, <1>4 DEF TasksFit

LEMMA InsertFits ==
    ASSUME CatalogueTypeOK, Tidy, NEW k \in Tasks, Insert(k)
    PROVE  Tidy'
<1>1. /\ task[k].pc = "insert" /\ Fits(task[k]) /\ task[k].by \in Creators
      /\ task[k].tags \subseteq Tags /\ task[k].alias \in Name /\ task[k].code \in Name
    BY TaskFields DEF Insert, TaskAt, Tidy, TasksFit
<1>2. PICK l \in Links :
          /\ link[l].state = "none"
          /\ link' = [link EXCEPT ![l] =
                [state |-> "live", by |-> task[k].by, code |-> task[k].code,
                 alias |-> task[k].alias, archived |-> FALSE, recent |-> TRUE,
                 qr |-> FALSE, tags |-> task[k].tags]]
    BY DEF Insert
<1>3. /\ link'[l].state = "live" /\ link'[l].by = task[k].by /\ link'[l].code = task[k].code
      /\ link'[l].alias = task[k].alias /\ link'[l].qr = FALSE /\ link'[l].tags = task[k].tags
      /\ \A m \in Links \ {l} : link'[m] = link[m]
    BY <1>2 DEF CatalogueTypeOK
<1>4. /\ l \notin Live /\ Live' = Live \cup {l}
      /\ \A m \in Live : link'[m] = link[m]
    BY <1>2, <1>3 DEF Live
<1>5. /\ ~Coded(task[k].code) /\ ~Aliased(task[k].alias, {}) /\ TagsThere(task[k].tags)
      /\ Stores(k, IF task[k].alias = NoName THEN task[k].code ELSE task[k].alias)
      /\ given' = given \cup {n \in {task[k].alias} : Coded(n)}
      /\ UNCHANGED <<image, tagOwner, edited, repointed>>
    BY DEF Insert
<1>6. CodesUnique'
    BY <1>3, <1>4, <1>5 DEF Tidy, CodesUnique, Coded
<1>7. taken \subseteq taken'
    BY <1>5 DEF Stores
<1>8. NamesResolveAlone'
    <2>1. SUFFICES ASSUME NEW m \in Live', NEW o \in Live', NEW n \in Names, m # o,
                          n = link'[m].code, n = link'[o].alias
                   PROVE  n \in given' \cup taken'
        BY DEF NamesResolveAlone
    <2>2. n # NoName
        BY NamesAssumption
    <2>3. CASE m = l
        BY <1>1, <1>3, <1>4, <1>7, <2>1, <2>2, <2>3 DEF Fits, NameFits
    <2>4. CASE o = l
        BY <1>3, <1>4, <1>5, <2>1, <2>2, <2>4 DEF Coded
    <2>5. CASE m # l /\ o # l
        BY <1>4, <1>5, <1>7, <2>1, <2>5 DEF Tidy, NamesResolveAlone
    <2>6. QED
        BY <2>3, <2>4, <2>5
<1>9. LinksCohere'
    <2>1. \A t \in task[k].tags : tagOwner[t] = task[k].by
        BY <1>1, <1>5, NamesAssumption DEF Fits, TagFits, TagsThere, KeepTags
    <2>2. link'[l].code # NoName \/ link'[l].alias # NoName
        BY <1>1, <1>3 DEF Fits, NameFits
    <2>3. QED
        BY <1>3, <1>4, <1>5, <2>1, <2>2 DEF Tidy, LinksCohere
<1>10. QrLeadsHere'
    BY <1>3, <1>4, <1>5 DEF Tidy, QrLeadsHere
<1>11. ASSUME NEW q \in Tasks
       PROVE  Fits(task[q])'
    <2>1. CASE q = k
        <3>1. task'[q] = Idle
            BY <2>1 DEF Insert, TaskGoes, CatalogueTypeOK
        <3>2. QED
            BY <3>1 DEF Fits, NameFits, TagFits, LinkFits, QrFits, Idle
    <2>2. CASE q # k
        <3>1. task'[q] = task[q] /\ Fits(task[q])
            BY <2>2 DEF Insert, TaskGoes, CatalogueTypeOK, Tidy, TasksFit
        <3>2. task[q].pc \in {"alias", "retag", "modify", "both", "edit", "put", "url"} =>
                  task[q].link \in Links /\ link'[task[q].link] = link[task[q].link]
                  /\ (task[q].link \in Live' => task[q].link \in Live)
            <4>1. SUFFICES ASSUME task[q].pc \in {"alias", "retag", "modify", "both", "edit", "put", "url"}
                  PROVE  /\ task[q].link \in Links /\ link'[task[q].link] = link[task[q].link]
                         /\ task[q].link \in Live' => task[q].link \in Live
                OBVIOUS
            <4>2. task[q].link \in Links
                BY <4>1, TaskFields
            <4>3. link[task[q].link].state # "none"
                BY <3>1, <4>1 DEF Fits, LinkFits
            <4>4. task[q].link # l
                BY <1>2, <4>3
            <4>5. QED
                BY <1>3, <1>4, <4>2, <4>4
        <3>3. \A n \in Claims(q) : n # NoName /\ n \in {task[k].code, task[k].alias} => n \in taken'
            BY <1>1, <1>5, <2>2 DEF Stores, Fits, NameFits
        <3>4. NameFits(task[q])'
            <4>1. ASSUME task[q].pc \in {"tags", "insert"}, task[q].code # NoName,
                         task[q].code \notin taken', NEW m \in Live'
                  PROVE  link'[m].alias # task[q].code
                BY <1>3, <1>4, <1>7, <3>1, <3>3, <4>1 DEF Fits, NameFits, Claims
            <4>2. ASSUME task[q].pc = "edit", task[q].alias \notin taken',
                         NEW m \in Live' \ {task[q].link}
                  PROVE  link'[m].code # task[q].alias
                <5>1. task[q].alias # NoName
                    BY <4>2, TaskFields, NamesAssumption
                <5>2. QED
                    BY <1>3, <1>4, <1>7, <3>1, <3>3, <4>2, <5>1 DEF Fits, NameFits, Claims
            <4>3. QED
                BY <3>1, <4>1, <4>2 DEF Fits, NameFits
        <3>5. TagFits(task[q])'
            BY <1>5, <3>1, <3>2 DEF Fits, TagFits
        <3>6. LinkFits(task[q])'
            BY <3>1, <3>2 DEF Fits, LinkFits
        <3>7. QrFits(task[q])'
            BY <1>5, <3>1, <3>2 DEF Fits, QrFits, Renamed
        <3>8. QED
            BY <3>4, <3>5, <3>6, <3>7 DEF Fits
    <2>3. QED
        BY <2>1, <2>2
<1>12. QED
    BY <1>6, <1>8, <1>9, <1>10, <1>11 DEF Tidy, TasksFit

LEMMA ModifyFits ==
    ASSUME CatalogueTypeOK, Tidy, NEW k \in Tasks, Modify(k)
    PROVE  Tidy'
<1>. DEFINE l == task[k].link
            old == link[l]
<1>1. /\ task[k].pc = "modify" /\ Fits(task[k]) /\ task[k].by \in Owners /\ task[k].alias \in Name
      /\ task[k].tags \subseteq Tags \/ task[k].tags = KeepTags
    BY TaskFields DEF Modify, TaskAt, Tidy, TasksFit
<1>2. l \in Live /\ l \in Links /\ old \in LinkRow
    BY RowTypes DEF Modify
<1>3. PICK alias \in Name : alias = IF task[k].alias = NoName THEN old.alias ELSE task[k].alias
    BY <1>1, <1>2 DEF LinkRow
<1>4. PICK archived : archived = IF task[k].archived = "keep" THEN task[k].seen.archived
                                 ELSE task[k].archived = "yes"
    OBVIOUS
<1>5. PICK qr \in BOOLEAN : qr = (old.qr /\ ~ForgetsQr(k))
    OBVIOUS
<1>6. PICK tags : tags = IF task[k].tags = KeepTags THEN old.tags ELSE task[k].tags
    OBVIOUS
<1>7. /\ link' = [link EXCEPT ![l] =
             [state |-> "live", by |-> old.by, code |-> old.code, alias |-> alias,
              archived |-> archived, recent |-> old.recent, qr |-> qr, tags |-> tags]]
      /\ given' = given \cup {n \in {alias} \ {old.alias, old.code} : Coded(n)}
      /\ repointed' = repointed \cup {m \in {l} : alias # old.alias /\ MakingQr(m)}
      /\ Stores(k, task[k].alias) /\ TagsThere(task[k].tags)
      /\ UNCHANGED <<image, tagOwner, edited>>
    BY <1>3, <1>4, <1>5, <1>6 DEF Modify
<1>8. PICK by, code : by = old.by /\ code = old.code
    OBVIOUS
<1>9. /\ link'[l].state = "live" /\ link'[l].by = by /\ link'[l].code = code
      /\ link'[l].alias = alias /\ link'[l].qr = qr /\ link'[l].tags = tags
      /\ \A m \in Links \ {l} : link'[m] = link[m]
    BY <1>2, <1>7, <1>8 DEF CatalogueTypeOK
<1>10. Live' = Live /\ taken \subseteq taken'
    BY <1>2, <1>7, <1>9 DEF Live, Stores
<1>11. \A m \in Links : link'[m].code = link[m].code /\ link'[m].by = link[m].by
    BY <1>8, <1>9
<1>12. CodesUnique'
    BY <1>10, <1>11 DEF Tidy, CodesUnique, Live
<1>13. NamesResolveAlone'
    <2>1. SUFFICES ASSUME NEW m \in Live', NEW o \in Live', NEW n \in Names, m # o,
                          n = link'[m].code, n = link'[o].alias
                   PROVE  n \in given' \cup taken'
        BY DEF NamesResolveAlone
    <2>2. n # NoName /\ m \in Live /\ o \in Live /\ link[m].code = n
        BY <1>10, <1>11, <2>1, NamesAssumption DEF Live
    <2>3. CASE o = l
        <3>1. n = alias
            BY <1>9, <2>1, <2>3
        <3>2. CASE alias = old.alias
            BY <1>7, <1>10, <2>1, <2>2, <2>3, <3>1, <3>2 DEF Tidy, NamesResolveAlone
        <3>3. CASE alias # old.alias
            <4>1. n # old.code
                BY <1>2, <2>1, <2>2, <2>3 DEF Tidy, CodesUnique
            <4>2. Coded(n)
                BY <2>2 DEF Coded
            <4>3. QED
                BY <1>7, <3>1, <3>3, <4>1, <4>2
        <3>4. QED
            BY <3>2, <3>3
    <2>4. CASE o # l
        BY <1>7, <1>9, <1>10, <2>1, <2>2, <2>4 DEF Tidy, NamesResolveAlone, Live
    <2>5. QED
        BY <2>3, <2>4
<1>14. LinksCohere'
    <2>1. code # NoName \/ alias # NoName
        BY <1>2, <1>3, <1>8 DEF Tidy, LinksCohere
    <2>2. \A t \in tags : tagOwner[t] = by
        <3>1. CASE task[k].tags = KeepTags
            BY <1>2, <1>6, <1>8, <3>1 DEF Tidy, LinksCohere
        <3>2. CASE task[k].tags # KeepTags
            <4>1. old.by = task[k].by
                BY <1>1, <1>2 DEF Fits, TagFits
            <4>2. \A t \in task[k].tags : t \notin KeepTags
                BY <1>1, <3>2, NamesAssumption DEF KeepTags
            <4>3. \A t \in task[k].tags : tagOwner[t] \in {task[k].by, Gone} /\ tagOwner[t] \in Owners
                BY <1>1, <1>7, <4>2 DEF Fits, TagFits, TagsThere
            <4>4. QED
                BY <1>6, <1>8, <3>2, <4>1, <4>3, NamesAssumption
        <3>3. QED
            BY <3>1, <3>2
    <2>3. QED
        BY <1>7, <1>9, <1>10, <2>1, <2>2 DEF Tidy, LinksCohere, Live
(* A new alias leaves no QR code, unless somebody renamed the link.        *)
<1>15. l \notin Renamed' /\ alias # old.alias => qr = FALSE
    <2>1. SUFFICES ASSUME l \notin Renamed', alias # old.alias
                   PROVE  qr = FALSE
        OBVIOUS
    <2>2. task[k].alias # NoName /\ l \in Live \ Renamed
        BY <1>2, <1>3, <1>7, <2>1 DEF Renamed
    <2>3. old.qr = FALSE \/ (task[k].seen.qr = TRUE /\ task[k].seen.alias = old.alias)
        BY <1>1, <2>2 DEF Fits, QrFits
    <2>4. task[k].seen.qr = TRUE /\ task[k].seen.alias = old.alias => ForgetsQr(k)
        BY <1>3, <2>1, <2>2 DEF ForgetsQr
    <2>5. QED
        BY <1>5, <2>3, <2>4
<1>16. qr = TRUE => old.qr = TRUE
    BY <1>2, <1>5 DEF LinkRow
<1>17. QrLeadsHere'
    <2>1. SUFFICES ASSUME NEW m \in Live' \ (edited' \cup repointed'), link'[m].qr
                   PROVE  image'[m] \in {link'[m].code, link'[m].alias}
        BY DEF QrLeadsHere
    <2>2. m \in Live \ (edited \cup repointed)
        BY <1>7, <1>10, <2>1
    <2>3. CASE m = l
        <3>1. qr = TRUE /\ alias = old.alias
            BY <1>9, <1>15, <2>1, <2>3 DEF Renamed
        <3>2. image[l] \in {old.code, old.alias}
            BY <1>16, <2>2, <2>3, <3>1 DEF Tidy, QrLeadsHere
        <3>3. QED
            BY <1>7, <1>8, <1>9, <2>3, <3>1, <3>2
    <2>4. CASE m # l
        BY <1>7, <1>9, <2>1, <2>2, <2>4 DEF Tidy, QrLeadsHere, Live
    <2>5. QED
        BY <2>3, <2>4
<1>18. ASSUME NEW q \in Tasks
       PROVE  Fits(task[q])'
    <2>1. CASE q = k
        <3>1. task'[q] = Idle
            BY <2>1 DEF Modify, TaskGoes, CatalogueTypeOK
        <3>2. QED
            BY <3>1 DEF Fits, NameFits, TagFits, LinkFits, QrFits, Idle
    <2>2. CASE q # k
        <3>1. task'[q] = task[q] /\ Fits(task[q])
            BY <2>2 DEF Modify, TaskGoes, CatalogueTypeOK, Tidy, TasksFit
        <3>2. NameFits(task[q])'
            <4>1. ASSUME task[q].pc \in {"tags", "insert"}, task[q].code # NoName,
                         task[q].code \notin taken', NEW m \in Live'
                  PROVE  link'[m].alias # task[q].code
                <5>1. task[q].code # task[k].alias
                    BY <1>7, <2>2, <4>1 DEF Stores, Claims
                <5>2. \A o \in Live : link[o].alias # task[q].code
                    BY <1>10, <3>1, <4>1 DEF Fits, NameFits
                <5>3. alias # task[q].code
                    BY <1>2, <1>3, <5>1, <5>2
                <5>4. QED
                    BY <1>9, <1>10, <4>1, <5>2, <5>3 DEF Live
            <4>2. ASSUME task[q].pc = "edit", task[q].alias \notin taken',
                         NEW m \in Live' \ {task[q].link}
                  PROVE  link'[m].code # task[q].alias
                BY <1>10, <1>11, <3>1, <4>2 DEF Fits, NameFits, Live
            <4>3. QED
                BY <3>1, <4>1, <4>2 DEF Fits, NameFits
        <3>3. TagFits(task[q])'
            BY <1>7, <1>10, <1>11, <3>1 DEF Fits, TagFits, Live
        <3>4. LinkFits(task[q])'
            <4>1. \A m \in Links : link[m].state # "none" => link'[m].state # "none"
                BY <1>9
            <4>2. QED
                BY <3>1, <4>1, TaskFields DEF Fits, LinkFits
        <3>5. QrFits(task[q])'
            <4>1. CASE task[q].pc \in {"alias", "retag", "modify", "put", "url"} /\ task[q].link = l
                           /\ alias # old.alias
                <5>1. task[q].pc \in {"put", "url"} => l \in Renamed'
                    BY <1>7, <4>1 DEF MakingQr, Renamed
                <5>2. l \notin Renamed' => link'[l].qr = FALSE
                    BY <1>9, <1>15, <4>1
                <5>3. QED
                    BY <3>1, <4>1, <5>1, <5>2 DEF QrFits
            <4>2. CASE task[q].pc \in {"alias", "retag", "modify", "put", "url"} /\ task[q].link = l
                           /\ alias = old.alias
                <5>1. link'[l].alias = link[l].alias /\ link'[l].code = link[l].code /\ image' = image
                    BY <1>7, <1>8, <1>9, <4>2
                <5>2. link[l].qr = FALSE => link'[l].qr = FALSE
                    BY <1>9, <1>16
                <5>3. l \in Live' \ Renamed' => l \in Live \ Renamed
                    BY <1>7, <1>10 DEF Renamed
                <5>4. QED
                    BY <3>1, <4>2, <5>1, <5>2, <5>3 DEF Fits, QrFits
            <4>3. CASE ~(task[q].pc \in {"alias", "retag", "modify", "put", "url"} /\ task[q].link = l)
                <5>1. \A m \in Live' \ Renamed' : m # l =>
                          m \in Live \ Renamed /\ link'[m] = link[m] /\ image'[m] = image[m]
                    BY <1>7, <1>9, <1>10 DEF Renamed, Live
                <5>2. QED
                    BY <3>1, <4>3, <5>1 DEF Fits, QrFits
            <4>4. QED
                BY <4>1, <4>2, <4>3
        <3>6. QED
            BY <3>2, <3>3, <3>4, <3>5 DEF Fits
    <2>3. QED
        BY <2>1, <2>2
<1>19. QED
    BY <1>12, <1>13, <1>14, <1>17, <1>18 DEF Tidy, TasksFit

LEMMA EditFits ==
    ASSUME CatalogueTypeOK, Tidy, NEW k \in Tasks, Edit(k)
    PROVE  Tidy'
<1>. DEFINE l == task[k].link
<1>1. task[k].pc = "edit" /\ Fits(task[k]) /\ task[k].alias \in Names
    BY TaskFields DEF Edit, TaskAt, Tidy, TasksFit
<1>2. PICK alias \in Name : alias = task[k].alias /\ alias # NoName
    BY <1>1, NamesAssumption DEF Name
<1>3. l \in Live /\ l \in Links /\ link[l] \in LinkRow
    BY RowTypes DEF Edit
<1>4. /\ link' = [link EXCEPT ![l].alias = alias]
      /\ Stores(k, alias) /\ edited' = edited \cup {l}
      /\ UNCHANGED <<image, tagOwner, given, repointed>>
    BY <1>2 DEF Edit
<1>5. /\ link'[l].state = "live" /\ link'[l].by = link[l].by /\ link'[l].code = link[l].code
      /\ link'[l].alias = alias /\ link'[l].qr = link[l].qr /\ link'[l].tags = link[l].tags
      /\ \A m \in Links \ {l} : link'[m] = link[m]
    BY <1>3, <1>4 DEF CatalogueTypeOK, LinkRow
<1>6. Live' = Live /\ taken \subseteq taken' /\ l \in Renamed'
    BY <1>3, <1>4, <1>5 DEF Live, Stores, Renamed
<1>7. \A m \in Links : link'[m].code = link[m].code /\ link'[m].by = link[m].by
                       /\ link'[m].tags = link[m].tags
    BY <1>5
<1>8. CodesUnique'
    BY <1>6, <1>7 DEF Tidy, CodesUnique, Live
<1>9. NamesResolveAlone'
    <2>1. SUFFICES ASSUME NEW m \in Live', NEW o \in Live', NEW n \in Names, m # o,
                          n = link'[m].code, n = link'[o].alias
                   PROVE  n \in given' \cup taken'
        BY DEF NamesResolveAlone
    <2>2. m \in Live /\ o \in Live /\ link[m].code = n
        BY <1>6, <1>7, <2>1 DEF Live
    <2>3. CASE o = l
        BY <1>1, <1>2, <1>5, <1>6, <2>1, <2>2, <2>3 DEF Fits, NameFits
    <2>4. CASE o # l
        BY <1>4, <1>5, <1>6, <2>1, <2>2, <2>4 DEF Tidy, NamesResolveAlone, Live
    <2>5. QED
        BY <2>3, <2>4
<1>10. LinksCohere'
    BY <1>2, <1>4, <1>5, <1>6 DEF Tidy, LinksCohere, Live
<1>11. QrLeadsHere'
    BY <1>4, <1>5, <1>6 DEF Tidy, QrLeadsHere, Live
<1>12. ASSUME NEW q \in Tasks
       PROVE  Fits(task[q])'
    <2>1. CASE q = k
        <3>1. task'[q] = Idle
            BY <2>1 DEF Edit, TaskGoes, CatalogueTypeOK
        <3>2. QED
            BY <3>1 DEF Fits, NameFits, TagFits, LinkFits, QrFits, Idle
    <2>2. CASE q # k
        <3>1. task'[q] = task[q] /\ Fits(task[q])
            BY <2>2 DEF Edit, TaskGoes, CatalogueTypeOK, Tidy, TasksFit
        <3>2. NameFits(task[q])'
            <4>1. ASSUME task[q].pc \in {"tags", "insert"}, task[q].code # NoName,
                         task[q].code \notin taken', NEW m \in Live'
                  PROVE  link'[m].alias # task[q].code
                <5>1. task[q].code # alias
                    BY <1>4, <2>2, <4>1 DEF Stores, Claims
                <5>2. \A o \in Live : link[o].alias # task[q].code
                    BY <1>6, <3>1, <4>1 DEF Fits, NameFits
                <5>3. QED
                    BY <1>5, <1>6, <4>1, <5>1, <5>2 DEF Live
            <4>2. ASSUME task[q].pc = "edit", task[q].alias \notin taken',
                         NEW m \in Live' \ {task[q].link}
                  PROVE  link'[m].code # task[q].alias
                BY <1>6, <1>7, <3>1, <4>2 DEF Fits, NameFits, Live
            <4>3. QED
                BY <3>1, <4>1, <4>2 DEF Fits, NameFits
        <3>3. TagFits(task[q])'
            BY <1>4, <1>6, <1>7, <3>1 DEF Fits, TagFits, Live
        <3>4. LinkFits(task[q])'
            <4>1. \A m \in Links : link[m].state # "none" => link'[m].state # "none"
                BY <1>5
            <4>2. QED
                BY <3>1, <4>1, TaskFields DEF Fits, LinkFits
        <3>5. QrFits(task[q])'
            <4>1. \A m \in Live' \ Renamed' :
                      m \in Live \ Renamed /\ link'[m] = link[m] /\ image'[m] = image[m]
                BY <1>4, <1>5, <1>6 DEF Renamed, Live
            <4>2. QED
                BY <3>1, <4>1 DEF Fits, QrFits
        <3>6. QED
            BY <3>2, <3>3, <3>4, <3>5 DEF Fits
    <2>3. QED
        BY <2>1, <2>2
<1>13. QED
    BY <1>8, <1>9, <1>10, <1>11, <1>12 DEF Tidy, TasksFit

LEMMA PutImageFits ==
    ASSUME CatalogueTypeOK, Tidy, NEW k \in Tasks, PutImage(k)
    PROVE  Tidy'
<1>. DEFINE l == task[k].link
            r == [task[k] EXCEPT !.pc = "url"]
<1>1. task[k].pc = "put" /\ Fits(task[k]) /\ task[k] \in Drawing
    BY TaskTypes DEF PutImage, TaskAt, Tidy, TasksFit, CatalogueTypeOK
<1>2. r.pc = "url" /\ r.link = l /\ r.name = task[k].name /\ l \in Links
    BY <1>1, LastMoves DEF Drawing
<1>3. /\ task' = [task EXCEPT ![k] = r]
      /\ image' = [image EXCEPT ![l] = task[k].name]
      /\ UNCHANGED <<link, tagOwner, given, taken, edited, repointed>>
    BY DEF PutImage, TaskGoes, catalogueObserved
<1>. HIDE DEF r
<1>4. /\ image'[l] = task[k].name
      /\ \A m \in Links \ {l} : image'[m] = image[m]
    BY <1>2, <1>3 DEF CatalogueTypeOK
<1>5. l \in Live \ Renamed => image'[l] \in {link[l].code, link[l].alias}
    BY <1>1, <1>4 DEF Fits, QrFits
<1>6. CodesUnique' /\ NamesResolveAlone' /\ LinksCohere'
    BY <1>3 DEF Tidy, CodesUnique, NamesResolveAlone, LinksCohere, Live
<1>7. QrLeadsHere'
    BY <1>3, <1>4, <1>5 DEF Tidy, QrLeadsHere, Live, Renamed
<1>8. ASSUME NEW q \in Tasks
      PROVE  Fits(task[q])'
    <2>1. CASE q = k
        <3>1. task'[q] = r
            BY <1>3, <2>1 DEF CatalogueTypeOK
        <3>2. QED
            BY <1>1, <1>2, <1>3, <1>5, <3>1
               DEF Fits, NameFits, TagFits, LinkFits, QrFits, Live, Renamed
    <2>2. CASE q # k
        <3>1. task'[q] = task[q] /\ Fits(task[q])
            BY <1>3, <2>2 DEF CatalogueTypeOK, Tidy, TasksFit
        <3>2. NameFits(task[q])' /\ TagFits(task[q])' /\ LinkFits(task[q])'
            BY <1>3, <3>1 DEF Fits, NameFits, TagFits, LinkFits, Live
        <3>3. QrFits(task[q])'
            BY <1>3, <1>4, <1>5, <3>1 DEF Fits, QrFits, Live, Renamed
        <3>4. QED
            BY <3>2, <3>3 DEF Fits
    <2>3. QED
        BY <2>1, <2>2
<1>9. QED
    BY <1>6, <1>7, <1>8 DEF Tidy, TasksFit

LEMMA SetQrUrlFits ==
    ASSUME CatalogueTypeOK, Tidy, NEW k \in Tasks, SetQrUrl(k)
    PROVE  Tidy'
<1>. DEFINE l == task[k].link
<1>1. task[k].pc = "url" /\ Fits(task[k]) /\ l \in Live /\ l \in Links /\ link[l] \in LinkRow
    BY RowTypes DEF SetQrUrl, TaskAt, Tidy, TasksFit
<1>2. /\ link' = [link EXCEPT ![l].qr = TRUE]
      /\ repointed' = repointed \cup {m \in {l} : Renaming(m)}
      /\ UNCHANGED <<image, tagOwner, given, taken, edited>>
    BY DEF SetQrUrl
<1>3. /\ link'[l].state = "live" /\ link'[l].by = link[l].by /\ link'[l].code = link[l].code
      /\ link'[l].alias = link[l].alias /\ link'[l].tags = link[l].tags
      /\ \A m \in Links \ {l} : link'[m] = link[m]
    BY <1>1, <1>2 DEF CatalogueTypeOK, LinkRow
<1>4. Live' = Live /\ Renamed \subseteq Renamed'
    BY <1>1, <1>2, <1>3 DEF Live, Renamed
<1>5. \A m \in Links : /\ link'[m].code = link[m].code /\ link'[m].by = link[m].by
                       /\ link'[m].alias = link[m].alias /\ link'[m].tags = link[m].tags
    BY <1>3
<1>6. CodesUnique' /\ NamesResolveAlone'
    BY <1>2, <1>4, <1>5 DEF Tidy, CodesUnique, NamesResolveAlone, Live
<1>7. LinksCohere'
    BY <1>2, <1>4, <1>5 DEF Tidy, LinksCohere, Live
<1>8. l \notin Renamed => image[l] \in {link[l].code, link[l].alias}
    BY <1>1 DEF Fits, QrFits
<1>9. QrLeadsHere'
    BY <1>2, <1>3, <1>4, <1>8 DEF Tidy, QrLeadsHere, Renamed, Live
<1>10. ASSUME NEW q \in Tasks
       PROVE  Fits(task[q])'
    <2>1. CASE q = k
        <3>1. task'[q] = Idle
            BY <2>1 DEF SetQrUrl, TaskGoes, CatalogueTypeOK
        <3>2. QED
            BY <3>1 DEF Fits, NameFits, TagFits, LinkFits, QrFits, Idle
    <2>2. CASE q # k
        <3>1. task'[q] = task[q] /\ Fits(task[q])
            BY <2>2 DEF SetQrUrl, TaskGoes, CatalogueTypeOK, Tidy, TasksFit
        <3>2. NameFits(task[q])'
            BY <1>2, <1>4, <1>5, <3>1 DEF Fits, NameFits, Live
        <3>3. TagFits(task[q])'
            BY <1>2, <1>4, <1>5, <3>1 DEF Fits, TagFits, Live
        <3>4. LinkFits(task[q])'
            <4>1. \A m \in Links : link[m].state # "none" => link'[m].state # "none"
                BY <1>3
            <4>2. QED
                BY <3>1, <4>1, TaskFields DEF Fits, LinkFits
        <3>5. QrFits(task[q])'
            <4>1. task[q].pc \in {"alias", "retag", "modify"} /\ task[q].alias # NoName
                  /\ task[q].link = l => l \in Renamed'
                BY <1>2 DEF Renaming, Renamed
            <4>2. \A m \in Live' : m \in Live /\ (m # l => link'[m] = link[m])
                BY <1>3, <1>4 DEF Live
            <4>3. \A m \in Live : link'[m].code = link[m].code /\ link'[m].alias = link[m].alias
                BY <1>5 DEF Live
            <4>4. QED
                BY <1>2, <1>4, <3>1, <4>1, <4>2, <4>3 DEF Fits, QrFits
        <3>6. QED
            BY <3>2, <3>3, <3>4, <3>5 DEF Fits
    <2>3. QED
        BY <2>1, <2>2
<1>11. QED
    BY <1>6, <1>7, <1>9, <1>10 DEF Tidy, TasksFit

(* The steps about a link, or a tag, that rename nothing.                  *)
LEMMA RowsFit ==
    ASSUME CatalogueTypeOK, Tidy,
           \/ \E o \in Owners : TierChanges(o)
           \/ \E l \in Links : ArchiveLink(l) \/ UnarchiveLink(l) \/ DeleteLink(l)
           \/ DayPasses \/ HandleTags
    PROVE  Tidy'
<1>1. ASSUME UNCHANGED <<image, task, given, taken, edited, repointed>>,
             \A l \in Links : link'[l].state = "live" => SameRow(link'[l], link[l]),
             \A l \in Links : link[l].state # "none" => link'[l].state # "none",
             \A t \in Tags : tagOwner[t] = NoName \/ tagOwner'[t] \in {tagOwner[t], Gone},
             \A l \in Live' : \A t \in link'[l].tags : tagOwner'[t] = link'[l].by
      PROVE  Tidy'
    <2>1. LinksCohere'
        BY <1>1 DEF Tidy, LinksCohere, Live, SameRow
    <2>2. QED
        BY <1>1, <2>1, NamesStay DEF Tidy
<1>2. \A l \in Live : \A t \in link[l].tags : t \in Tags /\ tagOwner[t] = link[l].by
    BY RowTypes DEF Tidy, LinksCohere
<1>3. ASSUME NEW o \in Owners, TierChanges(o)
      PROVE  Tidy'
    BY <1>1, <1>2, <1>3 DEF TierChanges, SameRow, Live
<1>4. ASSUME UNCHANGED <<image, tagOwner, task, given, taken, edited, repointed>>,
             \A l \in Links : link[l].state # "none" => link'[l].state # "none",
             \A l \in Links : link'[l].state = "live" =>
                 SameRow(link'[l], link[l]) /\ link'[l].tags = link[l].tags
      PROVE  Tidy'
    <2>1. \A l \in Live' : \A t \in link'[l].tags : tagOwner'[t] = link'[l].by
        BY <1>2, <1>4 DEF Live, SameRow
    <2>2. QED
        BY <1>1, <1>4, <2>1
<1>5. ASSUME NEW l \in Links, ArchiveLink(l) \/ UnarchiveLink(l)
      PROVE  Tidy'
    <2>1. PICK a \in BOOLEAN : link' = [link EXCEPT ![l].archived = a]
        BY <1>5 DEF ArchiveLink, UnarchiveLink
    <2>2. SameRow(link'[l], link[l]) /\ link'[l].tags = link[l].tags
        BY <1>5, <2>1, RowTypes, RowKeeps DEF ArchiveLink, UnarchiveLink, CatalogueTypeOK
    <2>3. \A m \in Links \ {l} : link'[m] = link[m]
        BY <2>1 DEF CatalogueTypeOK
    <2>4. UNCHANGED <<image, tagOwner, task, given, taken, edited, repointed>>
        BY <1>5 DEF ArchiveLink, UnarchiveLink, catalogueObserved
    <2>5. QED
        BY <1>4, <2>2, <2>3, <2>4 DEF SameRow
<1>6. ASSUME NEW l \in Links, DeleteLink(l)
      PROVE  Tidy'
    <2>1. link'[l].state = "gone" /\ \A m \in Links \ {l} : link'[m] = link[m]
        BY <1>6 DEF DeleteLink, CatalogueTypeOK
    <2>2. UNCHANGED <<image, tagOwner, task, given, taken, edited, repointed>>
        BY <1>6 DEF DeleteLink, catalogueObserved
    <2>3. QED
        BY <1>4, <2>1, <2>2 DEF SameRow
<1>7. CASE DayPasses
    <2>1. \A l \in Links : link'[l] = IF l \in Live THEN [link[l] EXCEPT !.recent = FALSE] ELSE link[l]
        BY <1>7 DEF DayPasses
    <2>2. \A l \in Live : SameRow(link'[l], link[l]) /\ link'[l].tags = link[l].tags
        BY <2>1, RowTypes, RowKeeps
    <2>3. \A l \in Links \ Live : link'[l] = link[l]
        BY <2>1
    <2>4. UNCHANGED <<image, tagOwner, task, given, taken, edited, repointed>>
        BY <1>7 DEF DayPasses, catalogueObserved
    <2>5. QED
        BY <1>4, <2>2, <2>3, <2>4 DEF SameRow
<1>8. ASSUME NEW t \in Tags, NEW o \in Owners, CreateTag(t, o)
      PROVE  Tidy'
    <2>1. \A u \in Tags : tagOwner[u] = NoName \/ tagOwner'[u] = tagOwner[u]
        BY <1>8 DEF CreateTag, CatalogueTypeOK
    <2>2. UNCHANGED <<link, image, task, given, taken, edited, repointed>>
        BY <1>8 DEF CreateTag, catalogueObserved
    <2>3. \A l \in Live : \A u \in link[l].tags : tagOwner[u] # NoName
        BY <1>2, RowTypes, NamesAssumption DEF Creators
    <2>4. \A l \in Live' : \A u \in link'[l].tags : tagOwner'[u] = link'[l].by
        BY <1>2, <2>1, <2>2, <2>3 DEF Live
    <2>5. QED
        BY <1>1, <2>1, <2>2, <2>4 DEF SameRow
<1>9. ASSUME NEW t \in Tags, DeleteTag(t)
      PROVE  Tidy'
    <2>1. \A l \in Links : link'[l] = IF l \in Live THEN [link[l] EXCEPT !.tags = link[l].tags \ {t}]
                                      ELSE link[l]
        BY <1>9 DEF DeleteTag
    <2>2. ASSUME NEW l \in Live
          PROVE  SameRow(link'[l], link[l]) /\ link'[l].tags = link[l].tags \ {t}
        <3>1. PICK r \in LinkRow : r = link[l]
            BY RowTypes
        <3>2. PICK tags : tags = link[l].tags \ {t}
            OBVIOUS
        <3>3. link'[l] = [r EXCEPT !.tags = tags]
            BY <2>1, <3>1, <3>2, RowTypes
        <3>4. SameRow([r EXCEPT !.tags = tags], r) /\ [r EXCEPT !.tags = tags].tags = tags
            BY RowKeeps
        <3>5. QED
            BY <3>1, <3>2, <3>3, <3>4
    <2>3. \A l \in Links \ Live : link'[l] = link[l]
        BY <2>1
    <2>4. \A u \in Tags : tagOwner'[u] = IF u = t THEN Gone ELSE tagOwner[u]
        BY <1>9 DEF DeleteTag, CatalogueTypeOK
    <2>5. \A l \in Live' : \A u \in link'[l].tags : tagOwner'[u] = link'[l].by
        BY <1>2, <2>2, <2>3, <2>4 DEF Live, SameRow
    <2>6. UNCHANGED <<image, task, given, taken, edited, repointed>>
        BY <1>9 DEF DeleteTag, catalogueObserved
    <2>7. QED
        BY <1>1, <2>2, <2>3, <2>4, <2>5, <2>6 DEF SameRow
<1>10. ASSUME NEW l \in Links, NEW t \in Tags, AddTagToLink(l, t) \/ RemoveTagFromLink(l, t)
       PROVE  Tidy'
    <2>1. PICK tags : /\ link' = [link EXCEPT ![l].tags = tags]
                      /\ tags \subseteq link[l].tags \cup {t}
                      /\ t \in tags => t \in link[l].tags \/ tagOwner[t] = link[l].by
        BY <1>10 DEF AddTagToLink, RemoveTagFromLink
    <2>2. l \in Live
        BY <1>10 DEF AddTagToLink, RemoveTagFromLink
    <2>3. SameRow(link'[l], link[l]) /\ link'[l].tags = tags
        <3>1. PICK r \in LinkRow : r = link[l]
            BY <2>2, RowTypes
        <3>2. link'[l] = [r EXCEPT !.tags = tags]
            BY <2>1, <3>1 DEF CatalogueTypeOK
        <3>3. SameRow([r EXCEPT !.tags = tags], r) /\ [r EXCEPT !.tags = tags].tags = tags
            BY RowKeeps
        <3>4. QED
            BY <3>1, <3>2, <3>3
    <2>4. \A m \in Links \ {l} : link'[m] = link[m]
        BY <2>1 DEF CatalogueTypeOK
    <2>5. UNCHANGED <<image, tagOwner, task, given, taken, edited, repointed>>
        BY <1>10 DEF AddTagToLink, RemoveTagFromLink, catalogueObserved
    <2>6. \A m \in Live' : \A u \in link'[m].tags : tagOwner'[u] = link'[m].by
        BY <1>2, <2>1, <2>2, <2>3, <2>4, <2>5 DEF Live, SameRow
    <2>7. QED
        BY <1>1, <2>3, <2>4, <2>5, <2>6 DEF SameRow
<1>11. QED
    BY <1>3, <1>5, <1>6, <1>7, <1>8, <1>9, <1>10 DEF HandleTags

LEMMA TidySteps ==
    ASSUME CatalogueTypeOK, Tidy, [CatalogueNext]_catalogueVars
    PROVE  CatalogueTypeOK' /\ Tidy'
<1>1. ASSUME NEW k \in Tasks, Quiet(k)
      PROVE  CatalogueTypeOK' /\ Tidy'
    <2>1. PICK state \in TaskState : QuietKeeps(k, state) /\ Fits(state)
        BY <1>1, QuietFits DEF Tidy
    <2>2. CatalogueTypeOK'
        BY <2>1, OnlyTypes DEF QuietKeeps
    <2>3. UNCHANGED <<link, image, tagOwner, given, taken, edited, repointed>>
        BY <2>1 DEF QuietKeeps, catalogueTables
    <2>4. \A q \in Tasks : Fits(task'[q])
        BY <2>1, GoesTypes DEF QuietKeeps, CatalogueTypeOK, Tidy, TasksFit
    <2>5. TasksFit'
        BY <2>3, <2>4
           DEF TasksFit, Fits, NameFits, TagFits, LinkFits, QrFits, Renamed, Live
    <2>6. QED
        BY <2>2, <2>3, <2>5
           DEF Tidy, CodesUnique, NamesResolveAlone, LinksCohere, QrLeadsHere, Live
<1>2. CASE Writes
    BY <1>2, WritesTypes, InsertFits, ModifyFits, EditFits, PutImageFits, SetQrUrlFits, RowsFit
       DEF Writes
<1>3. CASE UNCHANGED catalogueVars
    BY <1>3 DEF catalogueVars, catalogueTables, catalogueObserved, CatalogueTypeOK, Tidy,
                CodesUnique, NamesResolveAlone, LinksCohere, QrLeadsHere, TasksFit,
                Fits, NameFits, TagFits, LinkFits, QrFits, Renamed, Live
<1>4. QED
    BY <1>1, <1>2, <1>3, QuietOrWrites

(* At all times the types hold, and the invariant.                         *)
THEOREM CatalogueIsTidy == CatalogueSpec => [](CatalogueTypeOK /\ Tidy)
<1>1. CatalogueInit => CatalogueTypeOK
    BY DEF CatalogueInit, CatalogueTypeOK, TaskState, Name
<1>2. CatalogueInit => Tidy
    <2>1. SUFFICES ASSUME CatalogueInit
                   PROVE  Live = {} /\ \A k \in Tasks : task[k] = Idle
        BY IdleFits DEF Tidy, CodesUnique, NamesResolveAlone, LinksCohere, QrLeadsHere, TasksFit
    <2>2. QED
        BY <2>1 DEF CatalogueInit, Live
<1>3. QED
    BY <1>1, <1>2, TidySteps, PTL DEF CatalogueSpec

(* A name leads to one link, unless two requests stored it at one time or  *)
(* a user was given a short code as his alias.                             *)
THEOREM NamesAreResolved == CatalogueSpec => []NamesResolveAlone
<1>1. Tidy => NamesResolveAlone
    BY DEF Tidy
<1>2. QED
    BY <1>1, CatalogueIsTidy, PTL

(* Every link has a name, and its tags are there and its owner's.          *)
THEOREM LinksStayCoherent == CatalogueSpec => []LinksCohere
<1>1. Tidy => LinksCohere
    BY DEF Tidy
<1>2. QED
    BY <1>1, CatalogueIsTidy, PTL

(* A QR code leads to a name of its link, unless the link was renamed by   *)
(* an administrator or while the code was made.                            *)
THEOREM QrCodesLead == CatalogueSpec => []QrLeadsHere
<1>1. Tidy => QrLeadsHere
    BY DEF Tidy
<1>2. QED
    BY <1>1, CatalogueIsTidy, PTL

-----------------------------------------------------------------------------
(* The limits                                                              *)

FinitelyMany == IsFiniteSet(Links) /\ IsFiniteSet(Tasks) /\ Tasks # {}

(* The links a limit counts, and the creations that have been let through. *)
Slots(c) == IF c \in Owners THEN ActiveLinks(c) ELSE RecentLinks(c)
Due(r, c) == r.pc \in {"tier", "name", "tags", "insert"} /\ r.by = c
Pending(c) == {k \in Tasks : Due(task[k], c)}
CreatorLimit(c) == IF c \in Owners THEN FreeLimit ELSE GuestLimit
Excess == Cardinality(Tasks) - 1

Room(c) ==
    Cardinality(Slots(c)) + Cardinality(Pending(c)) <= CreatorLimit(c) + (IF c \in crowded THEN Excess ELSE 0)

RoomForAll ==
    \A c \in Creators : c \in Owners \cap reopened \/ (Room(c) /\ (c \in Owners => tier[c] = "FREE"))

LEMMA SlotsFinite ==
    ASSUME FinitelyMany, NEW c
    PROVE  /\ IsFiniteSet(Slots(c)) /\ Cardinality(Slots(c)) \in Nat
           /\ IsFiniteSet(Pending(c)) /\ Cardinality(Pending(c)) \in Nat
           /\ Cardinality(Pending(c)) <= Cardinality(Tasks)
           /\ CreatorLimit(c) \in Nat /\ Excess \in Nat
<1>1. Slots(c) \subseteq Links /\ Pending(c) \subseteq Tasks
    BY DEF Slots, Pending, ActiveLinks, RecentLinks, Live
<1>2. Cardinality(Tasks) \in Nat /\ Cardinality(Tasks) # 0
    BY FS_CardinalityType, FS_EmptySet DEF FinitelyMany
<1>3. IsFiniteSet(Slots(c)) /\ IsFiniteSet(Pending(c)) /\ Cardinality(Pending(c)) <= Cardinality(Tasks)
    BY <1>1, FS_Subset DEF FinitelyMany
<1>4. QED
    BY <1>2, <1>3, FS_CardinalityType, LimitsAssumption DEF CreatorLimit, Excess

(* Less than before, or one creation let through, or one that inserts.     *)
LEMMA RoomShrinks ==
    ASSUME FinitelyMany, NEW c, Room(c), c \in crowded => c \in crowded',
           Slots(c)' \subseteq Slots(c), Pending(c)' \subseteq Pending(c)
    PROVE  Room(c)'
<1>1. PICK S, P, T, Q : S = Slots(c) /\ P = Pending(c) /\ T = Slots(c)' /\ Q = Pending(c)'
    OBVIOUS
<1>2. /\ IsFiniteSet(S) /\ Cardinality(S) \in Nat /\ IsFiniteSet(P) /\ Cardinality(P) \in Nat
      /\ CreatorLimit(c) \in Nat /\ Excess \in Nat
    BY <1>1, SlotsFinite
<1>3. /\ Cardinality(T) \in Nat /\ Cardinality(T) <= Cardinality(S)
      /\ Cardinality(Q) \in Nat /\ Cardinality(Q) <= Cardinality(P)
    BY <1>1, <1>2, FS_Subset, FS_CardinalityType
<1>4. Cardinality(S) + Cardinality(P) <= CreatorLimit(c) + (IF c \in crowded THEN Excess ELSE 0)
    BY <1>1 DEF Room
<1>5. Cardinality(T) + Cardinality(Q) <= CreatorLimit(c) + (IF c \in crowded' THEN Excess ELSE 0)
    BY <1>2, <1>3, <1>4
<1>6. QED
    BY <1>1, <1>5 DEF Room, CreatorLimit, Excess

LEMMA RoomFills ==
    ASSUME FinitelyMany, NEW c, NEW k \in Tasks, Cardinality(Slots(c)) < CreatorLimit(c),
           Slots(c)' = Slots(c), Pending(c)' \subseteq Pending(c) \cup {k},
           Pending(c) \ {k} # {} => c \in crowded'
    PROVE  Room(c)'
<1>1. PICK S, P, Q : S = Slots(c) /\ P = Pending(c) /\ Q = Pending(c)'
    OBVIOUS
<1>2. /\ Cardinality(S) \in Nat /\ CreatorLimit(c) \in Nat /\ Excess \in Nat
    BY <1>1, SlotsFinite
<1>3. Q \subseteq Tasks /\ IsFiniteSet(Tasks) /\ Cardinality(Tasks) = Excess + 1
    <2>1. Q \subseteq Tasks
        BY <1>1 DEF Pending
    <2>2. Cardinality(Tasks) \in Nat
        BY FS_CardinalityType DEF FinitelyMany
    <2>3. QED
        BY <2>1, <2>2 DEF FinitelyMany, Excess
<1>4. Cardinality(Q) \in Nat /\ Cardinality(Q) <= Excess + 1
    BY <1>3, FS_Subset, FS_CardinalityType
<1>5. P \subseteq {k} => Cardinality(Q) <= 1
    <2>1. IsFiniteSet({k}) /\ Cardinality({k}) = 1
        BY FS_Singleton
    <2>2. P \subseteq {k} => Q \subseteq {k}
        BY <1>1
    <2>3. QED
        BY <2>1, <2>2, FS_Subset
<1>6. Cardinality(S) + Cardinality(Q) <= CreatorLimit(c) + (IF c \in crowded' THEN Excess ELSE 0)
    <2>1. CASE P \subseteq {k}
        BY <1>1, <1>2, <1>4, <1>5, <2>1
    <2>2. CASE ~(P \subseteq {k})
        BY <1>1, <1>2, <1>4, <2>2
    <2>3. QED
        BY <2>1, <2>2
<1>7. QED
    BY <1>1, <1>6 DEF Room, CreatorLimit, Excess

LEMMA RoomMoves ==
    ASSUME FinitelyMany, NEW c, Room(c), NEW k \in Pending(c), NEW l,
           Slots(c)' \subseteq Slots(c) \cup {l}, Pending(c)' \subseteq Pending(c) \ {k},
           UNCHANGED crowded
    PROVE  Room(c)'
<1>1. PICK S, P, T, Q : S = Slots(c) /\ P = Pending(c) /\ T = Slots(c)' /\ Q = Pending(c)'
    OBVIOUS
<1>2. /\ IsFiniteSet(S) /\ Cardinality(S) \in Nat /\ IsFiniteSet(P) /\ Cardinality(P) \in Nat
      /\ CreatorLimit(c) \in Nat /\ Excess \in Nat
    BY <1>1, SlotsFinite
<1>3. /\ IsFiniteSet(S \cup {l}) /\ Cardinality(S \cup {l}) \in Nat
      /\ Cardinality(S \cup {l}) <= Cardinality(S) + 1
    <2>1. /\ IsFiniteSet(S \cup {l})
          /\ Cardinality(S \cup {l}) = IF l \in S THEN Cardinality(S) ELSE Cardinality(S) + 1
        BY <1>2, FS_AddElement, Zenon
    <2>2. QED
        BY <1>2, <2>1
<1>4. /\ IsFiniteSet(P \ {k}) /\ Cardinality(P \ {k}) \in Nat
      /\ Cardinality(P \ {k}) = Cardinality(P) - 1
    BY <1>1, <1>2, FS_RemoveElement, FS_CardinalityType
<1>5. /\ Cardinality(T) \in Nat /\ Cardinality(T) <= Cardinality(S) + 1
      /\ Cardinality(Q) \in Nat /\ Cardinality(Q) <= Cardinality(P) - 1
    <2>1. T \subseteq S \cup {l} /\ Q \subseteq P \ {k}
        BY <1>1
    <2>2. /\ Cardinality(T) \in Nat /\ Cardinality(T) <= Cardinality(S \cup {l})
          /\ Cardinality(Q) \in Nat /\ Cardinality(Q) <= Cardinality(P \ {k})
        BY <1>3, <1>4, <2>1, FS_Subset, FS_CardinalityType
    <2>3. QED
        BY <1>2, <1>3, <1>4, <2>2
<1>6. Cardinality(S) + Cardinality(P) <= CreatorLimit(c) + (IF c \in crowded THEN Excess ELSE 0)
    BY <1>1 DEF Room
<1>7. Cardinality(T) + Cardinality(Q) <= CreatorLimit(c) + (IF c \in crowded' THEN Excess ELSE 0)
    BY <1>2, <1>5, <1>6
<1>8. QED
    BY <1>1, <1>7 DEF Room, CreatorLimit, Excess

(* A step after which no creator has more links that count, and at most    *)
(* one creation more that has been let through.                            *)
LEMMA RoomKept ==
    ASSUME FinitelyMany, RoomForAll, reopened \subseteq reopened', crowded \subseteq crowded',
           \A o \in Owners : tier'[o] = tier[o] \/ o \in reopened',
           \A c \in Creators : c \in Owners \cap reopened' \/ Slots(c)' \subseteq Slots(c),
           \A k \in Tasks, c \in Creators : Due(task'[k], c) => Due(task[k], c)
    PROVE  RoomForAll'
<1>1. SUFFICES ASSUME NEW c \in Creators, c \notin Owners \cap reopened'
               PROVE  Room(c)' /\ (c \in Owners => tier'[c] = "FREE")
    BY DEF RoomForAll
<1>2. Room(c) /\ (c \in Owners => tier[c] = "FREE")
    BY <1>1 DEF RoomForAll
<1>3. Pending(c)' \subseteq Pending(c)
    BY <1>1 DEF Pending
<1>4. QED
    BY <1>1, <1>2, <1>3, RoomShrinks

LEMMA OnlyRoom ==
    ASSUME FinitelyMany, CatalogueTypeOK, RoomForAll, NEW k \in Tasks, NEW state \in TaskState,
           TaskOnly(k, state), \A c \in Creators : Due(state, c) => Due(task[k], c)
    PROVE  RoomForAll'
<1>1. UNCHANGED <<tier, link, reopened, crowded>>
    BY DEF TaskOnly, catalogueTables, catalogueObserved
<1>2. \A c : Slots(c)' = Slots(c)
    BY <1>1 DEF Slots, ActiveLinks, RecentLinks, Live
<1>3. \A q \in Tasks, c \in Creators : Due(task'[q], c) => Due(task[q], c)
    BY GoesTypes DEF TaskOnly, CatalogueTypeOK
<1>4. QED
    BY <1>1, <1>2, <1>3, RoomKept

(* A creation let through where there is room.                             *)
LEMMA OneMore ==
    ASSUME FinitelyMany, CatalogueTypeOK, RoomForAll, NEW k \in Tasks, NEW state \in TaskState,
           TaskGoes(k, state), NEW c \in Creators, Cardinality(Slots(c)) < CreatorLimit(c),
           Crowds(k, c), \A d \in Creators : Due(state, d) => d = c,
           UNCHANGED <<tier, link, reopened>>
    PROVE  RoomForAll'
<1>1. \A d : Slots(d)' = Slots(d)
    BY DEF Slots, ActiveLinks, RecentLinks, Live
<1>2. task'[k] = state /\ \A q \in Tasks \ {k} : task'[q] = task[q]
    BY GoesTypes DEF CatalogueTypeOK
<1>3. \A d \in Creators : Pending(d)' \subseteq Pending(d) \cup {k}
    BY <1>2 DEF Pending
<1>4. \A d \in Creators \ {c} : Pending(d)' \subseteq Pending(d)
    BY <1>2 DEF Pending
<1>5. crowded \subseteq crowded'
    BY DEF Crowds
<1>6. Pending(c) \ {k} # {} => c \in crowded'
    BY DEF Crowds, Pending, Due, Counted
<1>7. Room(c)'
    BY <1>1, <1>3, <1>6, RoomFills
<1>8. \A d \in Creators \ {c} : Room(d) => Room(d)'
    BY <1>1, <1>4, <1>5, RoomShrinks
<1>9. QED
    BY <1>7, <1>8 DEF RoomForAll

LEMMA QuietRoom ==
    ASSUME FinitelyMany, CatalogueTypeOK, RoomForAll, NEW k \in Tasks, Quiet(k)
    PROVE  RoomForAll'
<1>a. /\ task[k].pc \in {"count", "tier"} => task[k] \in Counting
      /\ task[k].pc \in {"name", "tags", "insert"} => task[k] \in Creating
      /\ task[k].pc \in {"alias", "retag", "modify"} => task[k] \in Updating
      /\ task[k].pc \in {"both", "edit"} => task[k] \in Editing
    BY TaskTypes DEF CatalogueTypeOK
<1>b. TaskOnly(k, Idle) => RoomForAll'
    BY OnlyRoom DEF TaskState, Idle, Due
(* A request that is no creation, or not let through yet.                  *)
<1>c. ASSUME NEW r \in TaskState, r.pc \notin {"tier", "name", "tags", "insert"},
             TaskOnly(k, r)
      PROVE  RoomForAll'
    BY <1>c, OnlyRoom DEF Due
(* A creation that goes on.                                                *)
<1>d. ASSUME NEW r \in TaskState, r.by = task[k].by, task[k].pc \in {"tier", "name", "tags", "insert"},
             TaskOnly(k, r)
      PROVE  RoomForAll'
    BY <1>d, OnlyRoom DEF Due
<1>1. ASSUME NEW o \in Owners, NEW n \in Names \cup {NoName}, NEW tags \in SUBSET Tags,
             BeginCreate(k, o, n, tags)
      PROVE  RoomForAll'
    <2>1. PICK p \in {"count", "tier"} :
              /\ p = "tier" => tier[o] = "PRO"
              /\ TaskOnly(k, [pc |-> p, by |-> o, alias |-> n, code |-> NoName, tags |-> tags, tries |-> 0])
        BY <1>1 DEF BeginCreate
    <2>. DEFINE r == [pc |-> p, by |-> o, alias |-> n, code |-> NoName, tags |-> tags, tries |-> 0]
    <2>2. r \in TaskState /\ r.pc = p /\ r.by = o
        BY DEF Counting, Name, TaskState
    <2>. HIDE DEF r
    <2>3. CASE p = "count"
        BY <1>c, <2>1, <2>2, <2>3 DEF r
    <2>4. CASE p = "tier"
        <3>1. UNCHANGED <<tier, link, reopened, crowded>> /\ TaskGoes(k, r)
            BY <2>1 DEF TaskOnly, catalogueTables, catalogueObserved, r
        <3>2. o \in reopened
            BY <2>1, <2>4 DEF RoomForAll, Creators
        <3>3. task'[k] = r /\ \A q \in Tasks \ {k} : task'[q] = task[q]
            BY <2>2, <3>1, GoesTypes DEF CatalogueTypeOK
        <3>4. \A c \in Creators \ {o} : Pending(c)' \subseteq Pending(c)
            BY <2>2, <3>3 DEF Pending, Due
        <3>5. \A c \in Creators \ {o} : Slots(c)' = Slots(c)
            BY <3>1 DEF Slots, ActiveLinks, RecentLinks, Live
        <3>6. \A c \in Creators \ {o} : Room(c) => Room(c)'
            BY <3>1, <3>4, <3>5, RoomShrinks
        <3>7. QED
            BY <3>1, <3>2, <3>6 DEF RoomForAll
    <2>5. QED
        BY <2>3, <2>4
<1>2. ASSUME NEW a \in Addresses, BeginGuest(k, a)
      PROVE  RoomForAll'
    <2>. DEFINE r == [pc |-> "name", by |-> a, alias |-> NoName, code |-> NoName,
                      tags |-> {}, tries |-> 0]
    <2>1. r \in TaskState /\ r.by = a
        BY DEF Creating, Name, Creators, TaskState
    <2>2. TaskGoes(k, r) /\ Crowds(k, a) /\ UNCHANGED <<tier, link, reopened>>
        BY <1>2 DEF BeginGuest, catalogueTables
    <2>. HIDE DEF r
    <2>3. Cardinality(Slots(a)) < CreatorLimit(a) /\ a \in Creators
        BY <1>2, CreatorsAssumption DEF BeginGuest, Slots, CreatorLimit, Creators
    <2>4. QED
        BY <2>1, <2>2, <2>3, OneMore DEF Due
<1>3. CASE CountLinks(k)
    <2>. DEFINE r == [task[k] EXCEPT !.pc = "tier"]
    <2>1. PICK o \in Owners : o = task[k].by
        BY <1>3, <1>a DEF CountLinks, TaskAt, Counting
    <2>2. r \in TaskState /\ r.by = o
        BY <1>3, <1>a, <2>1, CountingMoves DEF CountLinks, TaskAt
    <2>3. UNCHANGED <<tier, link, reopened>> /\ Crowds(k, o)
        BY <1>3, <2>1 DEF CountLinks, catalogueTables
    <2>4. \/ TaskGoes(k, Idle)
          \/ TaskGoes(k, r) /\ ~(Cardinality(ActiveLinks(o)) >= FreeLimit)
        BY <1>3, <2>1 DEF CountLinks
    <2>5. CASE TaskGoes(k, Idle)
        <3>1. task'[k] = Idle /\ \A q \in Tasks \ {k} : task'[q] = task[q]
            BY <2>5, GoesTypes DEF CatalogueTypeOK, TaskState
        <3>2. \A q \in Tasks, c \in Creators : Due(task'[q], c) => Due(task[q], c)
            BY <3>1 DEF Due, Idle
        <3>3. \A c : Slots(c)' = Slots(c)
            BY <2>3 DEF Slots, ActiveLinks, RecentLinks, Live
        <3>4. QED
            BY <2>3, <3>2, <3>3, RoomKept DEF Crowds
    <2>6. CASE TaskGoes(k, r) /\ ~(Cardinality(ActiveLinks(o)) >= FreeLimit)
        <3>1. Cardinality(Slots(o)) < CreatorLimit(o) /\ o \in Creators
            BY <2>6, SlotsFinite DEF Slots, CreatorLimit, Creators
        <3>. HIDE DEF r
        <3>2. QED
            BY <2>2, <2>3, <2>6, <3>1, OneMore DEF Due
    <2>7. QED
        BY <2>4, <2>5, <2>6
<1>4. CASE CheckTier(k)
    <2>. DEFINE r == [task[k] EXCEPT !.pc = "name"]
    <2>1. task[k].pc = "tier" /\ (TaskOnly(k, Idle) \/ TaskOnly(k, r))
        BY <1>4 DEF CheckTier, TaskAt
    <2>2. r \in TaskState /\ r.by = task[k].by
        BY <2>1, <1>a, CountingMoves
    <2>. HIDE DEF r
    <2>3. QED
        BY <2>1, <2>2, <1>b, <1>d
<1>5. CASE CheckAlias(k)
    <2>1. PICK p \in {"tags", "insert"} : TaskOnly(k, Idle) \/ TaskOnly(k, [task[k] EXCEPT !.pc = p])
        BY <1>5 DEF CheckAlias, Named
    <2>. DEFINE r == [task[k] EXCEPT !.pc = p]
    <2>2. task[k].pc = "name" /\ task[k] \in Creating
        BY <1>5, <1>a DEF CheckAlias, TaskAt
    <2>3. r \in TaskState /\ r.by = task[k].by
        BY <2>2, CreatingMoves DEF TaskState
    <2>. HIDE DEF r
    <2>4. QED
        BY <2>1, <2>2, <2>3, <1>b, <1>d DEF r
<1>6. ASSUME NEW n \in Names, Generate(k, n)
      PROVE  RoomForAll'
    <2>1. PICK p \in {"tags", "insert"} : p = Named(k)
        BY DEF Named
    <2>. DEFINE r == [pc |-> p, by |-> task[k].by, alias |-> NoName, code |-> n,
                      tags |-> task[k].tags, tries |-> task[k].tries]
                s == [task[k] EXCEPT !.tries = @ + 1]
    <2>2. task[k].pc = "name" /\ task[k] \in Creating
        BY <1>6, <1>a DEF Generate, TaskAt
    <2>3. TaskOnly(k, Idle) \/ TaskOnly(k, r) \/ TaskOnly(k, s)
        BY <1>6, <2>1 DEF Generate
    <2>4. r \in TaskState /\ r.by = task[k].by
        BY <2>2 DEF Creating, TaskState, Name
    <2>5. s \in TaskState /\ s.by = task[k].by
        BY <2>2, TryingMoves DEF TaskState
    <2>. HIDE DEF r, s
    <2>6. QED
        BY <2>2, <2>3, <2>4, <2>5, <1>b, <1>d
<1>7. CASE CheckTags(k)
    <2>. DEFINE r == [task[k] EXCEPT !.pc = "insert"]
    <2>1. task[k].pc = "tags" /\ task[k] \in Creating /\ (TaskOnly(k, Idle) \/ TaskOnly(k, r))
        BY <1>7, <1>a DEF CheckTags, TaskAt
    <2>2. r \in TaskState /\ r.by = task[k].by
        BY <2>1, CreatingMoves DEF TaskState
    <2>. HIDE DEF r
    <2>3. QED
        BY <2>1, <2>2, <1>b, <1>d
<1>8. ASSUME NEW o \in Owners, NEW l \in Links, NEW n \in Names \cup {NoName},
             NEW archived \in {"keep", "yes", "no"}, NEW tags \in (SUBSET Tags) \cup {KeepTags},
             BeginUpdate(k, o, l, n, archived, tags)
      PROVE  RoomForAll'
    <2>1. PICK p \in {"alias", "retag"} : p = IF n = NoName THEN "retag" ELSE "alias"
        OBVIOUS
    <2>. DEFINE seen == [alias |-> link[l].alias, qr |-> link[l].qr, archived |-> link[l].archived]
                r == [pc |-> p, by |-> o, link |-> l, alias |-> n, archived |-> archived,
                      tags |-> tags, seen |-> seen]
    <2>2. link[l] \in LinkRow
        BY <1>8 DEF BeginUpdate, Owned, CatalogueTypeOK, Live
    <2>3. seen \in [alias: Name, qr: BOOLEAN, archived: BOOLEAN]
        BY <2>2 DEF LinkRow
    <2>4. TaskOnly(k, r)
        BY <1>8, <2>1 DEF BeginUpdate
    <2>. HIDE DEF seen
    <2>5. r \in TaskState /\ r.pc \in {"alias", "retag"}
        BY <2>3 DEF Updating, Name, TaskState
    <2>. HIDE DEF r
    <2>6. QED
        BY <2>4, <2>5, <1>c
<1>9. ASSUME NEW l \in Links, NEW n \in Names, BeginEdit(k, l, n)
      PROVE  RoomForAll'
    <2>. DEFINE r == [pc |-> "both", link |-> l, alias |-> n]
    <2>1. TaskOnly(k, r) /\ r \in TaskState /\ r.pc = "both"
        BY <1>9 DEF BeginEdit, Editing, TaskState
    <2>. HIDE DEF r
    <2>2. QED
        BY <2>1, <1>c
<1>10. CASE CheckNewAlias(k)
    <2>. DEFINE r == [task[k] EXCEPT !.pc = "retag"]
    <2>1. task[k] \in Updating /\ (TaskOnly(k, Idle) \/ TaskOnly(k, r))
        BY <1>10, <1>a DEF CheckNewAlias, TaskAt
    <2>2. r \in TaskState /\ r.pc = "retag"
        BY <2>1, UpdatingMoves DEF TaskState
    <2>. HIDE DEF r
    <2>3. QED
        BY <2>1, <2>2, <1>b, <1>c
<1>11. CASE CheckNewTags(k)
    <2>. DEFINE r == [task[k] EXCEPT !.pc = "modify"]
    <2>1. task[k] \in Updating /\ (TaskOnly(k, Idle) \/ TaskOnly(k, r))
        BY <1>11, <1>a DEF CheckNewTags, TaskAt
    <2>2. r \in TaskState /\ r.pc = "modify"
        BY <2>1, UpdatingMoves DEF TaskState
    <2>. HIDE DEF r
    <2>3. QED
        BY <2>1, <2>2, <1>b, <1>c
<1>12. CASE CheckBoth(k)
    <2>. DEFINE r == [task[k] EXCEPT !.pc = "edit"]
    <2>1. task[k] \in Editing /\ (TaskOnly(k, Idle) \/ TaskOnly(k, r))
        BY <1>12, <1>a DEF CheckBoth, TaskAt
    <2>2. r \in TaskState /\ r.pc = "edit"
        BY <2>1, LastMoves DEF TaskState
    <2>. HIDE DEF r
    <2>3. QED
        BY <2>1, <2>2, <1>b, <1>c
<1>13. ASSUME NEW o \in Owners, NEW l \in Links, BeginQr(k, o, l)
       PROVE  RoomForAll'
    <2>1. link[l] \in LinkRow
        BY <1>13 DEF BeginQr, Owned, CatalogueTypeOK, Live
    <2>2. PICK n \in Name : n = IF link[l].alias # NoName THEN link[l].alias ELSE link[l].code
        BY <2>1 DEF LinkRow
    <2>. DEFINE r == [pc |-> "put", link |-> l, name |-> n]
    <2>3. TaskOnly(k, r)
        BY <1>13, <2>2 DEF BeginQr
    <2>4. r \in TaskState /\ r.pc = "put"
        BY DEF Drawing, TaskState
    <2>. HIDE DEF r
    <2>5. QED
        BY <2>3, <2>4, <1>c
<1>14. CASE TaskFails(k)
    BY <1>14, <1>b DEF TaskFails
<1>15. Updates(k) => RoomForAll'
    BY <1>8 DEF Updates
<1>16. QED
    BY <1>1, <1>2, <1>3, <1>4, <1>5, <1>6, <1>7, <1>9, <1>10, <1>11, <1>12, <1>13, <1>14, <1>15
       DEF Quiet

(* Whether a row takes a place under the limits.                           *)
SamePlace(new, old) ==
    /\ new.state = old.state /\ new.by = old.by
    /\ new.recent => old.recent
    /\ ~new.archived => ~old.archived \/ old.by \in reopened'

LEMMA PlacesKept ==
    ASSUME FinitelyMany, CatalogueTypeOK, RoomForAll, reopened \subseteq reopened',
           UNCHANGED <<tier, crowded>>,
           \A l \in Links : link'[l].state = "live" => SamePlace(link'[l], link[l]),
           \A k \in Tasks, c \in Creators : Due(task'[k], c) => Due(task[k], c)
    PROVE  RoomForAll'
<1>1. \A l \in Live' : l \in Live /\ SamePlace(link'[l], link[l])
    BY DEF Live, SamePlace
<1>2. \A c \in Creators : c \in Owners \cap reopened' \/ Slots(c)' \subseteq Slots(c)
    BY <1>1 DEF Slots, ActiveLinks, RecentLinks, SamePlace
<1>3. QED
    BY <1>2, RoomKept

LEMMA InsertRoom ==
    ASSUME FinitelyMany, CatalogueTypeOK, RoomForAll, NEW k \in Tasks, Insert(k)
    PROVE  RoomForAll'
<1>1. task[k].pc = "insert" /\ task[k].by \in Creators
    BY TaskFields DEF Insert, TaskAt
<1>2. PICK c \in Creators : c = task[k].by
    BY <1>1
<1>3. PICK l \in Links :
          link' = [link EXCEPT ![l] =
                [state |-> "live", by |-> task[k].by, code |-> task[k].code,
                 alias |-> task[k].alias, archived |-> FALSE, recent |-> TRUE,
                 qr |-> FALSE, tags |-> task[k].tags]]
    BY DEF Insert
<1>4. /\ link'[l].by = c
      /\ \A m \in Links \ {l} : link'[m] = link[m]
    BY <1>2, <1>3 DEF CatalogueTypeOK
<1>5. UNCHANGED <<tier, reopened, crowded>> /\ TaskGoes(k, Idle)
    BY DEF Insert
<1>6. task'[k] = Idle /\ \A q \in Tasks \ {k} : task'[q] = task[q]
    BY <1>5, GoesTypes DEF CatalogueTypeOK, TaskState
<1>7. \A d \in Creators \ {c} : Slots(d)' \subseteq Slots(d)
    BY <1>4 DEF Slots, ActiveLinks, RecentLinks, Live
<1>8. Slots(c)' \subseteq Slots(c) \cup {l}
    BY <1>4 DEF Slots, ActiveLinks, RecentLinks, Live
<1>9. \A d \in Creators : Pending(d)' \subseteq Pending(d) \ {k}
    BY <1>6 DEF Pending, Due, Idle
<1>10. k \in Pending(c)
    BY <1>1, <1>2 DEF Pending, Due
<1>11. Room(c) => Room(c)'
    BY <1>5, <1>8, <1>9, <1>10, RoomMoves
<1>12. \A d \in Creators \ {c} : Room(d) => Room(d)'
    BY <1>5, <1>7, <1>9, RoomShrinks
<1>13. QED
    BY <1>5, <1>11, <1>12 DEF RoomForAll

LEMMA ModifyRoom ==
    ASSUME FinitelyMany, CatalogueTypeOK, RoomForAll, NEW k \in Tasks, Modify(k)
    PROVE  RoomForAll'
<1>. DEFINE l == task[k].link
            old == link[l]
<1>1. l \in Live /\ l \in Links /\ old \in LinkRow
    BY RowTypes DEF Modify
<1>2. task[k] \in Updating
    BY TaskTypes DEF Modify, TaskAt, CatalogueTypeOK
<1>3. PICK archived \in BOOLEAN : archived = IF task[k].archived = "keep" THEN task[k].seen.archived
                                             ELSE task[k].archived = "yes"
    BY <1>2 DEF Updating
<1>4. PICK alias, qr, tags, by, code :
         /\ link' = [link EXCEPT ![l] =
                [state |-> "live", by |-> by, code |-> code, alias |-> alias, archived |-> archived,
                 recent |-> old.recent, qr |-> qr, tags |-> tags]]
         /\ by = old.by
         /\ reopened' = reopened \cup {o \in {by} : old.archived /\ ~archived}
    <2>1. PICK alias : alias = IF task[k].alias = NoName THEN old.alias ELSE task[k].alias
        OBVIOUS
    <2>2. PICK qr \in BOOLEAN : qr = (old.qr /\ ~ForgetsQr(k))
        OBVIOUS
    <2>3. PICK tags : tags = IF task[k].tags = KeepTags THEN old.tags ELSE task[k].tags
        OBVIOUS
    <2>4. PICK by, code : by = old.by /\ code = old.code
        OBVIOUS
    <2>5. /\ link' = [link EXCEPT ![l] =
                [state |-> "live", by |-> by, code |-> code, alias |-> alias, archived |-> archived,
                 recent |-> old.recent, qr |-> qr, tags |-> tags]]
          /\ reopened' = reopened \cup {o \in {by} : old.archived /\ ~archived}
        BY <1>3, <2>1, <2>2, <2>3, <2>4 DEF Modify
    <2>6. QED
        BY <2>4, <2>5
<1>5. PICK recent \in BOOLEAN : recent = old.recent
    BY <1>1 DEF LinkRow
<1>6. /\ link'[l].state = "live" /\ link'[l].by = by /\ link'[l].archived = archived
      /\ link'[l].recent = recent
      /\ \A m \in Links \ {l} : link'[m] = link[m]
    BY <1>1, <1>4, <1>5 DEF CatalogueTypeOK
<1>7. SamePlace(link'[l], link[l])
    BY <1>1, <1>4, <1>5, <1>6 DEF SamePlace, Live
<1>8. \A m \in Links : link'[m].state = "live" => SamePlace(link'[m], link[m])
    BY <1>6, <1>7 DEF SamePlace
<1>9. UNCHANGED <<tier, crowded>> /\ TaskGoes(k, Idle)
    BY DEF Modify
<1>10. \A q \in Tasks, c \in Creators : Due(task'[q], c) => Due(task[q], c)
    BY <1>9, GoesTypes DEF CatalogueTypeOK, TaskState, Due, Idle
<1>11. QED
    BY <1>4, <1>8, <1>9, <1>10, PlacesKept

LEMMA WritesRoom ==
    ASSUME FinitelyMany, CatalogueTypeOK, RoomForAll, Writes
    PROVE  RoomForAll'
<1>a. \A r : SamePlace(r, r)
    BY DEF SamePlace
<1>b. \A r \in LinkRow :
         /\ SamePlace([r EXCEPT !.archived = TRUE], r)
         /\ r.by \in reopened' => SamePlace([r EXCEPT !.archived = FALSE], r)
         /\ SamePlace([r EXCEPT !.recent = FALSE], r)
         /\ SamePlace([r EXCEPT !.qr = TRUE], r)
         /\ \A n : SamePlace([r EXCEPT !.alias = n], r)
         /\ \A tags : SamePlace([r EXCEPT !.tags = tags], r)
    BY DEF SamePlace, LinkRow
<1>c. ASSUME NEW l \in Live, NEW row, link' = [link EXCEPT ![l] = row], SamePlace(row, link[l])
      PROVE  \A m \in Links : link'[m].state = "live" => SamePlace(link'[m], link[m])
    BY <1>a, <1>c DEF CatalogueTypeOK, Live
<1>d. ASSUME NEW k \in Tasks, NEW state \in TaskState, TaskGoes(k, state),
             state.pc \notin {"tier", "name", "tags", "insert"}
      PROVE  \A q \in Tasks, c \in Creators : Due(task'[q], c) => Due(task[q], c)
    BY <1>d, GoesTypes DEF CatalogueTypeOK, Due
<1>e. Idle \in TaskState /\ Idle.pc \notin {"tier", "name", "tags", "insert"}
    BY DEF TaskState, Idle
<1>1. ASSUME NEW o \in Owners, TierChanges(o)
      PROVE  RoomForAll'
    <2>1. UNCHANGED <<link, task, crowded>> /\ reopened' = reopened \cup {o}
          /\ \A p \in Owners : tier'[p] = tier[p] \/ p \in reopened'
        BY <1>1 DEF TierChanges, CatalogueTypeOK
    <2>2. \A c : Slots(c)' = Slots(c)
        BY <2>1 DEF Slots, ActiveLinks, RecentLinks, Live
    <2>3. QED
        BY <2>1, <2>2, RoomKept
<1>2. ASSUME NEW k \in Tasks, Edit(k)
      PROVE  RoomForAll'
    <2>1. PICK l \in Live : \E alias : link' = [link EXCEPT ![l].alias = alias]
        BY <1>2 DEF Edit
    <2>. PICK alias : link' = [link EXCEPT ![l].alias = alias]
        BY <2>1
    <2>2. PICK r \in LinkRow : r = link[l]
        BY RowTypes
    <2>3. SamePlace([r EXCEPT !.alias = alias], r)
        BY <1>b
    <2>4. link' = [link EXCEPT ![l] = [r EXCEPT !.alias = alias]]
        BY <2>1, <2>2
    <2>5. \A m \in Links : link'[m].state = "live" => SamePlace(link'[m], link[m])
        BY <1>c, <2>2, <2>3, <2>4
    <2>6. QED
        BY <1>2, <1>d, <1>e, <2>5, PlacesKept DEF Edit
<1>3. ASSUME NEW k \in Tasks, PutImage(k)
      PROVE  RoomForAll'
    <2>1. PICK state : state = [task[k] EXCEPT !.pc = "url"]
        OBVIOUS
    <2>2. state \in TaskState /\ state.pc = "url"
        BY <1>3, <2>1, TaskTypes, LastMoves DEF PutImage, TaskAt, CatalogueTypeOK, TaskState
    <2>3. UNCHANGED <<tier, link, reopened, crowded>> /\ TaskGoes(k, state)
        BY <1>3, <2>1 DEF PutImage, catalogueObserved
    <2>4. QED
        BY <1>a, <1>d, <2>2, <2>3, PlacesKept
<1>4. ASSUME NEW k \in Tasks, SetQrUrl(k)
      PROVE  RoomForAll'
    <2>1. PICK l \in Live : link' = [link EXCEPT ![l].qr = TRUE]
        BY <1>4 DEF SetQrUrl
    <2>2. PICK r \in LinkRow : r = link[l]
        BY RowTypes
    <2>3. link' = [link EXCEPT ![l] = [r EXCEPT !.qr = TRUE]]
        BY <2>1, <2>2
    <2>4. \A m \in Links : link'[m].state = "live" => SamePlace(link'[m], link[m])
        BY <1>b, <1>c, <2>2, <2>3
    <2>5. QED
        BY <1>4, <1>d, <1>e, <2>4, PlacesKept DEF SetQrUrl
<1>5. ASSUME NEW l \in Links, ArchiveLink(l) \/ UnarchiveLink(l)
      PROVE  RoomForAll'
    <2>1. l \in Live
        BY <1>5 DEF ArchiveLink, UnarchiveLink
    <2>2. PICK r \in LinkRow : r = link[l]
        BY <2>1, RowTypes
    <2>3. \/ link' = [link EXCEPT ![l] = [r EXCEPT !.archived = TRUE]]
          \/ link' = [link EXCEPT ![l] = [r EXCEPT !.archived = FALSE]] /\ r.by \in reopened'
        BY <1>5, <2>2 DEF ArchiveLink, UnarchiveLink
    <2>4. \A m \in Links : link'[m].state = "live" => SamePlace(link'[m], link[m])
        BY <1>b, <1>c, <2>1, <2>2, <2>3
    <2>5. UNCHANGED <<tier, task, crowded>> /\ reopened \subseteq reopened'
        BY <1>5 DEF ArchiveLink, UnarchiveLink, catalogueObserved
    <2>6. QED
        BY <2>4, <2>5, PlacesKept
<1>6. ASSUME NEW l \in Links, DeleteLink(l)
      PROVE  RoomForAll'
    <2>1. link'[l].state = "gone" /\ \A m \in Links \ {l} : link'[m] = link[m]
        BY <1>6 DEF DeleteLink, CatalogueTypeOK
    <2>2. UNCHANGED <<tier, task, reopened, crowded>>
        BY <1>6 DEF DeleteLink, catalogueObserved
    <2>3. QED
        BY <1>a, <2>1, <2>2, PlacesKept
<1>7. CASE DayPasses
    <2>1. \A l \in Links : link'[l] = IF l \in Live THEN [link[l] EXCEPT !.recent = FALSE] ELSE link[l]
        BY <1>7 DEF DayPasses
    <2>2. \A l \in Links : SamePlace(link'[l], link[l])
        BY <1>a, <1>b, <2>1, RowTypes
    <2>3. UNCHANGED <<tier, task, reopened, crowded>>
        BY <1>7 DEF DayPasses, catalogueObserved
    <2>4. QED
        BY <2>2, <2>3, PlacesKept
<1>8. ASSUME NEW t \in Tags, NEW o \in Owners, CreateTag(t, o)
      PROVE  RoomForAll'
    <2>1. UNCHANGED <<tier, link, task, reopened, crowded>>
        BY <1>8 DEF CreateTag, catalogueObserved
    <2>2. QED
        BY <1>a, <2>1, PlacesKept
<1>9. ASSUME NEW t \in Tags, DeleteTag(t)
      PROVE  RoomForAll'
    <2>1. \A l \in Links : link'[l] = IF l \in Live THEN [link[l] EXCEPT !.tags = link[l].tags \ {t}]
                                      ELSE link[l]
        BY <1>9 DEF DeleteTag
    <2>2. ASSUME NEW l \in Live
          PROVE  SamePlace(link'[l], link[l])
        <3>1. PICK r \in LinkRow : r = link[l]
            BY RowTypes
        <3>2. PICK tags : tags = link[l].tags \ {t}
            OBVIOUS
        <3>3. link'[l] = [r EXCEPT !.tags = tags]
            BY <2>1, <3>1, <3>2, RowTypes
        <3>4. SamePlace([r EXCEPT !.tags = tags], r)
            BY <1>b
        <3>5. QED
            BY <3>1, <3>3, <3>4
    <2>3. \A l \in Links : SamePlace(link'[l], link[l])
        BY <1>a, <2>1, <2>2
    <2>4. UNCHANGED <<tier, task, reopened, crowded>>
        BY <1>9 DEF DeleteTag, catalogueObserved
    <2>5. QED
        BY <2>3, <2>4, PlacesKept
<1>10. ASSUME NEW l \in Links, NEW t \in Tags, AddTagToLink(l, t) \/ RemoveTagFromLink(l, t)
       PROVE  RoomForAll'
    <2>1. l \in Live
        BY <1>10 DEF AddTagToLink, RemoveTagFromLink
    <2>2. PICK r \in LinkRow : r = link[l]
        BY <2>1, RowTypes
    <2>3. PICK tags : link' = [link EXCEPT ![l] = [r EXCEPT !.tags = tags]]
        BY <1>10, <2>2 DEF AddTagToLink, RemoveTagFromLink
    <2>4. SamePlace([r EXCEPT !.tags = tags], r)
        BY <1>b
    <2>5. \A m \in Links : link'[m].state = "live" => SamePlace(link'[m], link[m])
        BY <1>c, <2>1, <2>2, <2>3, <2>4
    <2>6. UNCHANGED <<tier, task, reopened, crowded>>
        BY <1>10 DEF AddTagToLink, RemoveTagFromLink, catalogueObserved
    <2>7. QED
        BY <2>5, <2>6, PlacesKept
<1>11. QED
    BY <1>1, <1>2, <1>3, <1>4, <1>5, <1>6, <1>7, <1>8, <1>9, <1>10, InsertRoom, ModifyRoom
       DEF Writes, HandleTags

(* The limits are exceeded by overlapping creations only, and by less than *)
(* the application serves at one time; users whose tier changed, or one of *)
(* whose links became active again, are beyond the limit's reach.          *)
THEOREM LimitsAreKept ==
    ASSUME FinitelyMany
    PROVE  CatalogueSpec => []LimitsHold
<1>1. CatalogueInit => RoomForAll
    <2>1. SUFFICES ASSUME CatalogueInit, NEW c \in Creators
                   PROVE  Room(c) /\ (c \in Owners => tier[c] = "FREE")
        BY DEF RoomForAll
    <2>2. Slots(c) = {} /\ Pending(c) = {}
        BY <2>1 DEF CatalogueInit, Slots, ActiveLinks, RecentLinks, Live, Pending, Due, Idle
    <2>3. Room(c)
        BY <2>2, FS_EmptySet, SlotsFinite DEF Room
    <2>4. QED
        BY <2>1, <2>3 DEF CatalogueInit
<1>2. CatalogueTypeOK /\ RoomForAll /\ [CatalogueNext]_catalogueVars => RoomForAll'
    <2>1. ASSUME CatalogueTypeOK, RoomForAll, UNCHANGED catalogueVars
          PROVE  RoomForAll'
        BY <2>1, PlacesKept DEF catalogueVars, catalogueTables, catalogueObserved, SamePlace
    <2>2. QED
        BY <2>1, QuietOrWrites, QuietRoom, WritesRoom
<1>3. RoomForAll => LimitsHold
    <2>1. SUFFICES ASSUME RoomForAll
                   PROVE  LimitsHold
        OBVIOUS
    <2>2. ASSUME NEW o \in Owners \ reopened
          PROVE  Cardinality(ActiveLinks(o)) <= FreeLimit + (IF o \in crowded THEN Excess ELSE 0)
        <3>1. Room(o) /\ Slots(o) = ActiveLinks(o) /\ CreatorLimit(o) = FreeLimit
            BY <2>1 DEF RoomForAll, Creators, Slots, CreatorLimit
        <3>2. QED
            BY <3>1, SlotsFinite DEF Room
    <2>3. ASSUME NEW a \in Addresses
          PROVE  Cardinality(RecentLinks(a)) <= GuestLimit + (IF a \in crowded THEN Excess ELSE 0)
        <3>1. Room(a) /\ Slots(a) = RecentLinks(a) /\ CreatorLimit(a) = GuestLimit
            BY <2>1, CreatorsAssumption DEF RoomForAll, Creators, Slots, CreatorLimit
        <3>2. QED
            BY <3>1, SlotsFinite DEF Room
    <2>4. QED
        BY <2>2, <2>3 DEF LimitsHold, Excess
<1>4. QED
    BY <1>1, <1>2, <1>3, CatalogueIsTidy, PTL DEF CatalogueSpec
=============================================================================
