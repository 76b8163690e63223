----------------------------- MODULE MCServices -----------------------------
(***************************************************************************)
(* Small instances of Presence, Chat, Advisories, LinkCatalogue and        *)
(* ScanPipeline for TLC, which share nothing here.  A behaviour is about   *)
(* one part of them: the product of all of them says no more, and is out   *)
(* of TLC's reach.  Each part keeps the actions that meet one another.     *)
(***************************************************************************)
EXTENDS Presence, Chat, Advisories, LinkCatalogue, ScanPipeline

CONSTANTS l1, l2, w1,    \* the links of the part "names"; those of the part "one scan"
          s1, i1         \* the first socket; the instance that may be the only one

VARIABLE part

vars == <<presenceVars, chatVars, advisoryVars, catalogueVars, scanVars, part>>

ChatParts == {"creation", "changes", "pages", "walk", "digest"}
CatalogueParts == {"limits", "guests", "names", "codes", "updates", "tags"}
ScanParts == {"one scan", "two scans"}

Init ==
    /\ PresenceInit /\ ChatInit /\ AdvisoryInit /\ CatalogueInit /\ ScanInit
    /\ part \in {"presence", "advisories"} \cup ChatParts \cup CatalogueParts \cup ScanParts

(* Sockets of different users meet only in presence:admins; a handler      *)
(* fails, or an instance starts again while one socket is in use; a second *)
(* instance starts beside the first while one socket is all there is.      *)
(* After a failure one handler runs at a time; a socket's key lapses while *)
(* none does.  Sockets are alike: s1 comes first.                          *)
Attended(s) == Running(conn, s) \/ Running(disc, s)
Busy(s) == Attended(s) \/ socket[s].state = "open"
Unused(s) == socket[s].state = "new"

PresenceStep ==
    /\ PresenceNext
    /\ (Unused(s1) => \A s \in Sockets : Unused(s))'
    /\ \E u \in Accounts : \A s \in Sockets : ~Unused(s)' => socket'[s].user = u
    /\ (starts > 1 => failures = 0 /\ Cardinality({s \in Sockets : Busy(s)}) <= 1)'
    /\ ((\E i \in Instances \ {i1} : i \in up \/ boot[i] # Idle) =>
            Cardinality({s \in Sockets : ~Unused(s)}) <= 1)'
    /\ (failures > 0 => Cardinality({s \in Sockets : Attended(s)}) <= 1)'
    /\ (\E s \in Sockets : KeyLapses(s)) => \A s \in Sockets : ~Attended(s)

ChatStep ==
    \/ part = "creation" /\ \E r \in Requests : Creation(r)
    \/ part # "creation" /\ \E r \in Requests :
          (\A q \in Requests \ {r} : RequestAt(q, "idle")) /\ Creation(r)
    \/ part = "changes" /\ \E r \in Requests : Change(r)
    \/ part \in {"changes", "pages", "digest"} /\ Len(messages) < 2 /\ Send
    \/ part = "walk" /\ Send
    \/ part \in {"pages", "walk"} /\ Paging
    \/ part = "digest" /\ (Say \/ Digest)
    \/ part # "walk" /\ \E j \in marks : Mark(j)
    \/ part = "walk" /\ \E j \in marks : MarkFails(j)
    \/ \E u \in Clients : DeleteUser(u)

Alone(k) == \A q \in Tasks \ {k} : TaskAt(q, "idle")
Naming == {NoName} \cup Names
ByPro(k, o, n) == tier[o] = "PRO" /\ BeginCreate(k, o, n, {})
Upgrade == \E o \in Owners : tier[o] = "FREE" /\ TierChanges(o)
OneRenames == Cardinality({k \in Tasks : task[k].pc \in {"alias", "retag", "modify", "both", "edit"}}) <= 1

CatalogueStep ==
    \/ /\ part = "limits"
       /\ \/ \E k \in Tasks, o \in Owners : BeginCreate(k, o, NoName, {})
          \/ \E k \in Tasks : Create(k) \/ TaskFails(k)
          \/ \E l \in Links : ArchiveLink(l) \/ DeleteLink(l)
    \/ /\ part = "guests"
       /\ \/ \E k \in Tasks, a \in Addresses : BeginGuest(k, a)
          \/ \E k \in Tasks : Create(k)
          \/ \E l \in Links : DeleteLink(l)
          \/ DayPasses
    \/ /\ part = "names"
       /\ \/ Upgrade \/ \E k \in Tasks : Create(k) \/ Rename(k) \/ ChangeLink(k)
          \/ Cardinality(Live) < 2 /\ \E k \in Tasks, o \in Owners, n \in Naming : ByPro(k, o, n)
       /\ OneRenames' /\ Live' \in {{}, {l1}, {l1, l2}}
    \/ /\ part = "codes"
       /\ \/ Upgrade \/ \E k \in Tasks : Create(k) \/ Rename(k) \/ ChangeLink(k) \/ MakeQr(k)
          \/ Live = {} /\ \E k \in Tasks, o \in Owners, n \in Naming : Alone(k) /\ ByPro(k, o, n)
       /\ OneRenames'
    \/ /\ part = "updates"
       /\ \/ Live = {} /\ \E k \in Tasks, o \in Owners : Alone(k) /\ BeginCreate(k, o, NoName, {})
          \/ \E k \in Tasks : Create(k) \/ Reopen(k) \/ ChangeLink(k)
          \/ \E l \in Links : ArchiveLink(l) \/ UnarchiveLink(l)
    \/ /\ part = "tags"
       /\ HandleTags \/ \E k \in Tasks : Retag(k) \/ Create(k) \/ ChangeLink(k)

ScanStep ==
    /\ ScanNext
    /\ part = "one scan" =>
          /\ stops' > 0 => unscanned' = {}
          /\ \A w \in Consumers \ {w1} : worker'[w] = Idle
          /\ \A l \in Scanned \ {l1} : page'[l] = Idle
    /\ part = "two scans" => scans' <= 2 /\ unscanned' = {} /\ stops' = 0

Next ==
    \/ part = "presence" /\ PresenceStep
       /\ UNCHANGED <<chatVars, advisoryVars, catalogueVars, scanVars, part>>
    \/ part \in ChatParts /\ ChatStep
       /\ UNCHANGED <<presenceVars, advisoryVars, catalogueVars, scanVars, part>>
    \/ part = "advisories" /\ AdvisoryNext
       /\ UNCHANGED <<presenceVars, chatVars, catalogueVars, scanVars, part>>
    \/ part \in CatalogueParts /\ CatalogueStep
       /\ UNCHANGED <<presenceVars, chatVars, advisoryVars, scanVars, part>>
    \/ part \in ScanParts /\ ScanStep
       /\ UNCHANGED <<presenceVars, chatVars, advisoryVars, catalogueVars, part>>

Spec == Init /\ [][Next]_vars /\ PresenceFairness

ServicesTypeOK ==
    PresenceTypeOK /\ ChatTypeOK /\ AdvisoryTypeOK /\ CatalogueTypeOK /\ ScanTypeOK
=============================================================================
