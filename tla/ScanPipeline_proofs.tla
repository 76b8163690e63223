------------------------- MODULE ScanPipeline_proofs -------------------------
(***************************************************************************)
(* What ScanPipeline promises about pending links and about the order of   *)
(* verdicts, for any sets of links, of URLs and of consumers.              *)
(***************************************************************************)
EXTENDS ScanPipeline, TLAPS

-----------------------------------------------------------------------------
(* Type correctness                                                        *)

(* What the record of a consumer holds is known from where it stands.      *)
LEMMA WorkerTypes ==
    ASSUME worker \in [Consumers -> WorkerState], NEW w \in Consumers
    PROVE  /\ ~WorkerAt(w, "idle") <=> worker[w] # Idle
           /\ ~WorkerAt(w, "idle") => worker[w].job \in Job
           /\ \A p \in {"find", "cached", "scan"} : WorkerAt(w, p) =>
                 worker[w] \in [pc: {"find", "cached", "scan"}, job: Job]
           /\ \A p \in {"store", "write", "alert"} : WorkerAt(w, p) =>
                 worker[w] \in [pc: {"store", "write", "alert"}, job: Job, verdict: Verdict]
<1>1. worker[w] \in WorkerState
    OBVIOUS
<1>2. ~WorkerAt(w, "idle") <=> worker[w] # Idle
    BY <1>1 DEF WorkerAt, WorkerState, Idle
<1>3. ~WorkerAt(w, "idle") => worker[w].job \in Job
    BY <1>1, <1>2 DEF WorkerState
<1>4. \A p \in {"find", "cached", "scan"} : WorkerAt(w, p) =>
          worker[w] \in [pc: {"find", "cached", "scan"}, job: Job]
    BY <1>1 DEF WorkerAt, WorkerState, Idle
<1>5. \A p \in {"store", "write", "alert"} : WorkerAt(w, p) =>
          worker[w] \in [pc: {"store", "write", "alert"}, job: Job, verdict: Verdict]
    BY <1>1 DEF WorkerAt, WorkerState, Idle
<1>6. QED
    BY <1>2, <1>3, <1>4, <1>5

LEMMA WorkerKeepsTypes ==
    ASSUME worker \in [Consumers -> WorkerState], NEW w \in Consumers,
           NEW state \in WorkerState, WorkerGoes(w, state)
    PROVE  /\ worker' \in [Consumers -> WorkerState]
           /\ worker'[w] = state /\ \A v \in Consumers \ {w} : worker'[v] = worker[v]
BY DEF WorkerGoes

(* The next step of a job, with its record otherwise as it was.            *)
LEMMA NextStepTypes ==
    ASSUME worker \in [Consumers -> WorkerState], NEW w \in Consumers
    PROVE  /\ \A p, q \in {"find", "cached", "scan"} : WorkerAt(w, q) =>
                 /\ [worker[w] EXCEPT !.pc = p] \in WorkerState
                 /\ [worker[w] EXCEPT !.pc = p].pc = p
                 /\ [worker[w] EXCEPT !.pc = p].job = worker[w].job
           /\ \A p, q \in {"store", "write", "alert"} : WorkerAt(w, q) =>
                 /\ [worker[w] EXCEPT !.pc = p] \in WorkerState
                 /\ [worker[w] EXCEPT !.pc = p].pc = p
                 /\ [worker[w] EXCEPT !.pc = p].job = worker[w].job
                 /\ [worker[w] EXCEPT !.pc = p].verdict = worker[w].verdict
<1>1. ASSUME NEW p \in {"find", "cached", "scan"}, NEW q \in {"find", "cached", "scan"}, WorkerAt(w, q)
      PROVE  /\ [worker[w] EXCEPT !.pc = p] \in WorkerState
             /\ [worker[w] EXCEPT !.pc = p].pc = p
             /\ [worker[w] EXCEPT !.pc = p].job = worker[w].job
    <2>1. worker[w] \in [pc: {"find", "cached", "scan"}, job: Job]
        BY <1>1, WorkerTypes
    <2>2. QED
        BY <2>1 DEF WorkerState
<1>2. ASSUME NEW p \in {"store", "write", "alert"}, NEW q \in {"store", "write", "alert"}, WorkerAt(w, q)
      PROVE  /\ [worker[w] EXCEPT !.pc = p] \in WorkerState
             /\ [worker[w] EXCEPT !.pc = p].pc = p
             /\ [worker[w] EXCEPT !.pc = p].job = worker[w].job
             /\ [worker[w] EXCEPT !.pc = p].verdict = worker[w].verdict
    <2>1. worker[w] \in [pc: {"store", "write", "alert"}, job: Job, verdict: Verdict]
        BY <1>2, WorkerTypes
    <2>2. QED
        BY <2>1 DEF WorkerState
<1>3. QED
    BY <1>1, <1>2

LEMMA JobTypes ==
    ASSUME NEW job \in Job
    PROVE  job.link \in Scanned /\ job.url \in Urls /\ job.force \in BOOLEAN /\ job.asked \in Nat
BY DEF Job

LEMMA PageTypes ==
    ASSUME page \in [Scanned -> PageState], NEW l \in Scanned, There(l)
    PROVE  page[l] \in [pc: {"live"}, url: Urls, verdict: Verdict]
<1>1. page[l] \in PageState
    OBVIOUS
<1>2. QED
    BY <1>1 DEF There, PageState, Idle, Done

LEMMA NoVerdictTypes == NoVerdict \in Verdict
BY DEF NoVerdict, Verdict

LEMMA AskTypes ==
    ASSUME scans \in 0 .. MaxScans, asking \subseteq Job, calls \in Nat,
           NEW l \in Scanned, NEW u \in Urls, NEW force \in BOOLEAN, Ask(l, u, force)
    PROVE  scans' \in 0 .. MaxScans /\ asking' \subseteq Job
<1>1. scans + 1 \in 0 .. MaxScans /\ scans \in 0 .. MaxScans
    BY ScansAssumption DEF Ask
<1>2. [id |-> scans, link |-> l, url |-> u, force |-> force, asked |-> calls] \in Job
    BY <1>1 DEF Job
<1>3. QED
    BY <1>1, <1>2 DEF Ask

(* Every variable keeps its type.                                          *)
THEOREM ScanTypeCorrect == ScanSpec => []ScanTypeOK
<1>1. ScanInit => ScanTypeOK
    BY ScansAssumption, NoVerdictTypes DEF ScanInit, ScanTypeOK, PageState, WorkerState
<1>2. ScanTypeOK /\ [ScanNext]_scanVars => ScanTypeOK'
    <2> SUFFICES ASSUME ScanTypeOK, [ScanNext]_scanVars PROVE ScanTypeOK'
        OBVIOUS
    <2> USE DEF ScanTypeOK, scanQueue, scanObserved
    <2>1. ASSUME NEW l \in Scanned, NEW u \in Urls, CreateScanned(l, u) PROVE ScanTypeOK'
        <3>1. [pc |-> "live", url |-> u, verdict |-> NoVerdict] \in PageState
            BY NoVerdictTypes DEF PageState
        <3>2. scans' \in 0 .. MaxScans /\ asking' \subseteq Job
            BY <2>1, AskTypes DEF CreateScanned
        <3>3. QED
            BY <2>1, <3>1, <3>2 DEF CreateScanned
    <2>2. ASSUME NEW l \in Scanned, NEW force \in BOOLEAN, RequestScan(l, force) PROVE ScanTypeOK'
        <3>1. page[l] \in [pc: {"live"}, url: Urls, verdict: Verdict]
            BY <2>2, PageTypes DEF RequestScan
        <3>2. scans' \in 0 .. MaxScans /\ asking' \subseteq Job
            BY <2>2, <3>1, AskTypes DEF RequestScan
        <3>3. [page[l] EXCEPT !.verdict = NoVerdict] \in PageState
            BY <3>1, NoVerdictTypes DEF PageState
        <3>4. QED
            BY <2>2, <3>2, <3>3 DEF RequestScan
    <2>3. ASSUME NEW l \in Scanned, DeleteScanned(l) PROVE ScanTypeOK'
        BY <2>3 DEF DeleteScanned, PageState
    <2>4. ASSUME NEW job \in asking, PublishScan(job) PROVE ScanTypeOK'
        BY <2>4, JobTypes DEF PublishScan
    <2>5. ASSUME NEW w \in Consumers, NEW job \in queue, Consume(w, job) PROVE ScanTypeOK'
        <3>1. [pc |-> "find", job |-> job] \in WorkerState
            BY DEF WorkerState
        <3>2. QED
            BY <2>5, <3>1, WorkerKeepsTypes, JobTypes DEF Consume
    <2>6. ASSUME NEW w \in Consumers, FindScanned(w) PROVE ScanTypeOK'
        <3>1. worker[w] \in [pc: {"find", "cached", "scan"}, job: Job]
            BY <2>6, WorkerTypes DEF FindScanned
        <3>2. /\ Idle \in WorkerState
              /\ \A p \in {"scan", "cached"} : [worker[w] EXCEPT !.pc = p] \in WorkerState
            BY <3>1 DEF WorkerState
        <3>3. QED
            BY <2>6, <3>2, WorkerKeepsTypes DEF FindScanned
    <2>7. ASSUME NEW w \in Consumers, GetCached(w) PROVE ScanTypeOK'
        <3>1. worker[w] \in [pc: {"find", "cached", "scan"}, job: Job]
            BY <2>7, WorkerTypes DEF GetCached
        <3>2. cache[worker[w].job.url] \in Verdict
            BY <3>1, JobTypes
        <3>3. /\ [worker[w] EXCEPT !.pc = "scan"] \in WorkerState
              /\ [pc |-> "write", job |-> worker[w].job, verdict |-> cache[worker[w].job.url]]
                    \in WorkerState
            BY <3>1, <3>2 DEF WorkerState
        <3>4. QED
            BY <2>7, <3>3, WorkerKeepsTypes DEF GetCached
    <2>8. ASSUME NEW w \in Consumers, NEW status \in {"SAFE", "BAD", "ODD"}, ScanUrl(w, status)
          PROVE  ScanTypeOK'
        <3>1. worker[w].job \in Job
            BY <2>8, WorkerTypes DEF ScanUrl
        <3>2. [status |-> status, at |-> calls + 1] \in Verdict
            BY DEF Verdict
        <3>3. [pc |-> "store", job |-> worker[w].job,
               verdict |-> [status |-> status, at |-> calls + 1]] \in WorkerState
            BY <3>1, <3>2 DEF WorkerState
        <3>4. QED
            BY <2>8, <3>3, WorkerKeepsTypes DEF ScanUrl
    <2>9. ASSUME NEW w \in Consumers, StoreVerdict(w) PROVE ScanTypeOK'
        <3>1. worker[w] \in [pc: {"store", "write", "alert"}, job: Job, verdict: Verdict]
            BY <2>9, WorkerTypes DEF StoreVerdict
        <3>2. [worker[w] EXCEPT !.pc = "write"] \in WorkerState
            BY <3>1 DEF WorkerState
        <3>3. QED
            BY <2>9, <3>1, <3>2, WorkerKeepsTypes DEF StoreVerdict
    <2>10. ASSUME NEW w \in Consumers, WriteVerdict(w) PROVE ScanTypeOK'
        <3> DEFINE l == worker[w].job.link
                   v == worker[w].verdict
        <3>1. worker[w] \in [pc: {"store", "write", "alert"}, job: Job, verdict: Verdict]
            BY <2>10, WorkerTypes DEF WriteVerdict
        <3>2. l \in Scanned /\ v \in Verdict /\ v.at \in Nat
            BY <3>1, JobTypes DEF Verdict
        <3>3. [worker[w] EXCEPT !.pc = "alert"] \in WorkerState /\ Idle \in WorkerState
            BY <3>1 DEF WorkerState
        <3>4. worker' \in [Consumers -> WorkerState]
            BY <2>10, <3>3, WorkerKeepsTypes DEF WriteVerdict
        <3>5. page[l] \in [pc: {"live"}, url: Urls, verdict: Verdict]
            BY <2>10, <3>2, PageTypes DEF WriteVerdict
        <3>6. [page[l].verdict EXCEPT !.at = v.at] \in Verdict
            BY <3>2, <3>5 DEF Verdict
        <3>7. \A x \in Verdict : [page[l] EXCEPT !.verdict = x] \in PageState
            BY <3>5 DEF PageState
        <3>8. page' = [page EXCEPT ![l] = [page[l] EXCEPT !.verdict =
                 IF v.status = "ODD" THEN [page[l].verdict EXCEPT !.at = v.at] ELSE v]]
            BY <2>10 DEF WriteVerdict
        <3>9. page' \in [Scanned -> PageState]
            BY <3>2, <3>6, <3>7, <3>8
        <3>10. latest' \in [Scanned -> Nat] /\ unscanned' \subseteq Scanned
            BY <2>10, <3>2 DEF WriteVerdict
        <3>11. QED
            BY <2>10, <3>4, <3>9, <3>10 DEF WriteVerdict
    <2>11. ASSUME NEW w \in Consumers, PublishAlert(w) \/ ScanFails(w) PROVE ScanTypeOK'
        <3>1. worker' \in [Consumers -> WorkerState]
            BY <2>11, WorkerKeepsTypes DEF PublishAlert, ScanFails, WorkerState
        <3>2. unscanned' \subseteq Scanned
            BY <2>11, WorkerTypes, JobTypes DEF PublishAlert, ScanFails
        <3>3. QED
            BY <2>11, <3>1, <3>2 DEF PublishAlert, ScanFails
    <2>12. ASSUME WorkerStops PROVE ScanTypeOK'
        <3>1. queue' \subseteq Job
            BY <2>12, WorkerTypes DEF WorkerStops
        <3>2. stops' \in 0 .. MaxStops
            BY <2>12, ScansAssumption DEF WorkerStops
        <3>3. QED
            BY <2>12, <3>1, <3>2 DEF WorkerStops, WorkerState
    <2>13. ASSUME NEW u \in Urls, CacheLapses(u) PROVE ScanTypeOK'
        BY <2>13, NoVerdictTypes DEF CacheLapses
    <2>14. CASE UNCHANGED scanVars
        BY <2>14 DEF scanVars
    <2>15. QED
        BY <2>1, <2>2, <2>3, <2>4, <2>5, <2>6, <2>7, <2>8, <2>9, <2>10, <2>11, <2>12, <2>13, <2>14
           DEF ScanNext
<1>3. QED
    BY <1>1, <1>2, PTL DEF ScanSpec

-----------------------------------------------------------------------------
(* Pending links                                                           *)

(* What is cached, or about to be written, was given by the scanner.       *)
Given ==
    /\ \A u \in Urls : cache[u] # NoVerdict => cache[u].status # "PENDING"
    /\ \A w \in Consumers :
          worker[w].pc \in {"store", "write"} => worker[w].verdict.status # "PENDING"

(* A job that may still write a verdict: one that only sends its alert     *)
(* does not count.                                                         *)
Ahead(l) ==
    \/ \E job \in asking \cup queue : job.link = l
    \/ \E w \in Consumers :
          worker[w].pc \in {"find", "cached", "scan", "store", "write"} /\ worker[w].job.link = l

PendingAhead ==
    \A l \in Scanned \ unscanned : There(l) /\ Status(l) = "PENDING" => Ahead(l)

LEMMA AskedAhead ==
    ASSUME NEW l, NEW u, NEW force, Ask(l, u, force)
    PROVE  asking \subseteq asking' /\ \E job \in asking' : job.link = l
<1> DEFINE new == [id |-> scans, link |-> l, url |-> u, force |-> force, asked |-> calls]
<1>1. asking' = asking \cup {new} /\ new.link = l
    BY DEF Ask
<1> HIDE DEF new
<1>2. QED
    BY <1>1

(* A consumer goes on with its job, or ends it at a link of which nothing  *)
(* is asked any more; the links' verdicts stay.                            *)
LEMMA GoesOn ==
    ASSUME ScanTypeOK, PendingAhead, NEW w \in Consumers, NEW state \in WorkerState,
           NEW k \in Scanned, worker[w].job.link = k, WorkerGoes(w, state),
           asking \cup queue \subseteq (asking \cup queue)',
           unscanned \subseteq unscanned',
           \A l \in Scanned \ unscanned' :
              There(l)' /\ Status(l)' = "PENDING" => There(l) /\ Status(l) = "PENDING",
           \/ state # Idle /\ state.pc # "alert" /\ state.job = worker[w].job
           \/ WorkerAt(w, "alert")
           \/ ~There(k)' \/ Status(k)' # "PENDING" \/ k \in unscanned'
    PROVE  PendingAhead'
<1> SUFFICES ASSUME NEW l \in Scanned, l \notin unscanned', There(l)', Status(l)' = "PENDING"
             PROVE  Ahead(l)'
    BY DEF PendingAhead
<1>1. Ahead(l)
    BY DEF PendingAhead
<1>2. /\ worker' \in [Consumers -> WorkerState]
      /\ worker'[w] = state /\ \A v \in Consumers \ {w} : worker'[v] = worker[v]
    BY WorkerKeepsTypes DEF ScanTypeOK
<1>3. CASE \E job \in asking \cup queue : job.link = l
    BY <1>3 DEF Ahead
<1>4. CASE \E v \in Consumers \ {w} :
              worker[v].pc \in {"find", "cached", "scan", "store", "write"} /\ worker[v].job.link = l
    BY <1>2, <1>4 DEF Ahead
<1>5. CASE worker[w].pc \in {"find", "cached", "scan", "store", "write"} /\ worker[w].job.link = l
    <2>1. state # Idle /\ state.pc # "alert" /\ state.job = worker[w].job
        BY <1>5 DEF WorkerAt
    <2>2. state.pc \in {"find", "cached", "scan", "store", "write"}
        BY <2>1 DEF WorkerState
    <2>3. QED
        BY <1>2, <1>5, <2>1, <2>2 DEF Ahead
<1>6. QED
    BY <1>1, <1>3, <1>4, <1>5 DEF Ahead

(* A pending link has a scan to come, whatever other jobs of the link did, *)
(* however often the worker stopped and whatever was cached, unless a job  *)
(* of the link failed.                                                     *)
THEOREM PendingScanned == ScanSpec => []PendingIsUnderway
<1> DEFINE Inv == Given /\ PendingAhead
<1>1. ScanInit => Inv
    BY DEF ScanInit, Given, PendingAhead, There, Idle
<1>2. ScanTypeOK /\ Inv /\ [ScanNext]_scanVars => Inv'
    <2> SUFFICES ASSUME ScanTypeOK, Given, PendingAhead, [ScanNext]_scanVars PROVE Inv'
        OBVIOUS
    <2> USE DEF scanQueue, scanObserved
    <2>0. /\ worker \in [Consumers -> WorkerState] /\ page \in [Scanned -> PageState]
          /\ cache \in [Urls -> Verdict] /\ asking \subseteq Job /\ queue \subseteq Job
        BY DEF ScanTypeOK
    <2>1. ASSUME UNCHANGED <<cache, worker>> PROVE Given'
        BY <2>1 DEF Given
    <2>2. ASSUME NEW w \in Consumers, NEW state \in WorkerState, WorkerGoes(w, state), UNCHANGED cache,
                 state.pc \in {"store", "write"} => state.verdict.status # "PENDING"
          PROVE  Given'
        BY <2>0, <2>2, WorkerKeepsTypes DEF Given
    <2>3. ASSUME NEW l \in Scanned, NEW u \in Urls, CreateScanned(l, u) PROVE Inv'
        <3>1. Given'
            BY <2>1, <2>3 DEF CreateScanned
        <3>2. asking \subseteq asking' /\ \E job \in asking' : job.link = l
            BY <2>3, AskedAhead DEF CreateScanned
        <3>3. \A m \in Scanned \ {l} : page'[m] = page[m]
            BY <2>0, <2>3 DEF CreateScanned
        <3>4. PendingAhead'
            BY <2>3, <3>2, <3>3 DEF PendingAhead, Ahead, There, Status, CreateScanned
        <3>5. QED
            BY <3>1, <3>4
    <2>4. ASSUME NEW l \in Scanned, NEW force \in BOOLEAN, RequestScan(l, force) PROVE Inv'
        <3>1. Given'
            BY <2>1, <2>4 DEF RequestScan
        <3>2. asking \subseteq asking' /\ \E job \in asking' : job.link = l
            BY <2>4, AskedAhead DEF RequestScan
        <3>3. \A m \in Scanned \ {l} : page'[m] = page[m]
            BY <2>0, <2>4 DEF RequestScan
        <3>4. PendingAhead'
            BY <2>4, <3>2, <3>3 DEF PendingAhead, Ahead, There, Status, RequestScan
        <3>5. QED
            BY <3>1, <3>4
    <2>5. ASSUME NEW l \in Scanned, DeleteScanned(l) PROVE Inv'
        <3>1. page' = [page EXCEPT ![l] = Done] /\ UNCHANGED <<asking, queue, worker, unscanned, cache>>
            BY <2>5 DEF DeleteScanned
        <3>2. ~There(l)' /\ \A m \in Scanned \ {l} : page'[m] = page[m]
            BY <2>0, <3>1 DEF There, Done
        <3>3. PendingAhead'
            BY <3>1, <3>2 DEF PendingAhead, Ahead, There, Status
        <3>4. QED
            BY <2>1, <3>1, <3>3
    <2>6. ASSUME NEW job \in asking, PublishScan(job) PROVE Inv'
        <3>1. /\ UNCHANGED <<page, worker, cache>> /\ asking' = asking \ {job}
              /\ \/ queue' = queue \cup {job} /\ UNCHANGED unscanned
                 \/ unscanned' = unscanned \cup {job.link} /\ UNCHANGED queue
            BY <2>6 DEF PublishScan
        <3>2. PendingAhead'
            BY <3>1 DEF PendingAhead, Ahead, There, Status
        <3>3. QED
            BY <2>1, <3>1, <3>2
    <2>7. ASSUME NEW w \in Consumers, NEW job \in queue, Consume(w, job) PROVE Inv'
        <3>1. /\ queue' = queue \ {job} /\ UNCHANGED <<page, asking, unscanned, cache>>
              /\ WorkerAt(w, "idle") /\ WorkerGoes(w, [pc |-> "find", job |-> job])
            BY <2>7 DEF Consume
        <3>2. [pc |-> "find", job |-> job] \in WorkerState
            BY <2>0 DEF WorkerState
        <3>3. Given'
            BY <2>2, <3>1, <3>2
        <3>4. worker'[w] = [pc |-> "find", job |-> job] /\ \A v \in Consumers \ {w} : worker'[v] = worker[v]
            BY <2>0, <3>1, <3>2, WorkerKeepsTypes
        <3>5. \A l \in Scanned : Ahead(l) => Ahead(l)'
            <4> SUFFICES ASSUME NEW l \in Scanned, Ahead(l) PROVE Ahead(l)'
                OBVIOUS
            <4>1. CASE job.link = l
                BY <3>4, <4>1 DEF Ahead
            <4>2. CASE \E j \in (asking \cup queue) \ {job} : j.link = l
                BY <3>1, <4>2 DEF Ahead
            <4>3. CASE \E v \in Consumers : worker[v].pc \in {"find", "cached", "scan", "store", "write"}
                                            /\ worker[v].job.link = l
                BY <3>1, <3>4, <4>3 DEF Ahead, WorkerAt
            <4>4. QED
                BY <4>1, <4>2, <4>3 DEF Ahead
        <3>6. PendingAhead'
            BY <3>1, <3>5 DEF PendingAhead, There, Status
        <3>7. QED
            BY <3>3, <3>6
    <2>8. ASSUME NEW w \in Consumers, FindScanned(w) PROVE Inv'
        <3>1. /\ WorkerAt(w, "find") /\ UNCHANGED <<page, asking, queue, unscanned, cache>>
              /\ WorkerGoes(w, IF ~There(worker[w].job.link) THEN Idle ELSE
                     [worker[w] EXCEPT !.pc = IF worker[w].job.force THEN "scan" ELSE "cached"])
            BY <2>8 DEF FindScanned
        <3>2. PICK k \in Scanned : worker[w].job.link = k
            BY <2>0, <3>1, WorkerTypes, JobTypes DEF WorkerAt
        <3>3. \A l \in Scanned : (There(l)' <=> There(l)) /\ Status(l)' = Status(l)
            BY <3>1 DEF There, Status
        <3>4. CASE ~There(k)
            <4>1. WorkerGoes(w, Idle) /\ Idle \in WorkerState /\ Idle.pc \notin {"store", "write"}
                BY <3>1, <3>2, <3>4 DEF WorkerState, Idle
            <4>2. QED
                BY <2>2, <3>1, <3>2, <3>3, <3>4, <4>1, GoesOn
        <3>5. CASE There(k)
            <4>1. PICK p \in {"scan", "cached"} : WorkerGoes(w, [worker[w] EXCEPT !.pc = p])
                BY <3>1, <3>2, <3>5
            <4>2. /\ [worker[w] EXCEPT !.pc = p] \in WorkerState
                  /\ [worker[w] EXCEPT !.pc = p].pc = p
                  /\ [worker[w] EXCEPT !.pc = p].job = worker[w].job
                BY <2>0, <3>1, NextStepTypes
            <4>3. [worker[w] EXCEPT !.pc = p] # Idle
                BY <4>2 DEF Idle
            <4>4. QED
                BY <2>2, <3>1, <3>2, <3>3, <4>1, <4>2, <4>3, GoesOn
        <3>6. QED
            BY <3>4, <3>5
    <2>9. ASSUME NEW w \in Consumers, GetCached(w) PROVE Inv'
        <3> DEFINE hit == cache[worker[w].job.url]
        <3>1. /\ WorkerAt(w, "cached") /\ UNCHANGED <<page, asking, queue, unscanned, cache>>
              /\ WorkerGoes(w, IF hit = NoVerdict THEN [worker[w] EXCEPT !.pc = "scan"]
                               ELSE [pc |-> "write", job |-> worker[w].job, verdict |-> hit])
            BY <2>9 DEF GetCached
        <3>2. /\ worker[w].job \in Job /\ worker[w].job.link \in Scanned /\ worker[w].job.url \in Urls
            BY <2>0, <3>1, WorkerTypes, JobTypes DEF WorkerAt
        <3>3. PICK k \in Scanned : worker[w].job.link = k
            BY <3>2
        <3>4. \A l \in Scanned : (There(l)' <=> There(l)) /\ Status(l)' = Status(l)
            BY <3>1 DEF There, Status
        <3>5. CASE hit = NoVerdict
            <4>1. WorkerGoes(w, [worker[w] EXCEPT !.pc = "scan"])
                BY <3>1, <3>5
            <4>2. /\ [worker[w] EXCEPT !.pc = "scan"] \in WorkerState
                  /\ [worker[w] EXCEPT !.pc = "scan"].pc = "scan"
                  /\ [worker[w] EXCEPT !.pc = "scan"].job = worker[w].job
                BY <2>0, <3>1, NextStepTypes
            <4>3. [worker[w] EXCEPT !.pc = "scan"] # Idle
                BY <4>2 DEF Idle
            <4>4. QED
                BY <2>2, <3>1, <3>3, <3>4, <4>1, <4>2, <4>3, GoesOn
        <3>6. CASE hit # NoVerdict
            <4> DEFINE state == [pc |-> "write", job |-> worker[w].job, verdict |-> hit]
            <4>1. WorkerGoes(w, state)
                BY <3>1, <3>6
            <4>2. state \in WorkerState /\ state # Idle /\ state.pc = "write"
                  /\ state.job = worker[w].job /\ state.verdict.status # "PENDING"
                BY <2>0, <3>2, <3>6 DEF WorkerState, Idle, Given
            <4> HIDE DEF state
            <4>3. QED
                BY <2>2, <3>1, <3>3, <3>4, <4>1, <4>2, GoesOn
        <3>7. QED
            BY <3>5, <3>6
    <2>10. ASSUME NEW w \in Consumers, NEW status \in {"SAFE", "BAD", "ODD"}, ScanUrl(w, status)
           PROVE  Inv'
        <3> DEFINE state == [pc |-> "store", job |-> worker[w].job,
                             verdict |-> [status |-> status, at |-> calls + 1]]
        <3>1. /\ WorkerAt(w, "scan") /\ UNCHANGED <<page, asking, queue, unscanned, cache>>
              /\ WorkerGoes(w, state)
            BY <2>10 DEF ScanUrl
        <3>2. worker[w].job \in Job /\ calls \in Nat
            BY <2>0, <3>1, WorkerTypes DEF WorkerAt, ScanTypeOK
        <3>3. PICK k \in Scanned : worker[w].job.link = k
            BY <3>2, JobTypes
        <3>4. \A l \in Scanned : (There(l)' <=> There(l)) /\ Status(l)' = Status(l)
            BY <3>1 DEF There, Status
        <3>5. [status |-> status, at |-> calls + 1] \in Verdict
            BY <3>2 DEF Verdict
        <3>6. state \in WorkerState /\ state # Idle /\ state.pc = "store"
              /\ state.job = worker[w].job /\ state.verdict.status # "PENDING"
            BY <3>2, <3>5 DEF WorkerState, Idle
        <3> HIDE DEF state
        <3>7. QED
            BY <2>2, <3>1, <3>3, <3>4, <3>6, GoesOn
    <2>11. ASSUME NEW w \in Consumers, StoreVerdict(w) PROVE Inv'
        <3> DEFINE state == [worker[w] EXCEPT !.pc = "write"]
        <3>1. /\ WorkerAt(w, "store") /\ UNCHANGED <<page, asking, queue, unscanned>>
              /\ WorkerGoes(w, state)
              /\ cache' = [cache EXCEPT ![worker[w].job.url] = worker[w].verdict]
            BY <2>11 DEF StoreVerdict
        <3>2. /\ state \in WorkerState /\ state.pc = "write"
              /\ state.job = worker[w].job /\ state.verdict = worker[w].verdict
            BY <2>0, <3>1, NextStepTypes
        <3>3. worker[w].job \in Job /\ worker[w].verdict.status # "PENDING"
            BY <2>0, <3>1, WorkerTypes DEF WorkerAt, Given
        <3>4. PICK k \in Scanned : worker[w].job.link = k
            BY <3>3, JobTypes
        <3>5. \A l \in Scanned : (There(l)' <=> There(l)) /\ Status(l)' = Status(l)
            BY <3>1 DEF There, Status
        <3> HIDE DEF state
        <3>6. Given'
            BY <2>0, <3>1, <3>2, <3>3, WorkerKeepsTypes DEF Given
        <3>7. state # Idle
            BY <3>2 DEF Idle
        <3>8. QED
            BY <3>1, <3>2, <3>4, <3>5, <3>6, <3>7, GoesOn
    <2>12. ASSUME NEW w \in Consumers, WriteVerdict(w) PROVE Inv'
        <3> DEFINE v == worker[w].verdict
        <3>1. PICK k \in Scanned : worker[w].job.link = k
            BY <2>0, <2>12, WorkerTypes, JobTypes DEF WorkerAt, WriteVerdict
        <3>2. /\ WorkerAt(w, "write") /\ There(k) /\ UNCHANGED <<asking, queue, cache>>
              /\ page' = [page EXCEPT ![k] = [page[k] EXCEPT !.verdict =
                             IF v.status = "ODD" THEN [page[k].verdict EXCEPT !.at = v.at] ELSE v]]
              /\ unscanned' = unscanned \cup {m \in {k} : v.status = "ODD"}
              /\ WorkerGoes(w, IF v.status = "SAFE" THEN Idle ELSE [worker[w] EXCEPT !.pc = "alert"])
            BY <2>12, <3>1 DEF WriteVerdict
        <3>3. PICK state : WorkerGoes(w, state) /\ state \in {Idle, [worker[w] EXCEPT !.pc = "alert"]}
            BY <3>2
        <3>4. state \in WorkerState /\ state.pc \notin {"store", "write"}
            <4>1. CASE state = Idle
                BY <4>1 DEF WorkerState, Idle
            <4>2. CASE state = [worker[w] EXCEPT !.pc = "alert"]
                <5>1. /\ [worker[w] EXCEPT !.pc = "alert"] \in WorkerState
                      /\ [worker[w] EXCEPT !.pc = "alert"].pc = "alert"
                    BY <2>0, <3>2, NextStepTypes
                <5>2. QED
                    BY <4>2, <5>1
            <4>3. QED
                BY <3>3, <4>1, <4>2
        <3>5. Given'
            BY <2>2, <3>2, <3>3, <3>4
        <3>6. \A l \in Scanned \ {k} : page'[l] = page[l]
            BY <2>0, <3>2
        <3>7. v.status # "PENDING"
            BY <3>2 DEF Given, WorkerAt
        <3>8. Status(k)' # "PENDING" \/ k \in unscanned'
            <4>1. page[k] \in [pc: {"live"}, url: Urls, verdict: Verdict]
                BY <2>0, <3>2, PageTypes
            <4>2. v.status # "ODD" => page'[k].verdict = v
                BY <2>0, <3>2, <4>1
            <4>3. QED
                BY <3>2, <3>7, <4>2 DEF Status
        <3>9. \A l \in Scanned \ unscanned' : There(l)' /\ Status(l)' = "PENDING" => There(l) /\ Status(l) = "PENDING"
            BY <3>6, <3>8 DEF There, Status
        <3>10. PendingAhead'
            BY <3>1, <3>2, <3>3, <3>4, <3>8, <3>9, GoesOn
        <3>11. QED
            BY <3>5, <3>10
    <2>13. ASSUME NEW w \in Consumers, PublishAlert(w) \/ ScanFails(w) PROVE Inv'
        <3>1. /\ ~WorkerAt(w, "idle") /\ WorkerGoes(w, Idle)
              /\ UNCHANGED <<page, asking, queue, cache>> /\ unscanned \subseteq unscanned'
              /\ WorkerAt(w, "alert") \/ worker[w].job.link \in unscanned'
            BY <2>13 DEF PublishAlert, ScanFails, WorkerAt
        <3>2. PICK k \in Scanned : worker[w].job.link = k
            BY <2>0, <3>1, WorkerTypes, JobTypes
        <3>3. Idle \in WorkerState /\ Idle.pc \notin {"store", "write"}
            BY DEF WorkerState, Idle
        <3>4. WorkerAt(w, "alert") \/ k \in unscanned'
            BY <3>1, <3>2
        <3>5. \A l \in Scanned : (There(l)' <=> There(l)) /\ Status(l)' = Status(l)
            BY <3>1 DEF There, Status
        <3>6. QED
            BY <2>2, <3>1, <3>2, <3>3, <3>4, <3>5, GoesOn
    <2>14. ASSUME WorkerStops PROVE Inv'
        <3>1. /\ UNCHANGED <<page, asking, unscanned, cache>> /\ worker' = [w \in Consumers |-> Idle]
              /\ queue' = queue \cup {worker[w].job : w \in {v \in Consumers : ~WorkerAt(v, "idle")}}
            BY <2>14 DEF WorkerStops
        <3>2. Given'
            BY <3>1 DEF Given, Idle
        <3>3. \A l \in Scanned : Ahead(l) => Ahead(l)'
            BY <3>1 DEF Ahead, WorkerAt
        <3>4. QED
            BY <3>1, <3>2, <3>3 DEF PendingAhead, There, Status
    <2>15. ASSUME NEW u \in Urls, CacheLapses(u) PROVE Inv'
        <3>1. UNCHANGED <<page, asking, queue, worker, unscanned>>
              /\ cache' = [cache EXCEPT ![u] = NoVerdict]
            BY <2>15 DEF CacheLapses
        <3>2. Given'
            BY <2>0, <3>1 DEF Given
        <3>3. QED
            BY <3>1, <3>2 DEF PendingAhead, Ahead, There, Status
    <2>16. CASE UNCHANGED scanVars
        BY <2>1, <2>16 DEF PendingAhead, Ahead, There, Status, scanVars
    <2>17. QED
        BY <2>3, <2>4, <2>5, <2>6, <2>7, <2>8, <2>9, <2>10, <2>11, <2>12, <2>13, <2>14, <2>15, <2>16
           DEF ScanNext
<1>3. ScanTypeOK /\ Inv => PendingIsUnderway
    <2> SUFFICES ASSUME ScanTypeOK, PendingAhead, NEW l \in Scanned \ unscanned, Ahead(l)
                 PROVE  \E job \in Underway : job.link = l
        BY DEF PendingAhead, PendingIsUnderway
    <2>1. \A w \in Consumers : worker[w].pc \in {"find", "cached", "scan", "store", "write"} =>
              worker[w] # Idle
        BY DEF Idle
    <2>2. QED
        BY <2>1 DEF Ahead, Underway
<1>4. QED
    BY <1>1, <1>2, <1>3, ScanTypeCorrect, PTL DEF ScanSpec
-----------------------------------------------------------------------------
(* The order of verdicts                                                   *)

RightJob(job) ==
    /\ job.asked <= calls
    /\ page[job.link] # Idle /\ (There(job.link) => page[job.link].url = job.url)

JobsRight == \A job \in Underway : RightJob(job)

(* Jobs of one URL that are processed at one time are known to be.         *)
OneOfItsUrl ==
    \A v, w \in Consumers :
        v # w /\ worker[v] # Idle /\ worker[w] # Idle /\ worker[v].job.url = worker[w].job.url
            => worker[w].job.url \in mingled

(* No verdict written to a link of u is later than the number at.          *)
NoneLater(u, at) == \A l \in Scanned : There(l) /\ page[l].url = u => latest[l] <= at

(* What a consumer holds fits what was asked, cached and written before.   *)
ConsumerFits(s) ==
    /\ s.pc = "cached" => ~s.job.force
    /\ s.pc \in {"store", "write"} =>
          /\ s.verdict.at <= calls
          /\ s.job.force => s.job.asked < s.verdict.at
          /\ s.job.url \notin mingled => NoneLater(s.job.url, s.verdict.at)
    /\ s.pc = "write" /\ s.job.url \notin mingled =>
          cache[s.job.url] \in {NoVerdict, s.verdict}

WorkersFit == \A w \in Consumers : ConsumerFits(worker[w])

CacheRight ==
    \A u \in Urls :
        /\ cache[u].at <= calls
        /\ cache[u] # NoVerdict /\ u \notin mingled => NoneLater(u, cache[u].at)

LinksRight ==
    \A l \in Scanned :
        /\ latest[l] <= calls /\ (page[l] = Idle => latest[l] = 0)
        /\ There(l) /\ Status(l) # "PENDING" /\ page[l].url \notin mingled =>
              page[l].verdict.at = latest[l]

Ordered == JobsRight /\ OneOfItsUrl /\ WorkersFit /\ CacheRight /\ LinksRight

(* A consumer goes on with its job, or ends it, and nothing else changes   *)
(* but that the scanner may have been called.                              *)
LEMMA OrderedGoesOn ==
    ASSUME ScanTypeOK, Ordered, NEW w \in Consumers, NEW state \in WorkerState,
           WorkerGoes(w, state), UNCHANGED <<page, latest, cache, mingled, asking, queue>>,
           calls' \in Nat, calls <= calls',
           state # Idle => worker[w] # Idle /\ state.job = worker[w].job,
           ConsumerFits(state)'
    PROVE  Ordered'
<1>0. /\ worker' \in [Consumers -> WorkerState]
      /\ worker'[w] = state /\ \A v \in Consumers \ {w} : worker'[v] = worker[v]
    BY WorkerKeepsTypes DEF ScanTypeOK
<1>1. JobsRight'
    <2>1. Underway' \subseteq Underway
        BY <1>0 DEF Underway
    <2>2. \A job \in Underway : job \in Job
        BY WorkerTypes DEF Underway, ScanTypeOK
    <2>3. \A job \in Underway : RightJob(job)'
        <3> SUFFICES ASSUME NEW job \in Underway PROVE RightJob(job)'
            OBVIOUS
        <3>1. RightJob(job) /\ job.asked \in Nat /\ calls \in Nat
            BY <2>2, JobTypes DEF Ordered, JobsRight, ScanTypeOK
        <3>2. QED
            BY <3>1 DEF RightJob, There
    <2>4. QED
        BY <2>1, <2>3 DEF JobsRight
<1>2. OneOfItsUrl'
    BY <1>0 DEF OneOfItsUrl, Ordered
<1>3. WorkersFit'
    <2> SUFFICES ASSUME NEW v \in Consumers \ {w} PROVE ConsumerFits(worker[v])'
        BY <1>0 DEF WorkersFit
    <2>1. PICK s \in WorkerState : s = worker[v] /\ s = worker'[v]
        BY <1>0 DEF ScanTypeOK
    <2>2. ConsumerFits(s)
        BY <2>1 DEF Ordered, WorkersFit
    <2>3. s.pc \in {"store", "write"} => s.verdict.at \in Nat
        BY DEF WorkerState, Idle, Verdict
    <2>4. ConsumerFits(s)'
        BY <2>2, <2>3 DEF ConsumerFits, NoneLater, There, ScanTypeOK
    <2>5. QED
        BY <2>1, <2>4
<1>4. CacheRight'
    <2>1. \A u \in Urls : cache[u].at \in Nat
        BY DEF ScanTypeOK, Verdict
    <2>2. QED
        BY <2>1 DEF Ordered, CacheRight, NoneLater, There, ScanTypeOK
<1>5. LinksRight'
    BY DEF Ordered, LinksRight, There, Status, ScanTypeOK
<1>6. QED
    BY <1>1, <1>2, <1>3, <1>4, <1>5 DEF Ordered

LEMMA HoldsTypes ==
    ASSUME NEW job \in Job, NEW verdict \in Verdict, NEW p \in {"store", "write"}
    PROVE  \E s \in WorkerState : /\ s = [pc |-> p, job |-> job, verdict |-> verdict]
                                  /\ s.pc = p /\ s.job = job /\ s.verdict = verdict
<1> DEFINE s == [pc |-> p, job |-> job, verdict |-> verdict]
<1>1. s \in WorkerState /\ s.pc = p /\ s.job = job /\ s.verdict = verdict
    BY DEF WorkerState
<1>2. QED
    BY <1>1

(* What fitted fits still when links were added, deleted or reset, or more *)
(* URLs are known to be mingled.                                           *)
LEMMA FitsStill ==
    ASSUME ScanTypeOK, NEW s \in WorkerState, ConsumerFits(s), mingled \subseteq mingled',
           UNCHANGED <<calls, latest, cache>>,
           \A l \in Scanned : There(l)' => latest[l] = 0 \/ (There(l) /\ page'[l].url = page[l].url)
    PROVE  ConsumerFits(s)'
<1>1. s.pc \in {"store", "write"} => s.verdict.at \in Nat
    BY DEF WorkerState, Idle, Verdict
<1>2. QED
    BY <1>1 DEF ConsumerFits, NoneLater

(* A link never goes back to an older verdict, and a forced scan never to  *)
(* one given before it was asked for, unless jobs of one URL overlapped.   *)
THEOREM NoVerdictGoesBack == ScanSpec => []VerdictsAdvance
<1>1. ScanInit => Ordered
    <2> SUFFICES ASSUME ScanInit PROVE Ordered
        OBVIOUS
    <2> USE DEF ScanInit
    <2>1. Underway = {}
        BY DEF Underway
    <2>2. JobsRight /\ OneOfItsUrl
        BY <2>1 DEF JobsRight, OneOfItsUrl
    <2>3. WorkersFit
        BY DEF WorkersFit, ConsumerFits, Idle
    <2>4. CacheRight /\ LinksRight
        BY DEF CacheRight, LinksRight, There, Idle, NoVerdict
    <2>5. QED
        BY <2>2, <2>3, <2>4 DEF Ordered
<1>2. ScanTypeOK /\ Ordered /\ [ScanNext]_scanVars => Ordered'
    <2> SUFFICES ASSUME ScanTypeOK, Ordered, [ScanNext]_scanVars PROVE Ordered'
        OBVIOUS
    <2> USE DEF scanQueue, scanObserved
    <2>0. /\ worker \in [Consumers -> WorkerState] /\ page \in [Scanned -> PageState]
          /\ cache \in [Urls -> Verdict] /\ asking \subseteq Job /\ queue \subseteq Job
          /\ calls \in Nat /\ latest \in [Scanned -> Nat]
        BY DEF ScanTypeOK
    <2>1. JobsRight /\ OneOfItsUrl /\ WorkersFit /\ CacheRight /\ LinksRight
        BY DEF Ordered
    <2>2. /\ \A job \in Underway : job \in Job /\ RightJob(job)
          /\ \A u \in Urls : cache[u].at \in Nat
        BY <2>0, <2>1, WorkerTypes DEF Underway, JobsRight, Verdict
    <2>3. ASSUME UNCHANGED <<worker, mingled>> PROVE OneOfItsUrl'
        BY <2>1, <2>3 DEF OneOfItsUrl
    <2>4. ASSUME UNCHANGED <<worker, calls, latest, cache>>, mingled \subseteq mingled',
                 \A l \in Scanned : There(l)' =>
                    latest[l] = 0 \/ (There(l) /\ page'[l].url = page[l].url)
          PROVE  WorkersFit' /\ CacheRight'
        <3>1. ASSUME NEW w \in Consumers PROVE ConsumerFits(worker[w])'
            <4>1. PICK s \in WorkerState : s = worker[w] /\ ConsumerFits(s)
                BY <2>0, <2>1 DEF WorkersFit
            <4>2. ConsumerFits(s)'
                BY <2>4, <4>1, FitsStill
            <4>3. QED
                BY <2>4, <4>1, <4>2
        <3>2. CacheRight'
            BY <2>0, <2>1, <2>2, <2>4 DEF CacheRight, NoneLater
        <3>3. QED
            BY <3>1, <3>2 DEF WorkersFit
    <2>5. ASSUME NEW l \in Scanned, NEW u \in Urls, NEW force \in BOOLEAN, Ask(l, u, force),
                 UNCHANGED <<queue, worker, calls>>, page'[l] # Idle, page'[l].url = u,
                 \A m \in Scanned : page[m] # Idle => page'[m] # Idle /\ (There(m)' => There(m)
                                                      /\ page'[m].url = page[m].url)
          PROVE  JobsRight'
        <3>1. PICK new : /\ asking' = asking \cup {new}
                         /\ new.link = l /\ new.url = u /\ new.asked = calls
            <4> DEFINE asks == [id |-> scans, link |-> l, url |-> u, force |-> force, asked |-> calls]
            <4>1. asking' = asking \cup {asks} /\ asks.link = l /\ asks.url = u /\ asks.asked = calls
                BY <2>5 DEF Ask
            <4> HIDE DEF asks
            <4>2. QED
                BY <4>1
        <3>2. Underway' = Underway \cup {new}
            BY <2>5, <3>1 DEF Underway
        <3>3. RightJob(new)'
            BY <2>0, <2>5, <3>1 DEF RightJob
        <3>4. ASSUME NEW job \in Underway PROVE RightJob(job)'
            BY <2>2, <2>5, <3>4, JobTypes DEF RightJob
        <3>5. QED
            BY <3>2, <3>3, <3>4 DEF JobsRight
    <2>6. ASSUME NEW l \in Scanned, NEW u \in Urls, CreateScanned(l, u) PROVE Ordered'
        <3>1. /\ page[l] = Idle /\ Ask(l, u, FALSE)
              /\ page' = [page EXCEPT ![l] = [pc |-> "live", url |-> u, verdict |-> NoVerdict]]
              /\ UNCHANGED <<queue, worker, cache, calls, latest, mingled>>
            BY <2>6 DEF CreateScanned
        <3>2. /\ page'[l] = [pc |-> "live", url |-> u, verdict |-> NoVerdict]
              /\ \A m \in Scanned \ {l} : page'[m] = page[m]
            BY <2>0, <3>1
        <3>3. page'[l] # Idle /\ page'[l].url = u /\ page'[l].verdict.status = "PENDING"
            BY <3>2 DEF Idle, NoVerdict
        <3>4. JobsRight'
            BY <2>5, <3>1, <3>2, <3>3 DEF There
        <3>5. WorkersFit' /\ CacheRight'
            BY <2>1, <2>4, <3>1, <3>2 DEF LinksRight, There
        <3>6. LinksRight'
            BY <2>1, <3>1, <3>2, <3>3 DEF LinksRight, There, Status
        <3>7. QED
            BY <2>3, <3>1, <3>4, <3>5, <3>6 DEF Ordered
    <2>7. ASSUME NEW l \in Scanned, NEW force \in BOOLEAN, RequestScan(l, force) PROVE Ordered'
        <3>1. /\ There(l) /\ Ask(l, page[l].url, force)
              /\ page' = [page EXCEPT ![l] = [page[l] EXCEPT !.verdict = NoVerdict]]
              /\ UNCHANGED <<queue, worker, cache, calls, latest, mingled>>
            BY <2>7 DEF RequestScan
        <3>2. page[l] \in [pc: {"live"}, url: Urls, verdict: Verdict]
            BY <2>0, <3>1, PageTypes
        <3>3. /\ page'[l].pc = "live" /\ page'[l].url = page[l].url
              /\ page'[l].verdict.status = "PENDING" /\ page[l].url \in Urls
              /\ \A m \in Scanned \ {l} : page'[m] = page[m]
            BY <2>0, <3>1, <3>2 DEF NoVerdict
        <3>4. page'[l] # Idle
            BY <3>3 DEF Idle
        <3>5. JobsRight'
            BY <2>5, <3>1, <3>3, <3>4 DEF There
        <3>6. WorkersFit' /\ CacheRight'
            BY <2>4, <3>1, <3>3 DEF There
        <3>7. LinksRight'
            BY <2>1, <3>1, <3>3, <3>4 DEF LinksRight, There, Status
        <3>8. QED
            BY <2>3, <3>1, <3>5, <3>6, <3>7 DEF Ordered
    <2>8. ASSUME UNCHANGED <<page, worker, calls, latest, mingled>>, Underway' \subseteq Underway,
                 UNCHANGED cache \/ \E u \in Urls : CacheLapses(u)
          PROVE  Ordered'
        <3>1. JobsRight'
            BY <2>2, <2>8 DEF JobsRight, RightJob, There
        <3>2. LinksRight'
            BY <2>1, <2>8 DEF LinksRight, There, Status
        <3>3. CASE UNCHANGED cache
            BY <2>3, <2>4, <2>8, <3>1, <3>2, <3>3 DEF Ordered, There
        <3>4. CASE \E u \in Urls : CacheLapses(u)
            <4>1. \A u \in Urls : cache'[u] \in {cache[u], NoVerdict}
                BY <2>0, <3>4 DEF CacheLapses
            <4>2. CacheRight'
                BY <2>0, <2>1, <2>8, <4>1 DEF CacheRight, NoneLater, There, NoVerdict
            <4>3. ASSUME NEW w \in Consumers PROVE ConsumerFits(worker[w])'
                <5>1. PICK s \in WorkerState : s = worker[w] /\ ConsumerFits(s)
                    BY <2>0, <2>1 DEF WorkersFit
                <5>2. s.pc \in {"store", "write"} => s.job.url \in Urls
                    BY DEF WorkerState, Job, Idle
                <5>3. ConsumerFits(s)'
                    BY <2>8, <4>1, <5>1, <5>2 DEF ConsumerFits, NoneLater, There
                <5>4. QED
                    BY <2>8, <5>1, <5>3
            <4>4. QED
                BY <2>3, <2>8, <3>1, <3>2, <4>2, <4>3 DEF Ordered, WorkersFit
        <3>5. QED
            BY <2>8, <3>3, <3>4
    <2>9. ASSUME NEW l \in Scanned, DeleteScanned(l) PROVE Ordered'
        <3>1. page' = [page EXCEPT ![l] = Done]
              /\ UNCHANGED <<asking, queue, worker, cache, calls, latest, mingled>>
            BY <2>9 DEF DeleteScanned
        <3>2. /\ page'[l] # Idle /\ ~There(l)' /\ \A m \in Scanned \ {l} : page'[m] = page[m]
            BY <2>0, <3>1 DEF There, Idle, Done
        <3>3. Underway' = Underway
            BY <3>1 DEF Underway
        <3>4. ASSUME NEW job \in Underway PROVE RightJob(job)'
            BY <2>2, <3>1, <3>2, <3>4, JobTypes DEF RightJob, There
        <3>5. JobsRight'
            BY <3>3, <3>4 DEF JobsRight
        <3>6. WorkersFit' /\ CacheRight'
            BY <2>4, <3>1, <3>2 DEF There
        <3>7. LinksRight'
            BY <2>1, <3>1, <3>2 DEF LinksRight, There, Status
        <3>8. QED
            BY <2>3, <3>1, <3>5, <3>6, <3>7 DEF Ordered
    <2>10. ASSUME NEW job \in asking, PublishScan(job) PROVE Ordered'
        <3>1. UNCHANGED <<page, worker, calls, latest, mingled, cache>> /\ Underway' \subseteq Underway
            BY <2>10 DEF PublishScan, Underway
        <3>2. QED
            BY <2>8, <3>1
    <2>11. ASSUME NEW w \in Consumers, NEW job \in queue, Consume(w, job) PROVE Ordered'
        <3> DEFINE state == [pc |-> "find", job |-> job]
        <3>1. /\ WorkerGoes(w, state) /\ queue' = queue \ {job}
              /\ UNCHANGED <<page, asking, cache, calls, latest>> /\ mingled \subseteq mingled'
              /\ \A v \in Consumers : worker[v] # Idle /\ worker[v].job.url = job.url
                    => job.url \in mingled'
            BY <2>11 DEF Consume
        <3>2. state \in WorkerState /\ state.pc = "find" /\ state.job = job
            BY <2>0 DEF WorkerState
        <3> HIDE DEF state
        <3>3. worker'[w] = state /\ \A v \in Consumers \ {w} : worker'[v] = worker[v]
            BY <2>0, <3>1, <3>2, WorkerKeepsTypes
        <3>4. Underway' \subseteq Underway
            BY <3>1, <3>2, <3>3 DEF Underway
        <3>5. JobsRight'
            BY <2>2, <3>1, <3>4 DEF JobsRight, RightJob, There
        <3>6. OneOfItsUrl'
            BY <2>1, <3>1, <3>2, <3>3 DEF OneOfItsUrl
        <3>7. ASSUME NEW v \in Consumers PROVE ConsumerFits(worker[v])'
            <4>1. CASE v = w
                BY <3>2, <3>3, <4>1 DEF ConsumerFits
            <4>2. CASE v # w
                <5>1. PICK s \in WorkerState : s = worker[v] /\ s = worker'[v] /\ ConsumerFits(s)
                    BY <2>0, <2>1, <3>3, <4>2 DEF WorkersFit
                <5>2. ConsumerFits(s)'
                    BY <3>1, <5>1, FitsStill DEF There
                <5>3. QED
                    BY <5>1, <5>2
            <4>3. QED
                BY <4>1, <4>2
        <3>8. CacheRight' /\ LinksRight'
            BY <2>1, <3>1 DEF CacheRight, LinksRight, NoneLater, There, Status
        <3>9. QED
            BY <3>5, <3>6, <3>7, <3>8 DEF Ordered, WorkersFit
    <2>12. ASSUME NEW w \in Consumers, FindScanned(w) PROVE Ordered'
        <3>1. /\ WorkerAt(w, "find")
              /\ UNCHANGED <<page, asking, queue, cache, calls, latest, mingled>>
              /\ WorkerGoes(w, IF ~There(worker[w].job.link) THEN Idle ELSE
                     [worker[w] EXCEPT !.pc = IF worker[w].job.force THEN "scan" ELSE "cached"])
            BY <2>12 DEF FindScanned
        <3>2. CASE ~There(worker[w].job.link)
            <4>1. WorkerGoes(w, Idle) /\ Idle \in WorkerState /\ ConsumerFits(Idle)'
                BY <3>1, <3>2 DEF WorkerState, ConsumerFits, Idle
            <4>2. QED
                BY <2>0, <3>1, <4>1, OrderedGoesOn
        <3>3. CASE There(worker[w].job.link)
            <4>1. PICK p \in {"scan", "cached"} :
                      /\ WorkerGoes(w, [worker[w] EXCEPT !.pc = p])
                      /\ p = "cached" => ~worker[w].job.force
                BY <3>1, <3>3
            <4>2. PICK s \in WorkerState : /\ s = [worker[w] EXCEPT !.pc = p]
                                           /\ s.pc = p /\ s.job = worker[w].job
                BY <2>0, <3>1, NextStepTypes
            <4>3. s.pc = "cached" => ~s.job.force
                BY <4>1, <4>2, Zenon
            <4>4. ConsumerFits(s)'
                BY <4>2, <4>3 DEF ConsumerFits
            <4>5. worker[w] # Idle
                BY <3>1 DEF WorkerAt, Idle
            <4>6. /\ WorkerGoes(w, s) /\ calls' \in Nat /\ calls <= calls'
                  /\ s # Idle => worker[w] # Idle /\ s.job = worker[w].job
                BY <2>0, <3>1, <4>1, <4>2, <4>5
            <4>7. UNCHANGED <<page, latest, cache, mingled, asking, queue>>
                BY <3>1
            <4>8. QED
                BY <2>0, <4>4, <4>6, <4>7, OrderedGoesOn
        <3>4. QED
            BY <3>2, <3>3
    <2>13. ASSUME NEW w \in Consumers, GetCached(w) PROVE Ordered'
        <3>1. /\ WorkerAt(w, "cached")
              /\ UNCHANGED <<page, asking, queue, cache, calls, latest, mingled>>
              /\ WorkerGoes(w, IF cache[worker[w].job.url] = NoVerdict
                               THEN [worker[w] EXCEPT !.pc = "scan"]
                               ELSE [pc |-> "write", job |-> worker[w].job,
                                     verdict |-> cache[worker[w].job.url]])
            BY <2>13 DEF GetCached
        <3>2. PICK j \in Job : worker[w].job = j /\ j.url \in Urls /\ ~j.force
            <4>1. worker[w].job \in Job /\ worker[w].job.url \in Urls
                BY <2>0, <3>1, WorkerTypes, JobTypes DEF WorkerAt
            <4>2. ~worker[w].job.force
                BY <2>1, <3>1 DEF WorkersFit, ConsumerFits, WorkerAt
            <4>3. QED
                BY <4>1, <4>2
        <3>3. worker[w] # Idle
            BY <3>1 DEF WorkerAt, Idle
        <3>4. PICK v \in Verdict : v = cache[j.url]
            BY <2>0, <3>2
        <3>5. CASE v = NoVerdict
            <4>1. PICK s \in WorkerState : /\ s = [worker[w] EXCEPT !.pc = "scan"]
                                           /\ s.pc = "scan" /\ s.job = worker[w].job
                BY <2>0, <3>1, NextStepTypes
            <4>2. ConsumerFits(s)'
                BY <4>1 DEF ConsumerFits
            <4>3. cache[worker[w].job.url] = NoVerdict
                BY <3>2, <3>4, <3>5
            <4>4. WorkerGoes(w, s)
                BY <3>1, <4>1, <4>3
            <4>5. /\ calls' \in Nat /\ calls <= calls'
                  /\ s # Idle => worker[w] # Idle /\ s.job = worker[w].job
                BY <2>0, <3>1, <3>3, <4>1
            <4>6. UNCHANGED <<page, latest, cache, mingled, asking, queue>>
                BY <3>1
            <4>7. QED
                BY <2>0, <4>2, <4>4, <4>5, <4>6, OrderedGoesOn
        <3>6. CASE v # NoVerdict
            <4>1. PICK s \in WorkerState : /\ s = [pc |-> "write", job |-> j, verdict |-> v]
                                           /\ s.pc = "write" /\ s.job = j /\ s.verdict = v
                BY HoldsTypes
            <4>2. v.at <= calls /\ (j.url \notin mingled => NoneLater(j.url, v.at))
                BY <2>1, <3>2, <3>4, <3>6 DEF CacheRight
            <4>3. ConsumerFits(s)'
                BY <3>1, <3>2, <3>4, <4>1, <4>2 DEF ConsumerFits, NoneLater, There
            <4>4. QED
                BY <2>0, <3>1, <3>2, <3>3, <3>4, <3>6, <4>1, <4>3, OrderedGoesOn
        <3>7. QED
            BY <3>5, <3>6
    <2>14. ASSUME NEW w \in Consumers, NEW status \in {"SAFE", "BAD", "ODD"}, ScanUrl(w, status)
           PROVE  Ordered'
        <3>1. /\ WorkerAt(w, "scan") /\ calls' = calls + 1
              /\ UNCHANGED <<page, asking, queue, cache, latest, mingled>>
              /\ WorkerGoes(w, [pc |-> "store", job |-> worker[w].job,
                                verdict |-> [status |-> status, at |-> calls + 1]])
            BY <2>14 DEF ScanUrl
        <3>2. /\ worker[w].job \in Job /\ worker[w] # Idle
              /\ [status |-> status, at |-> calls + 1] \in Verdict
            BY <2>0, <3>1, WorkerTypes DEF WorkerAt, Idle, Verdict
        <3>3. PICK j \in Job, v \in Verdict, s \in WorkerState :
                  /\ j = worker[w].job /\ v.at = calls + 1
                  /\ s = [pc |-> "store", job |-> worker[w].job,
                          verdict |-> [status |-> status, at |-> calls + 1]]
                  /\ s.pc = "store" /\ s.job = j /\ s.verdict = v
            BY <3>2, HoldsTypes
        <3>4. j.asked \in Nat /\ j.asked <= calls
            BY <2>2, <3>2, <3>3, JobTypes DEF Underway, RightJob
        <3>5. \A l \in Scanned : latest[l] <= calls + 1
            BY <2>0, <2>1 DEF LinksRight
        <3>6. ConsumerFits(s)'
            BY <2>0, <3>1, <3>3, <3>4, <3>5 DEF ConsumerFits, NoneLater
        <3>7. QED
            BY <2>0, <3>1, <3>2, <3>3, <3>6, OrderedGoesOn
    <2>15. ASSUME NEW w \in Consumers, PublishAlert(w) \/ ScanFails(w) PROVE Ordered'
        <3>1. /\ WorkerGoes(w, Idle)
              /\ UNCHANGED <<page, asking, queue, cache, calls, latest, mingled>>
            BY <2>15 DEF PublishAlert, ScanFails
        <3>2. Idle \in WorkerState /\ ConsumerFits(Idle)'
            BY DEF WorkerState, ConsumerFits, Idle
        <3>3. QED
            BY <2>0, <3>1, <3>2, OrderedGoesOn
    <2>16. ASSUME NEW w \in Consumers, NEW s \in WorkerState, WorkerGoes(w, s),
                  UNCHANGED <<asking, queue, mingled, calls>>,
                  \A l \in Scanned : /\ page'[l] = Idle <=> page[l] = Idle
                                     /\ There(l)' <=> There(l)
                                     /\ There(l) => page'[l].url = page[l].url,
                  worker[w] # Idle, s # Idle => s.job = worker[w].job
           PROVE  JobsRight' /\ OneOfItsUrl'
        <3>1. worker'[w] = s /\ \A v \in Consumers \ {w} : worker'[v] = worker[v]
            BY <2>0, <2>16, WorkerKeepsTypes
        <3>2. Underway' \subseteq Underway
            BY <2>16, <3>1 DEF Underway
        <3>3. ASSUME NEW job \in Underway PROVE RightJob(job)'
            BY <2>2, <2>16, <3>3, JobTypes DEF RightJob
        <3>4. QED
            BY <2>1, <2>16, <3>1, <3>2, <3>3 DEF JobsRight, OneOfItsUrl
    <2>17. ASSUME NEW w \in Consumers, StoreVerdict(w) PROVE Ordered'
        <3>1. /\ WorkerAt(w, "store") /\ UNCHANGED <<page, asking, queue, calls, latest, mingled>>
              /\ WorkerGoes(w, [worker[w] EXCEPT !.pc = "write"])
              /\ cache' = [cache EXCEPT ![worker[w].job.url] = worker[w].verdict]
            BY <2>17 DEF StoreVerdict
        <3>2. worker[w] \in [pc: {"store", "write", "alert"}, job: Job, verdict: Verdict]
              /\ worker[w] # Idle
            BY <2>0, <3>1, WorkerTypes DEF WorkerAt, Idle
        <3>3. PICK u \in Urls, v \in Verdict : u = worker[w].job.url /\ v = worker[w].verdict
            BY <3>2, JobTypes
        <3>4. PICK s \in WorkerState : /\ s = [worker[w] EXCEPT !.pc = "write"] /\ s.pc = "write"
                                       /\ s.job = worker[w].job /\ s.verdict = v
            BY <2>0, <3>1, <3>3, NextStepTypes
        <3>5. cache'[u] = v /\ \A x \in Urls \ {u} : cache'[x] = cache[x]
            BY <2>0, <3>1, <3>3
        <3>6. worker'[w] = s /\ \A x \in Consumers \ {w} : worker'[x] = worker[x]
            BY <2>0, <3>1, <3>4, WorkerKeepsTypes
        <3>7. ConsumerFits(worker[w])
            BY <2>1 DEF WorkersFit
        <3>8. v.at <= calls /\ (u \notin mingled => NoneLater(u, v.at))
            BY <3>1, <3>3, <3>7 DEF ConsumerFits, WorkerAt
        <3>9. JobsRight' /\ OneOfItsUrl'
            BY <2>16, <3>1, <3>2, <3>4 DEF There
        <3>10. ASSUME NEW x \in Consumers PROVE ConsumerFits(worker[x])'
            <4>1. CASE x = w
                <5>1. s.job.url = u
                    BY <3>3, <3>4
                <5>2. s.job.force => s.job.asked < s.verdict.at
                    BY <3>1, <3>3, <3>4, <3>7 DEF ConsumerFits, WorkerAt
                <5>3. ConsumerFits(s)'
                    BY <3>1, <3>4, <3>5, <3>8, <5>1, <5>2 DEF ConsumerFits, NoneLater, There
                <5>4. QED
                    BY <3>6, <4>1, <5>3
            <4>2. CASE x # w
                <5>1. PICK t \in WorkerState : t = worker[x] /\ t = worker'[x] /\ ConsumerFits(t)
                    BY <2>0, <2>1, <3>6, <4>2 DEF WorkersFit
                <5>2. t # Idle /\ t.job.url = u => u \in mingled
                    BY <2>1, <3>2, <3>3, <4>2, <5>1 DEF OneOfItsUrl
                <5>3. t.pc = "write" => t.job.url \in Urls /\ t # Idle
                    BY <2>0, <5>1 DEF WorkerState, Job, Idle
                <5>4. ConsumerFits(t)'
                    BY <3>1, <3>5, <5>1, <5>2, <5>3 DEF ConsumerFits, NoneLater, There
                <5>5. QED
                    BY <5>1, <5>4
            <4>3. QED
                BY <4>1, <4>2
        <3>11. CacheRight'
            BY <2>1, <3>1, <3>5, <3>8 DEF CacheRight, NoneLater, There
        <3>12. LinksRight'
            BY <2>1, <3>1 DEF LinksRight, There, Status
        <3>13. QED
            BY <3>9, <3>10, <3>11, <3>12 DEF Ordered, WorkersFit
    <2>18. ASSUME NEW w \in Consumers, WriteVerdict(w) PROVE Ordered'
        <3>1. worker[w] \in [pc: {"store", "write", "alert"}, job: Job, verdict: Verdict]
              /\ worker[w].pc = "write" /\ worker[w] # Idle
            BY <2>0, <2>18, WorkerTypes DEF WriteVerdict, WorkerAt, Idle
        <3>2. PICK k \in Scanned, u \in Urls, v \in Verdict :
                  k = worker[w].job.link /\ u = worker[w].job.url /\ v = worker[w].verdict
            BY <3>1, JobTypes
        <3>3. /\ There(k) /\ UNCHANGED <<asking, queue, cache, calls, mingled>>
              /\ page' = [page EXCEPT ![k] = [page[k] EXCEPT !.verdict =
                             IF v.status = "ODD" THEN [page[k].verdict EXCEPT !.at = v.at] ELSE v]]
              /\ latest' = [latest EXCEPT ![k] = IF v.at > latest[k] THEN v.at ELSE latest[k]]
              /\ WorkerGoes(w, IF v.status = "SAFE" THEN Idle ELSE [worker[w] EXCEPT !.pc = "alert"])
            BY <2>18, <3>2 DEF WriteVerdict
        <3>4. PICK s \in WorkerState : /\ WorkerGoes(w, s) /\ s.pc \in {"idle", "alert"}
                                       /\ s # Idle => s.job = worker[w].job
            <4>1. CASE v.status = "SAFE"
                BY <3>3, <4>1 DEF WorkerState, Idle
            <4>2. CASE v.status # "SAFE"
                <5>1. WorkerGoes(w, [worker[w] EXCEPT !.pc = "alert"])
                    BY <3>3, <4>2
                <5>2. /\ [worker[w] EXCEPT !.pc = "alert"] \in WorkerState
                      /\ [worker[w] EXCEPT !.pc = "alert"].pc = "alert"
                      /\ [worker[w] EXCEPT !.pc = "alert"].job = worker[w].job
                    BY <2>0, <3>1, NextStepTypes DEF WorkerAt
                <5>3. QED
                    BY <5>1, <5>2
            <4>3. QED
                BY <4>1, <4>2
        <3>5. worker'[w] = s /\ \A x \in Consumers \ {w} : worker'[x] = worker[x]
            BY <2>0, <3>4, WorkerKeepsTypes
        <3>6. page[k] \in [pc: {"live"}, url: Urls, verdict: Verdict]
            BY <2>0, <3>3, PageTypes
        <3>7. /\ page'[k].pc = "live" /\ page'[k].url = page[k].url
              /\ page'[k].verdict.at = v.at
              /\ \A l \in Scanned \ {k} : page'[l] = page[l] /\ latest'[l] = latest[l]
            BY <2>0, <3>3, <3>6 DEF Verdict
        <3>8. page'[k] # Idle /\ page[k] # Idle /\ There(k)'
            BY <3>3, <3>7 DEF There, Idle
        <3>9. page[k].url = u
            BY <2>2, <3>1, <3>2, <3>3 DEF Underway, RightJob
        <3>10. v.at \in Nat /\ latest[k] \in Nat /\ latest[k] <= calls
            BY <2>0, <2>1 DEF Verdict, LinksRight
        <3>11. ConsumerFits(worker[w])
            BY <2>1 DEF WorkersFit
        <3>12. /\ v.at <= calls
               /\ u \notin mingled => NoneLater(u, v.at) /\ cache[u] \in {NoVerdict, v}
            BY <3>1, <3>2, <3>11 DEF ConsumerFits
        <3>13. latest'[k] <= calls /\ (u \notin mingled => latest'[k] = v.at)
            <4>1. latest'[k] = IF v.at > latest[k] THEN v.at ELSE latest[k]
                BY <2>0, <3>3
            <4>2. u \notin mingled => latest[k] <= v.at
                BY <3>3, <3>9, <3>12 DEF NoneLater
            <4>3. QED
                BY <3>10, <3>12, <4>1, <4>2
        <3>14. \A l \in Scanned : /\ page'[l] = Idle <=> page[l] = Idle
                                  /\ There(l)' <=> There(l)
                                  /\ There(l) => page'[l].url = page[l].url
            BY <3>3, <3>7, <3>8 DEF There
        <3>15. JobsRight' /\ OneOfItsUrl'
            BY <2>16, <3>1, <3>3, <3>4, <3>14
        <3>16. \A x \in Urls \ {u}, at \in Nat : NoneLater(x, at) => NoneLater(x, at)'
            BY <3>7, <3>9, <3>14 DEF NoneLater
        <3>17. ASSUME NEW x \in Consumers PROVE ConsumerFits(worker[x])'
            <4>1. CASE x = w
                BY <3>4, <3>5, <4>1 DEF ConsumerFits
            <4>2. CASE x # w
                <5>1. PICK t \in WorkerState : t = worker[x] /\ t = worker'[x] /\ ConsumerFits(t)
                    BY <2>0, <2>1, <3>5, <4>2 DEF WorkersFit
                <5>2. t # Idle /\ t.job.url = u => u \in mingled
                    BY <2>1, <3>1, <3>2, <4>2, <5>1 DEF OneOfItsUrl
                <5>3. t.pc \in {"store", "write"} =>
                          t.job.url \in Urls /\ t.verdict.at \in Nat /\ t # Idle
                    BY <2>0, <5>1 DEF WorkerState, Job, Verdict, Idle
                <5>4. ConsumerFits(t)'
                    BY <3>3, <3>16, <5>1, <5>2, <5>3 DEF ConsumerFits
                <5>5. QED
                    BY <5>1, <5>4
            <4>3. QED
                BY <4>1, <4>2
        <3>18. CacheRight'
            <4> SUFFICES ASSUME NEW x \in Urls
                         PROVE  /\ cache[x].at <= calls
                                /\ cache[x] # NoVerdict /\ x \notin mingled =>
                                       NoneLater(x, cache[x].at)'
                BY <3>3 DEF CacheRight
            <4>1. /\ cache[x].at <= calls /\ cache[x].at \in Nat
                  /\ cache[x] # NoVerdict /\ x \notin mingled => NoneLater(x, cache[x].at)
                BY <2>1, <2>2 DEF CacheRight
            <4>2. PICK at \in Nat : at = cache[x].at /\ at = cache'[x].at
                BY <3>3, <4>1
            <4>3. CASE x # u
                BY <3>3, <3>16, <4>1, <4>2, <4>3
            <4>4. CASE x = u
                <5>1. u \notin mingled => NoneLater(u, v.at)'
                    BY <3>7, <3>10, <3>12, <3>13, <3>14 DEF NoneLater
                <5>2. QED
                    BY <3>3, <3>12, <4>1, <4>4, <5>1
            <4>5. QED
                BY <4>3, <4>4
        <3>19. LinksRight'
            BY <2>1, <3>3, <3>7, <3>8, <3>9, <3>13, <3>14 DEF LinksRight, There, Status
        <3>20. QED
            BY <3>15, <3>17, <3>18, <3>19 DEF Ordered, WorkersFit
    <2>19. ASSUME WorkerStops PROVE Ordered'
        <3>1. /\ UNCHANGED <<page, asking, cache, calls, latest, mingled>>
              /\ worker' = [w \in Consumers |-> Idle]
              /\ queue' = queue \cup {worker[w].job : w \in {v \in Consumers : ~WorkerAt(v, "idle")}}
            BY <2>19 DEF WorkerStops
        <3>2. Underway' \subseteq Underway
            BY <2>0, <3>1, WorkerTypes DEF Underway
        <3>3. JobsRight'
            BY <2>2, <3>1, <3>2 DEF JobsRight, RightJob, There
        <3>4. OneOfItsUrl' /\ WorkersFit'
            BY <3>1 DEF OneOfItsUrl, WorkersFit, ConsumerFits, Idle
        <3>5. CacheRight' /\ LinksRight'
            BY <2>1, <3>1 DEF CacheRight, LinksRight, NoneLater, There, Status
        <3>6. QED
            BY <3>3, <3>4, <3>5 DEF Ordered
    <2>20. ASSUME NEW u \in Urls, CacheLapses(u) PROVE Ordered'
        <3>1. UNCHANGED <<page, asking, queue, worker, calls, latest, mingled>>
            BY <2>20 DEF CacheLapses
        <3>2. Underway' \subseteq Underway
            BY <3>1 DEF Underway
        <3>3. QED
            BY <2>8, <2>20, <3>1, <3>2
    <2>21. CASE UNCHANGED scanVars
        <3>1. UNCHANGED <<page, asking, queue, worker, cache, calls, latest, mingled>>
            BY <2>21 DEF scanVars
        <3>2. Underway' \subseteq Underway
            BY <3>1 DEF Underway
        <3>3. QED
            BY <2>8, <3>1, <3>2
    <2>22. QED
        BY <2>6, <2>7, <2>9, <2>10, <2>11, <2>12, <2>13, <2>14, <2>15, <2>17, <2>18, <2>19, <2>20, <2>21
           DEF ScanNext
<1>3. ScanTypeOK /\ Ordered => VerdictsAdvance
    <2> SUFFICES ASSUME ScanTypeOK, Ordered PROVE VerdictsAdvance
        OBVIOUS
    <2>1. ASSUME NEW w \in Consumers, WorkerAt(w, "write"), worker[w].job.force
          PROVE  worker[w].verdict.at > worker[w].job.asked
        <3>1. worker[w] \in [pc: {"store", "write", "alert"}, job: Job, verdict: Verdict]
            BY <2>1, WorkerTypes DEF ScanTypeOK
        <3>2. ConsumerFits(worker[w])
            BY DEF Ordered, WorkersFit
        <3>3. worker[w].job.asked < worker[w].verdict.at
            BY <2>1, <3>2 DEF ConsumerFits, WorkerAt
        <3>4. worker[w].job.asked \in Nat /\ worker[w].verdict.at \in Nat
            BY <3>1 DEF Job, Verdict
        <3>5. QED
            BY <3>3, <3>4
    <2>2. QED
        BY <2>1 DEF VerdictsAdvance, Ordered, LinksRight
<1>4. QED
    BY <1>1, <1>2, <1>3, ScanTypeCorrect, PTL DEF ScanSpec
=============================================================================
