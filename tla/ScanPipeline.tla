---------------------------- MODULE ScanPipeline ----------------------------
(***************************************************************************)
(* The scans of the URLs of links: a request resets the verdict of a link  *)
(* and publishes a job; the consumers of the worker, several at a time,    *)
(* ask the scanner, or the cache of its verdicts, and write the verdict.   *)
(*                                                                         *)
(* Verdicts are numbered by the call of the scanner they come from.  A     *)
(* status is SAFE, BAD (SUSPICIOUS, MALICIOUS or ADULT_CONTENT) or ODD:    *)
(* one the consumer knows no ScanStatus for.  Scores and reasons are left  *)
(* out; scans are enabled (app.enableUrlScan).                             *)
(***************************************************************************)
EXTENDS Integers, FiniteSets, Steps

CONSTANTS
    Scanned,     \* bound: the links whose URL is scanned
    Urls,        \* the URLs they lead to
    Consumers,   \* the jobs the worker can process at one time
    MaxScans,    \* bound: the jobs asked for
    MaxStops     \* bound: the stops of the worker

ASSUME ScansAssumption == MaxScans \in Nat /\ MaxStops \in Nat

VARIABLES
    page,        \* the scan columns of each link: url, status, at, whether owned
    asking,      \* the jobs of requests that reset the link and have not published yet
    queue,       \* the queue of jobs
    worker,      \* where each consumer stands
    stops,       \* how often the worker stopped
    cache,       \* scan:url:{url}: the verdict, and the call it comes from
    calls,       \* how often the scanner was called,
    scans,       \* and how many jobs were asked for
    (* observations of the run, read by no action *)
    latest,      \* the latest verdict ever written to each link
    unscanned,   \* the links a job of which failed, or got no verdict
    mingled      \* the URLs two of whose jobs were processed at one time

scanQueue == <<asking, queue, scans>>
scanObserved == <<latest, unscanned, mingled>>
scanVars == <<page, scanQueue, worker, stops, cache, calls, scanObserved>>

NoVerdict == [status |-> "PENDING", at |-> 0]

ScanInit ==
    /\ page = [l \in Scanned |-> Idle]
    /\ asking = {} /\ queue = {} /\ scans = 0
    /\ worker = [w \in Consumers |-> Idle]
    /\ stops = 0 /\ cache = [u \in Urls |-> NoVerdict] /\ calls = 0
    /\ latest = [l \in Scanned |-> 0] /\ unscanned = {} /\ mingled = {}

There(l) == page[l].pc = "live"
Status(l) == page[l].verdict.status

-----------------------------------------------------------------------------
(* Requests                                                                *)

Ask(l, u, force) ==
    /\ scans < MaxScans /\ scans' = scans + 1
    /\ asking' = asking \cup {[id |-> scans, link |-> l, url |-> u, force |-> force, asked |-> calls]}

(* createLink and createGuestLink; guests' links are not scanned.          *)
CreateScanned(l, u) ==
    /\ page[l] = Idle
    /\ page' = [page EXCEPT ![l] = [pc |-> "live", url |-> u, verdict |-> NoVerdict]]
    /\ Ask(l, u, FALSE)
    /\ UNCHANGED <<queue, worker, stops, cache, calls, scanObserved>>

(* requestScan of the owner, and rescanLink of an administrator (forced).  *)
RequestScan(l, force) ==
    /\ There(l)
    /\ page' = [page EXCEPT ![l].verdict = NoVerdict]
    /\ Ask(l, page[l].url, force)
    /\ UNCHANGED <<queue, worker, stops, cache, calls, scanObserved>>

(* enqueueScan logs a failure, and the request goes on.                    *)
PublishScan(job) ==
    /\ asking' = asking \ {job}
    /\ \/ queue' = queue \cup {job} /\ UNCHANGED unscanned
       \/ unscanned' = unscanned \cup {job.link} /\ UNCHANGED queue
    /\ UNCHANGED <<page, scans, worker, stops, cache, calls, latest, mingled>>

DeleteScanned(l) ==
    /\ There(l)
    /\ page' = [page EXCEPT ![l] = Done]
    /\ UNCHANGED <<scanQueue, worker, stops, cache, calls, scanObserved>>

-----------------------------------------------------------------------------
(* handleScan                                                              *)

WorkerAt(w, p) == worker[w].pc = p
WorkerGoes(w, state) == worker' = [worker EXCEPT ![w] = state]

(* A job is taken from the queue, in any order: the consumers of several   *)
(* workers compete, and a job given back comes again.                      *)
Consume(w, job) ==
    /\ WorkerAt(w, "idle")
    /\ queue' = queue \ {job}
    /\ WorkerGoes(w, [pc |-> "find", job |-> job])
    /\ mingled' = mingled \cup
          {u \in {job.url} : \E v \in Consumers : worker[v] # Idle /\ worker[v].job.url = u}
    /\ UNCHANGED <<page, asking, scans, stops, cache, calls, latest, unscanned>>

(* The cache is not asked for a forced job.                                *)
FindScanned(w) ==
    /\ WorkerAt(w, "find")
    /\ WorkerGoes(w, IF ~There(worker[w].job.link) THEN Idle
                     ELSE [worker[w] EXCEPT !.pc = IF worker[w].job.force THEN "scan" ELSE "cached"])
    /\ UNCHANGED <<page, scanQueue, stops, cache, calls, scanObserved>>

(* Mutant: what is cached was written to the link already.                 *)
GetCachedOnly(w) ==
    /\ WorkerAt(w, "cached")
    /\ LET hit == cache[worker[w].job.url]
       IN  WorkerGoes(w, IF hit = NoVerdict THEN [worker[w] EXCEPT !.pc = "scan"] ELSE Idle)
    /\ UNCHANGED <<page, scanQueue, stops, cache, calls, scanObserved>>

GetCached(w) ==
    /\ WorkerAt(w, "cached")
    /\ LET hit == cache[worker[w].job.url]
       IN  WorkerGoes(w, IF hit = NoVerdict THEN [worker[w] EXCEPT !.pc = "scan"]
                         ELSE [pc |-> "write", job |-> worker[w].job, verdict |-> hit])
    /\ UNCHANGED <<page, scanQueue, stops, cache, calls, scanObserved>>

(* scanUrl: a call that fails is a SAFE verdict like any other.            *)
ScanUrl(w, status) ==
    /\ WorkerAt(w, "scan")
    /\ calls' = calls + 1
    /\ WorkerGoes(w, [pc |-> "store", job |-> worker[w].job,
                      verdict |-> [status |-> status, at |-> calls + 1]])
    /\ UNCHANGED <<page, scanQueue, stops, cache, scanObserved>>

StoreVerdictAtOnce(w) ==                          \* mutant: a verdict cached by another job stays
    /\ WorkerAt(w, "store")
    /\ cache' = [cache EXCEPT ![worker[w].job.url] = IF @ = NoVerdict THEN worker[w].verdict ELSE @]
    /\ WorkerGoes(w, [worker[w] EXCEPT !.pc = "write"])
    /\ UNCHANGED <<page, scanQueue, stops, calls, scanObserved>>

StoreVerdict(w) ==
    /\ WorkerAt(w, "store")
    /\ cache' = [cache EXCEPT ![worker[w].job.url] = worker[w].verdict]
    /\ WorkerGoes(w, [worker[w] EXCEPT !.pc = "write"])
    /\ UNCHANGED <<page, scanQueue, stops, calls, scanObserved>>

(* A status that is undefined leaves that of the link as it is.            *)
WriteVerdict(w) ==
    /\ WorkerAt(w, "write")
    /\ LET l == worker[w].job.link
           v == worker[w].verdict
       IN  /\ There(l)
           /\ page' = [page EXCEPT ![l].verdict =
                 IF v.status = "ODD" THEN [@ EXCEPT !.at = v.at] ELSE v]
           /\ latest' = [latest EXCEPT ![l] = IF v.at > @ THEN v.at ELSE @]
           /\ unscanned' = unscanned \cup {m \in {l} : v.status = "ODD"}
           /\ WorkerGoes(w, IF v.status = "SAFE" THEN Idle ELSE [worker[w] EXCEPT !.pc = "alert"])
    /\ UNCHANGED <<scanQueue, stops, cache, calls, mingled>>

(* The alert to the owner is a mail (Mailing).                             *)
PublishAlert(w) ==
    /\ WorkerAt(w, "alert")
    /\ WorkerGoes(w, Idle)
    /\ UNCHANGED <<page, scanQueue, stops, cache, calls, scanObserved>>

(* Any call fails, or the link is gone: logged, and the job is done with.  *)
ScanFails(w) ==
    /\ ~WorkerAt(w, "idle")
    /\ WorkerGoes(w, Idle)
    /\ unscanned' = unscanned \cup {l \in {worker[w].job.link} : ~WorkerAt(w, "alert")}
    /\ UNCHANGED <<page, scanQueue, stops, cache, calls, latest, mingled>>

(* The worker stops: the jobs it had not finished come again.              *)
WorkerStops ==
    /\ stops < MaxStops /\ stops' = stops + 1
    /\ \E w \in Consumers : ~WorkerAt(w, "idle")
    /\ queue' = queue \cup {worker[w].job : w \in {v \in Consumers : ~WorkerAt(v, "idle")}}
    /\ worker' = [w \in Consumers |-> Idle]
    /\ UNCHANGED <<page, asking, scans, cache, calls, scanObserved>>

CacheLapses(u) ==
    /\ cache[u] # NoVerdict
    /\ cache' = [cache EXCEPT ![u] = NoVerdict]
    /\ UNCHANGED <<page, scanQueue, worker, stops, calls, scanObserved>>

-----------------------------------------------------------------------------

ScanNext ==
    \/ \E l \in Scanned :
          \/ \E u \in Urls : CreateScanned(l, u)
          \/ \E force \in BOOLEAN : RequestScan(l, force)
          \/ DeleteScanned(l)
    \/ \E job \in asking : PublishScan(job)
    \/ \E w \in Consumers :
          \/ \E job \in queue : Consume(w, job)
          \/ FindScanned(w) \/ GetCached(w)
          \/ \E status \in {"SAFE", "BAD", "ODD"} : ScanUrl(w, status)
          \/ StoreVerdict(w) \/ WriteVerdict(w) \/ PublishAlert(w) \/ ScanFails(w)
    \/ WorkerStops
    \/ \E u \in Urls : CacheLapses(u)

ScanSpec == ScanInit /\ [][ScanNext]_scanVars

-----------------------------------------------------------------------------
(* Properties                                                              *)

Verdict == [status: {"PENDING", "SAFE", "BAD", "ODD"}, at: Nat]
Job == [id: 0 .. MaxScans, link: Scanned, url: Urls, force: BOOLEAN, asked: Nat]
PageState == {Idle, Done} \cup [pc: {"live"}, url: Urls, verdict: Verdict]
WorkerState == {Idle} \cup [pc: {"find", "cached", "scan"}, job: Job]
                      \cup [pc: {"store", "write", "alert"}, job: Job, verdict: Verdict]

ScanTypeOK ==
    /\ page \in [Scanned -> PageState]
    /\ stops \in 0 .. MaxStops /\ asking \subseteq Job /\ queue \subseteq Job /\ scans \in 0 .. MaxScans
    /\ worker \in [Consumers -> WorkerState]
    /\ cache \in [Urls -> Verdict] /\ calls \in Nat
    /\ latest \in [Scanned -> Nat] /\ unscanned \subseteq Scanned /\ mingled \subseteq Urls

Underway == asking \cup queue \cup {worker[w].job : w \in {v \in Consumers : worker[v] # Idle}}

(* A link that is PENDING has a scan to come, whatever other jobs of the   *)
(* link did meanwhile and however often the worker stopped, unless one of  *)
(* its jobs failed: failures are only logged, and no job is tried again.   *)
PendingIsUnderway ==
    \A l \in Scanned \ unscanned :
        There(l) /\ Status(l) = "PENDING" => \E job \in Underway : job.link = l

(* A forced job writes a verdict the scanner gave after it was asked for,  *)
(* whatever is cached, a scan that failed and was taken for SAFE included. *)
(* And a link never goes back to an older verdict, cached ones included,   *)
(* unless two jobs of its URL were processed at one time.                  *)
VerdictsAdvance ==
    /\ \A w \in Consumers : WorkerAt(w, "write") /\ worker[w].job.force =>
          worker[w].verdict.at > worker[w].job.asked
    /\ \A l \in Scanned : There(l) /\ Status(l) # "PENDING" /\ page[l].url \notin mingled =>
          page[l].verdict.at = latest[l]
=============================================================================
