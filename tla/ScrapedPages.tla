---------------------------- MODULE ScrapedPages ----------------------------
(***************************************************************************)
(* The web scraper (modules/ai/scraper of the API gateway) as one page of  *)
(* one organisation sees it: its ScrapedPage row in Postgres, its 24 h key *)
(* in Redis, its scrape job in BullMQ, the jobs for it on the chatbot      *)
(* bridge, and its vectors in the chatbot service's store.  Every key is   *)
(* made of the organisation and the URL, so pages do not share state.      *)
(*                                                                         *)
(* Requests (checkAndEnqueue and the DELETE route), the scraper worker     *)
(* (processScrapeJob), the cleanup (deleteStalePages, purgeStaleDbRows)    *)
(* and the bridge run concurrently; an action is what one of them does     *)
(* between two awaits.  A version of the page stands for its text and for  *)
(* the hash of that text.                                                  *)
(***************************************************************************)
EXTENDS Integers, FiniteSets

CONSTANTS
  Versions,     \* what the website may serve
  NoVersion,    \* contentHash null
  Requests,     \* concurrent HTTP requests
  MaxAttempts,  \* job option `attempts`
  MaxStalls,    \* BullMQ's maxStalledCount
  Ages,         \* bound of the model: how old a row may get, within {"day", "month"}
  Slots         \* bound of the model: bridge jobs of the page, and calls of the chatbot
                \* service their jobs no longer wait for, at one time

ASSUME ScraperAssumption ==
  /\ NoVersion \notin Versions
  /\ MaxAttempts \in Nat \ {0}
  /\ MaxStalls \in Nat
  /\ Ages \subseteq {"day", "month"}

VARIABLES
  row,       \* the ScrapedPage row, or NoRow
  cached,    \* the Redis key exists
  job,       \* the job scrape:{orgId}:{urlHash}: status, attempts, stalls
  scrape,    \* where processScrapeJob is, and the version it fetched
  request,   \* request -> where it is
  cleanup,   \* where the cleanup is, and the row it found, if that still exists
  bridge,    \* slot -> a job of the page on the chatbot bridge, or a call none waits for
  vectors,   \* version -> how many times its chunks are in the vector store
  handed,    \* history: the versions given to the bridge to embed
  deletion,  \* history: the last deletion for the present row was given to it, or refused
  disturbed, \* history: a deletion was given to the bridge, or an embedding came to nothing
  overlapped \* history: as the chunks were last deleted, another call was about to store some

bridgeVars == <<bridge, vectors, handed, deletion, disturbed, overlapped>>
vars == <<row, cached, job, scrape, request, cleanup, bridgeVars>>

NoRow == [status |-> "NONE"]
Statuses == {"PENDING", "PROCESSING", "COMPLETED", "FAILED", "STALE"}
\* fresh: lastScrapedAt is within the freshness window, of a COMPLETED row, as it is asked
\* of no other.  age: createdAt is more than a day or a month ago.  settled: updatedAt is
\* more than 25 hours ago, of a STALE row.
Rows == [status : Statuses, hash : Versions \cup {NoVersion},
         fresh : BOOLEAN, age : {"new", "day", "month"}, settled : BOOLEAN]

Free == [kind |-> "none"]
\* An embedding or a deletion.  erased: the call has deleted the document's chunks and not
\* stored the new ones.
BridgeJobs == [kind : {"process"}, version : Versions, erased : BOOLEAN]
                \cup [kind : {"delete"}]
Embedding(v) == [kind |-> "process", version |-> v, erased |-> FALSE]
NoChunks == [v \in Versions |-> 0]

JobStates == {"none", "waiting", "delayed", "active", "completed", "failed"}
NoJob == [status |-> "none", attempts |-> 0, stalls |-> 0]
ScrapeSteps == {"idle", "fetch", "compare", "unchanged", "changed", "handed", "warm"}
RequestSteps == {"idle", "delete", "cache", "row", "upsert", "enqueue", "warm"}
NoCleanup == [step |-> "idle", target |-> "none", purges |-> FALSE]
CleanupSteps == {"idle", "found", "asked", "marked", "purge"}

TypeOK ==
  /\ row \in Rows \cup {NoRow}
  /\ cached \in BOOLEAN
  /\ job \in [status : JobStates, attempts : 0..MaxAttempts - 1, stalls : 0..MaxStalls]
  /\ scrape \in [step : ScrapeSteps, version : Versions \cup {NoVersion}]
  /\ request \in [Requests -> RequestSteps]
  /\ cleanup \in [step : CleanupSteps, target : {"none", "row", "gone"}, purges : BOOLEAN]
  /\ bridge \in [Slots -> BridgeJobs \cup {Free}]
  /\ vectors \in [Versions -> Nat]
  /\ handed \subseteq Versions
  /\ deletion \in {"none", "given", "refused"}
  /\ disturbed \in BOOLEAN
  /\ overlapped \in BOOLEAN

Init ==
  /\ row = NoRow
  /\ cached = FALSE
  /\ job = NoJob
  /\ scrape = [step |-> "idle", version |-> NoVersion]
  /\ request = [r \in Requests |-> "idle"]
  /\ cleanup = NoCleanup
  /\ bridge = [s \in Slots |-> Free]
  /\ vectors = NoChunks
  /\ handed = {}
  /\ deletion = "none"
  /\ disturbed = FALSE
  /\ overlapped = FALSE

-----------------------------------------------------------------------------
(* The row, the cache and the bridge, as the operations below write them.  *)

\* upsertScrapedPage with the given status: what is not named stays.
Write(status) ==
  row' = IF row = NoRow
         THEN [status |-> status, hash |-> NoVersion, fresh |-> FALSE,
               age |-> "new", settled |-> FALSE]
         ELSE [row EXCEPT !.status = status, !.fresh = FALSE, !.settled = FALSE]

\* upsertScrapedPage of a finished scrape, with lastScrapedAt now.
WriteCompleted(hash) ==
  row' = IF row = NoRow
         THEN [status |-> "COMPLETED", hash |-> hash, fresh |-> TRUE,
               age |-> "new", settled |-> FALSE]
         ELSE [row EXCEPT !.status = "COMPLETED", !.hash = hash,
                          !.fresh = TRUE, !.settled = FALSE]

\* The row is deleted; a cleanup that found it will not find it again.
RemoveRow ==
  /\ row' = NoRow
  /\ deletion' = "none"

HashOf(r) == IF r = NoRow THEN NoVersion ELSE r.hash

\* markScraped and invalidate; both swallow an error of Redis, and isCached
\* answers no.
Warm == cached' \in {cached, TRUE}
Evict == cached' \in {cached, FALSE}

\* enqueueProcessDocument and enqueueDeleteDocuments, where getQueue finds a connection.
AddToBridge(j) ==
  \E s \in Slots : bridge[s] = Free /\ bridge' = [bridge EXCEPT ![s] = j]

-----------------------------------------------------------------------------
(* Requests: checkAndEnqueue, and the DELETE route that ends in it.        *)

Goto(r, step) == request' = [request EXCEPT ![r] = step]

\* POST /enqueue.
EnqueueRequest(r) ==
  /\ request[r] = "idle"
  /\ Goto(r, "cache")
  /\ UNCHANGED <<row, cached, job, scrape, cleanup, bridgeVars>>

\* DELETE /pages/:orgId/:urlHash finds the row and evicts the cache.
ForceRequest(r) ==
  /\ request[r] = "idle"
  /\ row # NoRow
  /\ Evict
  /\ Goto(r, "delete")
  /\ UNCHANGED <<row, job, scrape, cleanup, bridgeVars>>

\* The row is deleted; the delete of a row that is gone throws.
DeleteRow(r) ==
  /\ request[r] = "delete"
  /\ RemoveRow
  /\ cleanup' = [cleanup EXCEPT !.target = IF @ = "row" THEN "gone" ELSE @]
  /\ Goto(r, IF row = NoRow THEN "idle" ELSE "cache")
  /\ UNCHANGED <<cached, job, scrape, bridge, vectors, handed, disturbed, overlapped>>

CheckCache(r) ==
  /\ request[r] = "cache"
  /\ \/ cached /\ Goto(r, "idle")
     \/ Goto(r, "row")
  /\ UNCHANGED <<row, cached, job, scrape, cleanup, bridgeVars>>

CheckRow(r) ==
  /\ request[r] = "row"
  /\ Goto(r, IF row = NoRow THEN "upsert"
             ELSE IF row.status = "PROCESSING" THEN "idle"
             ELSE IF row.status = "COMPLETED" /\ row.fresh THEN "warm"
             ELSE "upsert")
  /\ UNCHANGED <<row, cached, job, scrape, cleanup, bridgeVars>>

MarkPending(r) ==
  /\ request[r] = "upsert"
  /\ Write("PENDING")
  /\ Goto(r, "enqueue")
  /\ UNCHANGED <<cached, job, scrape, cleanup, bridgeVars>>

\* queue.add: BullMQ ignores it while a job with this id is kept.  A server without a
\* queue (no REDIS_URL, or no connection left) adds nothing and goes on.
EnqueueScrape(r) ==
  /\ request[r] = "enqueue"
  /\ job' \in {job, IF job.status = "none" THEN [NoJob EXCEPT !.status = "waiting"] ELSE job}
  /\ Goto(r, "warm")
  /\ UNCHANGED <<row, cached, scrape, cleanup, bridgeVars>>

WarmCache(r) ==
  /\ request[r] = "warm"
  /\ Warm
  /\ Goto(r, "idle")
  /\ UNCHANGED <<row, job, scrape, cleanup, bridgeVars>>

\* A call to Postgres or Redis throws: the request answers with an error.
RequestFails(r) ==
  /\ request[r] \in {"delete", "row", "upsert", "enqueue"}
  /\ Goto(r, "idle")
  /\ UNCHANGED <<row, cached, job, scrape, cleanup, bridgeVars>>

-----------------------------------------------------------------------------
(* The scraper worker: processScrapeJob.                                   *)

Step(step, version) == scrape' = [step |-> step, version |-> version]

\* Mutant: one attempt too many.
FailJobLate ==
  /\ job' = IF job.attempts < MaxAttempts
            THEN [job EXCEPT !.status = "delayed", !.attempts = @ + 1]
            ELSE [NoJob EXCEPT !.status = "failed"]
  /\ Step("idle", NoVersion)

\* The error goes back to BullMQ, which retries while attempts are left.
FailJob ==
  /\ job' = IF job.attempts + 1 < MaxAttempts
            THEN [job EXCEPT !.status = "delayed", !.attempts = @ + 1]
            ELSE [NoJob EXCEPT !.status = "failed"]
  /\ Step("idle", NoVersion)

StartScrape ==
  /\ job.status = "waiting"
  /\ job' = [job EXCEPT !.status = "active"]
  /\ Write("PROCESSING")
  /\ Step("fetch", NoVersion)
  /\ UNCHANGED <<cached, request, cleanup, bridgeVars>>

\* validateUrl or the first write throws.
RejectScrape ==
  /\ job.status = "waiting"
  /\ FailJob
  /\ UNCHANGED <<row, cached, request, cleanup, bridgeVars>>

\* Mutant: the hash is saved before the embedding is enqueued.
FetchSavingHash ==
  /\ scrape.step = "fetch"
  /\ \E v \in Versions :
       /\ row' = IF row = NoRow THEN row ELSE [row EXCEPT !.hash = v]
       /\ Step("compare", v)
  /\ UNCHANGED <<cached, job, request, cleanup, bridgeVars>>

\* fetchPage, parseHtml, hashContent: whatever the website serves at this moment.
Fetch ==
  /\ scrape.step = "fetch"
  /\ \E v \in Versions : Step("compare", v)
  /\ UNCHANGED <<row, cached, job, request, cleanup, bridgeVars>>

\* fetchPage throws, or the page has no meaningful content.
FetchFails ==
  /\ scrape.step = "fetch"
  /\ Write("FAILED")
  /\ FailJob
  /\ UNCHANGED <<cached, request, cleanup, bridgeVars>>

Compare ==
  /\ scrape.step = "compare"
  /\ IF HashOf(row) = scrape.version
     THEN Step("unchanged", NoVersion) ELSE Step("changed", scrape.version)
  /\ UNCHANGED <<row, cached, job, request, cleanup, bridgeVars>>

FinishUnchanged ==
  /\ scrape.step = "unchanged"
  /\ WriteCompleted(HashOf(row))
  /\ Step("warm", NoVersion)
  /\ UNCHANGED <<cached, job, request, cleanup, bridgeVars>>

\* The worker process has a queue: without REDIS_URL it does not start.
HandOver ==
  /\ scrape.step = "changed"
  /\ AddToBridge(Embedding(scrape.version))
  /\ handed' = handed \cup {scrape.version}
  /\ Step("handed", scrape.version)
  /\ UNCHANGED <<row, cached, job, request, cleanup, vectors, deletion,
                 disturbed, overlapped>>

FinishChanged ==
  /\ scrape.step = "handed"
  /\ WriteCompleted(scrape.version)
  /\ Step("warm", NoVersion)
  /\ UNCHANGED <<cached, job, request, cleanup, bridgeVars>>

FinishJob ==
  /\ scrape.step = "warm"
  /\ Warm
  /\ job' = [NoJob EXCEPT !.status = "completed"]
  /\ Step("idle", NoVersion)
  /\ UNCHANGED <<row, request, cleanup, bridgeVars>>

\* A call to Postgres or Redis throws: nothing is written to the row.
ScrapeFails ==
  /\ scrape.step \notin {"idle", "warm"}
  /\ FailJob
  /\ UNCHANGED <<row, cached, request, cleanup, bridgeVars>>

\* The worker process dies; BullMQ finds the job stalled.
Crash ==
  /\ scrape.step # "idle"
  /\ Step("idle", NoVersion)
  /\ UNCHANGED <<row, cached, job, request, cleanup, bridgeVars>>

RecoverStalled ==
  /\ job.status = "active"
  /\ scrape.step = "idle"
  /\ job' = IF job.stalls < MaxStalls
            THEN [job EXCEPT !.status = "waiting", !.stalls = @ + 1]
            ELSE [NoJob EXCEPT !.status = "failed"]
  /\ UNCHANGED <<row, cached, scrape, request, cleanup, bridgeVars>>

Retry ==
  /\ job.status = "delayed"
  /\ job' = [job EXCEPT !.status = "waiting"]
  /\ UNCHANGED <<row, cached, scrape, request, cleanup, bridgeVars>>

-----------------------------------------------------------------------------
(* The cleanup: the daily cron (or a cleanup-stale job), which ends in a   *)
(* purge, and the admin route, which does not and takes another cutoff.    *)

CleanupGoto(step) == cleanup' = [cleanup EXCEPT !.step = step]
CleanupEnds == cleanup' = NoCleanup

\* The rows deleteStalePages finds: PENDING and PROCESSING are left alone.
Expired(ages) ==
  /\ row # NoRow
  /\ row.age \in ages
  /\ row.status \in {"COMPLETED", "FAILED", "STALE"}

StartCron ==
  /\ cleanup.step = "idle"
  /\ cleanup' = IF Expired({"month"})
                THEN [step |-> "found", target |-> "row", purges |-> TRUE]
                ELSE [step |-> "purge", target |-> "none", purges |-> TRUE]
  /\ UNCHANGED <<row, cached, job, scrape, request, bridgeVars>>

\* POST /cleanup/:orgId with older_than_days = 1.
StartAdmin ==
  /\ cleanup.step = "idle"
  /\ Expired({"day", "month"})
  /\ cleanup' = [step |-> "found", target |-> "row", purges |-> FALSE]
  /\ UNCHANGED <<row, cached, job, scrape, request, bridgeVars>>

\* History: what came of the deletion, if it is for the present row.
Deletion(outcome) == deletion' = IF cleanup.target = "row" THEN outcome ELSE deletion

HandOverDelete ==
  /\ cleanup.step = "found"
  /\ AddToBridge([kind |-> "delete"])
  /\ Deletion("given")
  /\ disturbed' = TRUE
  /\ CleanupGoto("asked")
  /\ UNCHANGED <<row, cached, job, scrape, request, vectors, handed, overlapped>>

\* In a server without a queue enqueueDeleteDocuments answers {queued: false}, at which
\* deleteStalePages does not look.  The cron runs in the worker process, which has one.
DeleteRefused ==
  /\ cleanup.step = "found" /\ ~cleanup.purges
  /\ Deletion("refused")
  /\ CleanupGoto("asked")
  /\ UNCHANGED <<row, cached, job, scrape, request, bridge, vectors, handed,
                 disturbed, overlapped>>

MarkedStale == [row EXCEPT !.status = "STALE", !.fresh = FALSE, !.settled = FALSE]

\* Mutant: the rows are marked by their URL, so one created meanwhile is marked, too.
MarkStaleByUrl ==
  /\ cleanup.step = "asked"
  /\ row' = IF row = NoRow THEN row ELSE MarkedStale
  /\ cleanup' = [cleanup EXCEPT !.step = "marked", !.target = "none"]
  /\ UNCHANGED <<cached, job, scrape, request, bridgeVars>>

\* updateMany by id, whatever the row has become; it sets updatedAt.
MarkStale ==
  /\ cleanup.step = "asked"
  /\ row' = IF cleanup.target = "row" THEN MarkedStale ELSE row
  /\ cleanup' = [cleanup EXCEPT !.step = "marked", !.target = "none"]
  /\ UNCHANGED <<cached, job, scrape, request, bridgeVars>>

EvictCache ==
  /\ cleanup.step = "marked"
  /\ Evict
  /\ IF cleanup.purges THEN CleanupGoto("purge") ELSE CleanupEnds
  /\ UNCHANGED <<row, job, scrape, request, bridgeVars>>

Purge ==
  /\ cleanup.step = "purge"
  /\ IF row # NoRow /\ row.status = "STALE" /\ row.settled
     THEN RemoveRow ELSE UNCHANGED <<row, deletion>>
  /\ CleanupEnds
  /\ UNCHANGED <<cached, job, scrape, request, bridge, vectors, handed, disturbed, overlapped>>

\* A call to Postgres or Redis throws, or the process dies.
CleanupFails ==
  /\ cleanup.step # "idle"
  /\ CleanupEnds
  /\ UNCHANGED <<row, cached, job, scrape, request, bridgeVars>>

-----------------------------------------------------------------------------
(* The bridge and the vector store, and time.                              *)

\* Who works on an embedding, and who of them has deleted the document's chunks.
Embeds(s) == bridge[s].kind = "process"
Erased(s) == Embeds(s) /\ bridge[s].erased

pageVars == <<row, cached, job, scrape, request, cleanup>>

\* Mutant: the chunks that are there are left.
EraseNothing(s) ==
  /\ Embeds(s) /\ ~Erased(s)
  /\ bridge' = [bridge EXCEPT ![s].erased = TRUE]
  /\ overlapped' = (\E t \in Slots \ {s} : Erased(t))
  /\ UNCHANGED <<pageVars, vectors, handed, deletion, disturbed>>

\* process_document first deletes the document's chunks ...
EraseChunks(s) ==
  /\ Embeds(s) /\ ~Erased(s)
  /\ vectors' = NoChunks
  /\ bridge' = [bridge EXCEPT ![s].erased = TRUE]
  /\ overlapped' = (\E t \in Slots \ {s} : Erased(t))
  /\ UNCHANGED <<pageVars, handed, deletion, disturbed>>

\* ... and then embeds and upserts the new ones, under new point ids: beside those that
\* are there, of the same version or not.
UpsertChunks(s) ==
  /\ Erased(s)
  /\ vectors' = [vectors EXCEPT ![bridge[s].version] = @ + 1]
  /\ bridge' = [bridge EXCEPT ![s] = Free]
  /\ UNCHANGED <<pageVars, handed, deletion, disturbed, overlapped>>

\* delete_scraped_documents, perhaps not for the last time, if the job is retried.
DeleteChunks(s) ==
  /\ bridge[s].kind = "delete"
  /\ vectors' = NoChunks
  /\ bridge' \in {bridge, [bridge EXCEPT ![s] = Free]}
  /\ UNCHANGED <<pageVars, handed, deletion, disturbed, overlapped>>

\* A call of the bridge fails part way and is retried from its start.
BridgeRetries(s) ==
  /\ Erased(s)
  /\ bridge' = [bridge EXCEPT ![s].erased = FALSE]
  /\ UNCHANGED <<pageVars, vectors, handed, deletion, disturbed, overlapped>>

\* AbortSignal.timeout ends the wait of the worker, or the worker dies: the job is retried
\* from its start in another slot while the chatbot service goes on with this call.
BridgeTimesOut(s) ==
  /\ Embeds(s)
  /\ AddToBridge(Embedding(bridge[s].version))
  /\ UNCHANGED <<pageVars, vectors, handed, deletion, disturbed, overlapped>>

\* A job fails for the last time, or a call no job waits for does.  The embedding comes to
\* nothing unless another slot still works on one.
BridgeGivesUp(s) ==
  /\ bridge[s] # Free
  /\ bridge' = [bridge EXCEPT ![s] = Free]
  /\ disturbed' = (disturbed \/ ~\E t \in Slots \ {s} : Embeds(t))
  /\ UNCHANGED <<pageVars, vectors, handed, deletion, overlapped>>

\* removeOnComplete: a completed job is kept for an hour.
HourPasses ==
  /\ job.status = "completed"
  /\ job' = NoJob
  /\ UNCHANGED <<row, cached, scrape, request, cleanup, bridgeVars>>

\* More than 25 hours: the key, the freshness and what BullMQ keeps expire.  The
\* bridge may be behind a day, its breaker delays jobs while it is open.
TimePasses(age) ==
  /\ \A r \in Requests : request[r] = "idle"
  /\ job.status \in {"none", "completed", "failed"}
  /\ cleanup.step = "idle"
  /\ cached' = FALSE
  /\ job' = NoJob
  /\ row' = IF row = NoRow THEN NoRow
            ELSE [row EXCEPT !.fresh = FALSE, !.settled = (row.status = "STALE"),
                             !.age = IF @ = "month" THEN "month" ELSE age]
  /\ UNCHANGED <<scrape, request, cleanup, bridgeVars>>

\* What a request does once it has begun, and what the worker does with the job.
RequestStep(r) ==
  \/ DeleteRow(r)
  \/ CheckCache(r)
  \/ CheckRow(r)
  \/ MarkPending(r)
  \/ EnqueueScrape(r)
  \/ WarmCache(r)
  \/ RequestFails(r)

ScrapeStep ==
  \/ StartScrape
  \/ RejectScrape
  \/ Fetch
  \/ FetchFails
  \/ Compare
  \/ FinishUnchanged
  \/ HandOver
  \/ FinishChanged
  \/ FinishJob
  \/ ScrapeFails
  \/ RecoverStalled
  \/ Retry

CleanupStep ==
  \/ HandOverDelete
  \/ DeleteRefused
  \/ MarkStale
  \/ EvictCache
  \/ Purge

BridgeStep(s) ==
  \/ EraseChunks(s)
  \/ UpsertChunks(s)
  \/ DeleteChunks(s)
  \/ BridgeRetries(s)
  \/ BridgeTimesOut(s)
  \/ BridgeGivesUp(s)

Next ==
  \/ \E r \in Requests : EnqueueRequest(r) \/ ForceRequest(r) \/ RequestStep(r)
  \/ ScrapeStep
  \/ Crash
  \/ StartCron
  \/ StartAdmin
  \/ CleanupStep
  \/ CleanupFails
  \/ \E s \in Slots : BridgeStep(s)
  \/ HourPasses
  \/ \E age \in Ages : TimePasses(age)

Spec == Init /\ [][Next]_vars

\* Requests end, the worker and the bridge work on, time passes, the cron runs,
\* and the calls of the cleanup and the bridge do not fail every time.
FairSpec ==
  /\ Spec
  /\ \A r \in Requests : WF_vars(RequestStep(r))
  /\ WF_vars(ScrapeStep)
  /\ WF_vars(StartCron)
  /\ SF_vars(HandOverDelete) /\ SF_vars(MarkStale)
  /\ SF_vars(EvictCache) /\ SF_vars(Purge)
  /\ \A s \in Slots :
       WF_vars(EraseChunks(s)) /\ SF_vars(UpsertChunks(s)) /\ SF_vars(DeleteChunks(s))
  /\ SF_vars(TimePasses("month"))

-----------------------------------------------------------------------------
(* Properties.                                                             *)

\* The page a row calls COMPLETED was handed over to the bridge under the hash
\* the row records, also when the worker dies or a call fails between the two
\* writes (processScrapeJob steps 7 and 8).
CompletedWasHandedOver ==
  row # NoRow /\ row.hash # NoVersion => row.hash \in handed

\* A row is only marked STALE, and so up for the purge, after the deletion of the
\* vectors of this very row was handed over, or refused to the admin route by a server
\* without a queue, which goes unnoticed (deleteStalePages steps 1 and 2): never a row that
\* was created after the cleanup has looked.
StaleWasHandedOver ==
  row # NoRow /\ row.status = "STALE" => deletion \in {"given", "refused"}

BridgeIdle == \A s \in Slots : bridge[s] = Free
Stored == {v \in Versions : vectors[v] > 0}
StoredOnce(v) == vectors = [NoChunks EXCEPT ![v] = 1]

\* A page whose row records an embedding is in the store once the bridge and late calls have
\* come to rest, if no deletion was asked for and no embedding came to nothing.  There is one
\* copy of one version that was handed over, however often the scrape, the bridge's jobs and
\* their calls were repeated, unless two calls had both deleted the old chunks before the
\* first stored its own: then it may be several, of one version or of two (processScrapeJob
\* against process_document, whose re-indexing is called idempotent).
QuietPageIsEmbedded ==
  /\ row # NoRow /\ row.hash # NoVersion
  /\ BridgeIdle /\ ~disturbed
  => /\ Stored # {} /\ Stored \subseteq handed
     /\ ~overlapped => \E v \in handed : StoredOnce(v)

IsStale == row # NoRow /\ row.status = "STALE"

\* "hard-deletes STALE rows (25 h window gives the async Qdrant deletion job time
\* to complete)" (scraper.cleanup.cron.js:10-11): while the days go by and the
\* purge runs again and again, no row stays STALE.
StaleIsPurged ==
  []<><<TimePasses("month")>>_vars /\ []<><<Purge>>_vars => (IsStale ~> ~IsStale)
=============================================================================
