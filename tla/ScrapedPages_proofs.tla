------------------------ MODULE ScrapedPages_proofs ------------------------
(***************************************************************************)
(* Proofs about ScrapedPages, for any versions of the page, any number of  *)
(* requests, attempts, stalls and bridge jobs: type correctness, and what  *)
(* the page's row may say of what the bridge was given.  The invariant     *)
(* IInv follows the version from the scrape to the row (ScrapeInv), the    *)
(* deletion from the cleanup to the row (CleanupInv), every version handed *)
(* over to a job of the bridge or to the vector store (BridgeInv), and the *)
(* copies of its chunks through the bridge's calls (CopiesInv).            *)
(***************************************************************************)
EXTENDS ScrapedPages, TLAPS

\* What the worker has fetched is a version, and what it is about to record in the
\* row was handed over.
ScrapeInv ==
  /\ scrape.step \in {"compare", "changed", "handed"} => scrape.version \in Versions
  /\ scrape.step = "handed" => scrape.version \in handed

\* A cleanup marks the row it found or none, and only once it has asked for its deletion.
CleanupInv ==
  cleanup.target = "row" =>
    /\ row # NoRow
    /\ cleanup.step = "asked" => deletion \in {"given", "refused"}

\* The jobs of the bridge and the vectors are of versions handed over.  Before anything
\* is deleted or lost, one of them has what was handed over.
BridgeInv ==
  /\ Stored \subseteq handed
  /\ \A s \in Slots : Embeds(s) => bridge[s].version \in handed
  /\ ~disturbed =>
       /\ \A s \in Slots : bridge[s].kind # "delete"
       /\ handed # {} => Stored # {} \/ \E s \in Slots : Embeds(s)

\* Unless calls overlapped, at most one of them is between its delete and its upsert, with
\* the store empty, and what is stored is there once.
CopiesInv ==
  ~overlapped =>
    /\ \A s, t \in Slots : Erased(s) /\ Erased(t) => s = t
    /\ \A s \in Slots : Erased(s) => vectors = NoChunks
    /\ vectors = NoChunks \/ \E v \in Versions : StoredOnce(v)

IInv ==
  /\ TypeOK
  /\ ScrapeInv
  /\ CleanupInv
  /\ BridgeInv
  /\ CopiesInv
  /\ CompletedWasHandedOver
  /\ StaleWasHandedOver

-----------------------------------------------------------------------------
(* What the operators the actions share do to the row, the job, the bridge.  *)

\* A row that is written keeps its hash; it is not STALE unless it is marked so.
LEMMA RowWritten ==
  ASSUME TypeOK, NEW status \in Statuses, Write(status)
  PROVE  /\ row' \in Rows
         /\ row'.status = status
         /\ row'.hash = HashOf(row)
<1>1. CASE row = NoRow
  BY <1>1 DEF Write, Rows, HashOf
<1>2. CASE row # NoRow
  BY <1>2 DEF Write, Rows, HashOf, TypeOK
<1> QED BY <1>1, <1>2

LEMMA RowCompleted ==
  ASSUME TypeOK, NEW hash \in Versions \cup {NoVersion}, WriteCompleted(hash)
  PROVE  /\ row' \in Rows
         /\ row'.status = "COMPLETED"
         /\ row'.hash = hash
<1>1. CASE row = NoRow
  BY <1>1 DEF WriteCompleted, Rows, Statuses
<1>2. CASE row # NoRow
  BY <1>2 DEF WriteCompleted, Rows, Statuses, TypeOK
<1> QED BY <1>1, <1>2

\* NoRow is not a row.
LEMMA RowsAreRows == \A r \in Rows : r # NoRow
BY DEF Rows, NoRow, Statuses

\* The hash of a row is a version or none, and was handed over if it is one.
LEMMA HashTyped ==
  ASSUME TypeOK
  PROVE  /\ HashOf(row) \in Versions \cup {NoVersion}
         /\ CompletedWasHandedOver => HashOf(row) \in handed \cup {NoVersion}
BY DEF TypeOK, HashOf, Rows, CompletedWasHandedOver

\* A job at its beginning or end has no attempts and no stalls behind it.
LEMMA NoJobTyped ==
  /\ NoJob \in [status : JobStates, attempts : 0..MaxAttempts - 1, stalls : 0..MaxStalls]
  /\ \A status \in JobStates :
       [NoJob EXCEPT !.status = status]
         \in [status : JobStates, attempts : 0..MaxAttempts - 1, stalls : 0..MaxStalls]
<1>1. 0 \in 0..MaxAttempts - 1 /\ 0 \in 0..MaxStalls
  BY ScraperAssumption
<1> QED BY <1>1 DEF NoJob, JobStates

\* A failed job is delayed while attempts are left, and the worker idle.
LEMMA JobFailed ==
  ASSUME TypeOK, FailJob
  PROVE  /\ job' \in [status : JobStates, attempts : 0..MaxAttempts - 1, stalls : 0..MaxStalls]
         /\ scrape' = [step |-> "idle", version |-> NoVersion]
<1>1. job.attempts \in Nat /\ 0 \in 0..MaxAttempts - 1 /\ 0 \in 0..MaxStalls
  BY ScraperAssumption DEF TypeOK
<1>2. CASE job.attempts + 1 < MaxAttempts
  <2>1. job.attempts + 1 \in 0..MaxAttempts - 1
    BY <1>1, <1>2, ScraperAssumption
  <2>2. job' = [job EXCEPT !.status = "delayed", !.attempts = job.attempts + 1]
    BY <1>2 DEF FailJob
  <2> QED BY <2>1, <2>2 DEF TypeOK, FailJob, Step, JobStates
<1>3. CASE ~(job.attempts + 1 < MaxAttempts)
  BY <1>1, <1>3 DEF FailJob, Step, NoJob, JobStates
<1> QED BY <1>2, <1>3

\* The kinds of a job tell what else it has.
LEMMA BridgeKinds ==
  ASSUME TypeOK, NEW s \in Slots
  PROVE  /\ bridge[s].kind \in {"none", "process", "delete"}
         /\ bridge[s].kind = "none" <=> bridge[s] = Free
         /\ bridge[s].kind = "process" =>
              bridge[s] \in [kind : {"process"}, version : Versions, erased : BOOLEAN]
BY DEF TypeOK, BridgeJobs, Free

\* A new job takes a free slot, and the others are as they were.
LEMMA JobAdded ==
  ASSUME TypeOK, NEW j \in BridgeJobs, AddToBridge(j)
  PROVE  /\ bridge' \in [Slots -> BridgeJobs \cup {Free}]
         /\ \E s \in Slots :
              /\ bridge[s] = Free /\ bridge'[s] = j
              /\ \A t \in Slots \ {s} : bridge'[t] = bridge[t]
BY DEF TypeOK, AddToBridge

\* An empty store has nothing stored, and a version stored once is all there is.
LEMMA StoreContents ==
  ASSUME TypeOK
  PROVE  /\ vectors = NoChunks => Stored = {}
         /\ \A v \in Versions : StoredOnce(v) => Stored = {v}
<1>1. vectors = NoChunks => Stored = {}
  BY DEF Stored, NoChunks
<1>2. ASSUME NEW v \in Versions, StoredOnce(v) PROVE Stored = {v}
  BY <1>2 DEF Stored, StoredOnce, NoChunks
<1> QED BY <1>1, <1>2

\* A new embedding of a version that was handed over, by a scrape or in place of a call that
\* timed out, has not deleted anything: what is said of the other jobs and the copies holds on.
LEMMA JobKeeps ==
  ASSUME TypeOK, BridgeInv, CopiesInv, NEW v \in Versions, handed \subseteq handed',
         v \in handed', AddToBridge(Embedding(v)),
         UNCHANGED <<vectors, disturbed, overlapped>>
  PROVE  BridgeInv' /\ CopiesInv'
<1>1. Embedding(v) \in BridgeJobs
  BY DEF BridgeJobs, Embedding
<1>2. PICK s \in Slots :
        /\ bridge[s] = Free
        /\ bridge'[s] = Embedding(v)
        /\ \A t \in Slots \ {s} : bridge'[t] = bridge[t]
  BY <1>1, JobAdded
<1>3. \A t \in Slots : Erased(t)' => Erased(t)
  BY <1>2 DEF Embedding, Erased, Embeds
<1>4. /\ Embeds(s)' /\ bridge'[s].version = v /\ bridge'[s].kind # "delete"
      /\ \A t \in Slots \ {s} : Embeds(t)' <=> Embeds(t)
  BY <1>2 DEF Embedding, Embeds
<1>5. BridgeInv'
  BY <1>2, <1>4 DEF BridgeInv, Stored
<1>6. CopiesInv'
  BY <1>3 DEF CopiesInv, StoredOnce
<1> QED BY <1>5, <1>6

-----------------------------------------------------------------------------
(* Types, one group of actions at a time.                                  *)

LEMMA TypeInit == Init => TypeOK
<1> SUFFICES ASSUME Init PROVE TypeOK
  OBVIOUS
<1>1. cleanup \in [step : CleanupSteps, target : {"none", "row", "gone"}, purges : BOOLEAN]
  BY DEF Init, NoCleanup, CleanupSteps
<1>2. /\ scrape \in [step : ScrapeSteps, version : Versions \cup {NoVersion}]
      /\ request \in [Requests -> RequestSteps]
      /\ bridge \in [Slots -> BridgeJobs \cup {Free}]
      /\ vectors \in [Versions -> Nat]
  BY DEF Init, ScrapeSteps, RequestSteps, NoChunks
<1> QED BY <1>1, <1>2, NoJobTyped DEF Init, TypeOK

LEMMA RequestTypes ==
  ASSUME TypeOK, NEW r \in Requests,
         EnqueueRequest(r) \/ ForceRequest(r) \/ RequestStep(r)
  PROVE  TypeOK'
<1>1. CASE EnqueueRequest(r)
  BY <1>1 DEF EnqueueRequest, TypeOK, Goto, RequestSteps, bridgeVars
<1>2. CASE ForceRequest(r)
  BY <1>2 DEF ForceRequest, Evict, TypeOK, Goto, RequestSteps, bridgeVars
<1>3. CASE DeleteRow(r)
  BY <1>3 DEF DeleteRow, RemoveRow, TypeOK, Goto, RequestSteps
<1>4. CASE CheckCache(r)
  BY <1>4 DEF CheckCache, TypeOK, Goto, RequestSteps, bridgeVars
<1>5. CASE CheckRow(r)
  BY <1>5 DEF CheckRow, TypeOK, Goto, RequestSteps, bridgeVars
<1>6. CASE MarkPending(r)
  <2>1. row' \in Rows
    BY <1>6, RowWritten DEF MarkPending, Statuses
  <2> QED BY <1>6, <2>1 DEF MarkPending, TypeOK, Goto, RequestSteps, bridgeVars
<1>7. CASE EnqueueScrape(r)
  BY <1>7, NoJobTyped DEF EnqueueScrape, TypeOK, Goto, RequestSteps, JobStates, bridgeVars
<1>8. CASE WarmCache(r)
  BY <1>8 DEF WarmCache, Warm, TypeOK, Goto, RequestSteps, bridgeVars
<1>9. CASE RequestFails(r)
  BY <1>9 DEF RequestFails, TypeOK, Goto, RequestSteps, bridgeVars
<1> QED BY <1>1, <1>2, <1>3, <1>4, <1>5, <1>6, <1>7, <1>8, <1>9 DEF RequestStep

LEMMA ScrapeTypes ==
  ASSUME TypeOK, ScrapeInv, ScrapeStep \/ Crash
  PROVE  TypeOK'
<1>1. CASE StartScrape
  <2>1. row' \in Rows
    BY <1>1, RowWritten DEF StartScrape, Statuses
  <2> QED BY <1>1, <2>1 DEF StartScrape, Step, TypeOK, JobStates, ScrapeSteps, bridgeVars
<1>2. CASE RejectScrape
  BY <1>2, JobFailed DEF RejectScrape, TypeOK, ScrapeSteps, bridgeVars
<1>3. CASE Fetch
  BY <1>3 DEF Fetch, Step, TypeOK, ScrapeSteps, bridgeVars
<1>4. CASE FetchFails
  <2>1. row' \in Rows
    BY <1>4, RowWritten DEF FetchFails, Statuses
  <2> QED BY <1>4, <2>1, JobFailed DEF FetchFails, TypeOK, ScrapeSteps, bridgeVars
<1>5. CASE Compare
  BY <1>5 DEF Compare, Step, TypeOK, ScrapeSteps, bridgeVars
<1>6. CASE FinishUnchanged
  <2>1. row' \in Rows
    BY <1>6, HashTyped, RowCompleted DEF FinishUnchanged
  <2> QED BY <1>6, <2>1 DEF FinishUnchanged, Step, TypeOK, ScrapeSteps, bridgeVars
<1>7. CASE HandOver
  <2>1. scrape.version \in Versions
    BY <1>7 DEF HandOver, ScrapeInv
  <2>2. Embedding(scrape.version) \in BridgeJobs
    BY <2>1 DEF BridgeJobs, Embedding
  <2>3. bridge' \in [Slots -> BridgeJobs \cup {Free}]
    BY <1>7, <2>2, JobAdded DEF HandOver
  <2> QED BY <1>7, <2>1, <2>3 DEF HandOver, Step, TypeOK, ScrapeSteps
<1>8. CASE FinishChanged
  <2>1. row' \in Rows
    BY <1>8, RowCompleted DEF FinishChanged, TypeOK
  <2> QED BY <1>8, <2>1 DEF FinishChanged, Step, TypeOK, ScrapeSteps, bridgeVars
<1>9. CASE FinishJob
  <2>1. job' \in [status : JobStates, attempts : 0..MaxAttempts - 1, stalls : 0..MaxStalls]
    BY <1>9, NoJobTyped DEF FinishJob, JobStates
  <2> QED BY <1>9, <2>1 DEF FinishJob, Warm, Step, TypeOK, ScrapeSteps, bridgeVars
<1>10. CASE ScrapeFails
  BY <1>10, JobFailed DEF ScrapeFails, TypeOK, ScrapeSteps, bridgeVars
<1>11. CASE RecoverStalled
  <2>1. job.stalls < MaxStalls => job.stalls + 1 \in 0..MaxStalls
    BY ScraperAssumption DEF TypeOK
  <2>2. job' \in [status : JobStates, attempts : 0..MaxAttempts - 1, stalls : 0..MaxStalls]
    <3>1. CASE job.stalls < MaxStalls
      <4>1. job' = [job EXCEPT !.status = "waiting", !.stalls = job.stalls + 1]
        BY <1>11, <3>1 DEF RecoverStalled
      <4> QED BY <2>1, <3>1, <4>1 DEF TypeOK, JobStates
    <3>2. CASE ~(job.stalls < MaxStalls)
      BY <1>11, <3>2, ScraperAssumption DEF RecoverStalled, NoJob, JobStates
    <3> QED BY <3>1, <3>2
  <2> QED BY <1>11, <2>2 DEF RecoverStalled, TypeOK, bridgeVars
<1>12. CASE Retry
  BY <1>12 DEF Retry, TypeOK, JobStates, bridgeVars
<1>13. CASE Crash
  BY <1>13 DEF Crash, Step, TypeOK, ScrapeSteps, bridgeVars
<1> QED BY <1>1, <1>2, <1>3, <1>4, <1>5, <1>6, <1>7, <1>8, <1>9, <1>10, <1>11, <1>12, <1>13
        DEF ScrapeStep

LEMMA CleanupTypes ==
  ASSUME TypeOK, CleanupInv, StartCron \/ StartAdmin \/ CleanupStep \/ CleanupFails
  PROVE  TypeOK'
<1>1. CASE StartCron
  BY <1>1 DEF StartCron, TypeOK, CleanupSteps, bridgeVars
<1>2. CASE StartAdmin
  BY <1>2 DEF StartAdmin, TypeOK, CleanupSteps, bridgeVars
<1>3. CASE HandOverDelete
  <2>1. bridge' \in [Slots -> BridgeJobs \cup {Free}]
    BY <1>3, JobAdded DEF HandOverDelete, BridgeJobs
  <2> QED BY <1>3, <2>1 DEF HandOverDelete, Deletion, CleanupGoto, TypeOK, CleanupSteps
<1>4. CASE MarkStale
  <2>1. row' \in Rows \cup {NoRow}
    BY <1>4 DEF MarkStale, MarkedStale, CleanupInv, TypeOK, Rows, Statuses
  <2> QED BY <1>4, <2>1 DEF MarkStale, TypeOK, CleanupSteps, bridgeVars
<1>5. CASE EvictCache
  <2>1. cleanup' \in [step : CleanupSteps, target : {"none", "row", "gone"}, purges : BOOLEAN]
    <3>1. NoCleanup \in [step : CleanupSteps, target : {"none", "row", "gone"}, purges : BOOLEAN]
      BY DEF NoCleanup, CleanupSteps
    <3>2. [cleanup EXCEPT !.step = "purge"]
            \in [step : CleanupSteps, target : {"none", "row", "gone"}, purges : BOOLEAN]
      BY DEF TypeOK, CleanupSteps
    <3> QED BY <1>5, <3>1, <3>2 DEF EvictCache, CleanupGoto, CleanupEnds
  <2>2. cached' \in BOOLEAN
    BY <1>5 DEF EvictCache, Evict, TypeOK
  <2> QED BY <1>5, <2>1, <2>2 DEF EvictCache, TypeOK, bridgeVars
<1>6. CASE Purge
  BY <1>6 DEF Purge, RemoveRow, CleanupEnds, NoCleanup, TypeOK, CleanupSteps
<1>7. CASE CleanupFails
  BY <1>7 DEF CleanupFails, CleanupEnds, NoCleanup, TypeOK, CleanupSteps, bridgeVars
<1>8. CASE DeleteRefused
  BY <1>8 DEF DeleteRefused, Deletion, CleanupGoto, TypeOK, CleanupSteps
<1> QED BY <1>1, <1>2, <1>3, <1>4, <1>5, <1>6, <1>7, <1>8 DEF CleanupStep

LEMMA BridgeTypes ==
  ASSUME TypeOK, NEW s \in Slots, BridgeStep(s)
  PROVE  TypeOK'
<1>1. Embeds(s) =>
        /\ bridge[s].version \in Versions
        /\ \A b \in BOOLEAN : [bridge[s] EXCEPT !.erased = b] \in BridgeJobs
  BY BridgeKinds DEF BridgeJobs, Embeds
<1>2. CASE EraseChunks(s)
  BY <1>1, <1>2 DEF EraseChunks, TypeOK, NoChunks, pageVars
<1>3. CASE UpsertChunks(s)
  BY <1>1, <1>3 DEF UpsertChunks, Erased, TypeOK, pageVars
<1>4. CASE DeleteChunks(s)
  BY <1>4 DEF DeleteChunks, TypeOK, NoChunks, pageVars
<1>5. CASE BridgeRetries(s)
  BY <1>1, <1>5 DEF BridgeRetries, Erased, TypeOK, pageVars
<1>6. CASE BridgeTimesOut(s)
  <2>1. bridge' \in [Slots -> BridgeJobs \cup {Free}]
    BY <1>1, <1>6, JobAdded DEF BridgeTimesOut, BridgeJobs, Embedding
  <2> QED BY <1>6, <2>1 DEF BridgeTimesOut, TypeOK, pageVars
<1>7. CASE BridgeGivesUp(s)
  BY <1>7 DEF BridgeGivesUp, TypeOK, pageVars
<1> QED BY <1>2, <1>3, <1>4, <1>5, <1>6, <1>7 DEF BridgeStep

LEMMA TimeTypes ==
  ASSUME TypeOK, HourPasses \/ \E age \in Ages : TimePasses(age)
  PROVE  TypeOK'
<1>1. CASE HourPasses
  BY <1>1, NoJobTyped DEF HourPasses, TypeOK, bridgeVars
<1>2. ASSUME NEW age \in Ages, TimePasses(age)
      PROVE  TypeOK'
  <2>1. row' \in Rows \cup {NoRow}
    BY <1>2, ScraperAssumption DEF TimePasses, TypeOK, Rows
  <2> QED BY <1>2, <2>1, NoJobTyped DEF TimePasses, TypeOK, bridgeVars
<1> QED BY <1>1, <1>2
-----------------------------------------------------------------------------
(* The rest of the invariant, one group of actions at a time.              *)

\* What IInv says beyond the types.
PageInv ==
  ScrapeInv /\ CleanupInv /\ BridgeInv /\ CopiesInv /\ CompletedWasHandedOver
            /\ StaleWasHandedOver

LEMMA PageInit == Init => PageInv
<1> SUFFICES ASSUME Init PROVE PageInv
  OBVIOUS
<1>1. ScrapeInv /\ CleanupInv /\ CompletedWasHandedOver /\ StaleWasHandedOver
  BY DEF Init, ScrapeInv, CleanupInv, NoCleanup, CompletedWasHandedOver, StaleWasHandedOver
<1>2. Stored = {} /\ \A s \in Slots : ~Embeds(s) /\ ~Erased(s) /\ bridge[s].kind # "delete"
  BY DEF Init, Stored, NoChunks, Embeds, Erased, Free
<1>3. BridgeInv /\ CopiesInv
  BY <1>2 DEF Init, BridgeInv, CopiesInv
<1> QED BY <1>1, <1>3 DEF PageInv

\* What does not touch the bridge, the vectors or their history keeps what is said of them.
LEMMA BridgeUntouched ==
  ASSUME BridgeInv, CopiesInv, UNCHANGED <<bridge, vectors, handed, disturbed, overlapped>>
  PROVE  BridgeInv' /\ CopiesInv'
BY DEF BridgeInv, CopiesInv, Stored, StoredOnce, Erased, Embeds

\* Requests remove the row or mark it PENDING, and leave the worker and the bridge alone.
LEMMA RequestEffects ==
  ASSUME TypeOK, CleanupInv, NEW r \in Requests,
         EnqueueRequest(r) \/ ForceRequest(r) \/ RequestStep(r)
  PROVE  /\ UNCHANGED <<scrape, bridge, vectors, handed, disturbed, overlapped>>
         /\ \/ UNCHANGED <<row, cleanup, deletion>>
            \/ row' = NoRow /\ cleanup'.target # "row"
            \/ Write("PENDING") /\ UNCHANGED <<cleanup, deletion>>
<1>1. CASE EnqueueRequest(r) \/ ForceRequest(r)
  BY <1>1 DEF EnqueueRequest, ForceRequest, bridgeVars
<1>2. CASE DeleteRow(r)
  BY <1>2 DEF DeleteRow, RemoveRow, TypeOK
<1>3. CASE MarkPending(r)
  BY <1>3 DEF MarkPending, bridgeVars
<1>4. CASE \/ CheckCache(r) \/ CheckRow(r) \/ EnqueueScrape(r) \/ WarmCache(r)
           \/ RequestFails(r)
  BY <1>4 DEF CheckCache, CheckRow, EnqueueScrape, WarmCache, RequestFails, bridgeVars
<1> QED BY <1>1, <1>2, <1>3, <1>4 DEF RequestStep

LEMMA RequestKeeps ==
  ASSUME TypeOK, PageInv, NEW r \in Requests,
         EnqueueRequest(r) \/ ForceRequest(r) \/ RequestStep(r)
  PROVE  PageInv'
<1>1. /\ UNCHANGED <<scrape, bridge, vectors, handed, disturbed, overlapped>>
      /\ \/ UNCHANGED <<row, cleanup, deletion>>
         \/ row' = NoRow /\ cleanup'.target # "row"
         \/ Write("PENDING") /\ UNCHANGED <<cleanup, deletion>>
  BY RequestEffects DEF PageInv
<1>2. ScrapeInv' /\ BridgeInv' /\ CopiesInv'
  BY <1>1, BridgeUntouched DEF PageInv, ScrapeInv
<1>3. CASE UNCHANGED <<row, cleanup, deletion>>
  BY <1>1, <1>2, <1>3 DEF PageInv, CleanupInv, CompletedWasHandedOver, StaleWasHandedOver
<1>4. CASE row' = NoRow /\ cleanup'.target # "row"
  BY <1>2, <1>4 DEF PageInv, CleanupInv, CompletedWasHandedOver, StaleWasHandedOver
<1>5. CASE Write("PENDING") /\ UNCHANGED <<cleanup, deletion>>
  <2>1. row' \in Rows /\ row'.status = "PENDING" /\ row'.hash = HashOf(row)
    BY <1>5, RowWritten DEF Statuses
  <2> QED BY <1>1, <1>2, <1>5, <2>1, RowsAreRows, HashTyped
          DEF PageInv, CleanupInv, CompletedWasHandedOver, StaleWasHandedOver
<1> QED BY <1>1, <1>3, <1>4, <1>5

\* The worker writes the row, but never marks it STALE, with the hash it had or one that
\* was handed over, or it hands a version over.
LEMMA ScrapeEffects ==
  ASSUME TypeOK, PageInv, ScrapeStep \/ Crash
  PROVE  /\ UNCHANGED <<cleanup, vectors, deletion, disturbed, overlapped>>
         /\ ScrapeInv'
         /\ \/ UNCHANGED <<row, bridge, handed>>
            \/ /\ row' \in Rows /\ row'.status # "STALE"
               /\ row'.hash \in handed \cup {NoVersion}
               /\ UNCHANGED <<bridge, handed>>
            \/ HandOver
<1>1. CASE StartScrape
  <2>1. row' \in Rows /\ row'.status = "PROCESSING" /\ row'.hash = HashOf(row)
    BY <1>1, RowWritten DEF StartScrape, Statuses
  <2> QED BY <1>1, <2>1, HashTyped DEF StartScrape, Step, ScrapeInv, PageInv, bridgeVars
<1>2. CASE FetchFails
  <2>1. row' \in Rows /\ row'.status = "FAILED" /\ row'.hash = HashOf(row)
    BY <1>2, RowWritten DEF FetchFails, Statuses
  <2> QED BY <1>2, <2>1, HashTyped, JobFailed DEF FetchFails, ScrapeInv, PageInv, bridgeVars
<1>3. CASE FinishUnchanged
  <2>1. row' \in Rows /\ row'.status = "COMPLETED" /\ row'.hash = HashOf(row)
    BY <1>3, HashTyped, RowCompleted DEF FinishUnchanged
  <2> QED BY <1>3, <2>1, HashTyped DEF FinishUnchanged, Step, ScrapeInv, PageInv, bridgeVars
<1>4. CASE FinishChanged
  <2>1. row' \in Rows /\ row'.status = "COMPLETED" /\ row'.hash = scrape.version
    BY <1>4, RowCompleted DEF FinishChanged, TypeOK
  <2> QED BY <1>4, <2>1 DEF FinishChanged, Step, ScrapeInv, PageInv, bridgeVars
<1>5. CASE HandOver
  <2>1. scrape'.step = "handed" /\ scrape'.version = scrape.version
    BY <1>5 DEF HandOver, Step
  <2> QED BY <1>5, <2>1 DEF HandOver, ScrapeInv, PageInv
<1>6. CASE Fetch \/ Compare
  BY <1>6 DEF Fetch, Compare, Step, ScrapeInv, PageInv, bridgeVars
<1>7. CASE RejectScrape \/ ScrapeFails
  BY <1>7, JobFailed DEF RejectScrape, ScrapeFails, ScrapeInv, bridgeVars
<1>8. CASE FinishJob \/ RecoverStalled \/ Retry \/ Crash
  BY <1>8 DEF FinishJob, RecoverStalled, Retry, Crash, Step, ScrapeInv, PageInv, bridgeVars
<1> QED BY <1>1, <1>2, <1>3, <1>4, <1>5, <1>6, <1>7, <1>8 DEF ScrapeStep

LEMMA ScrapeKeeps ==
  ASSUME TypeOK, PageInv, ScrapeStep \/ Crash
  PROVE  PageInv'
<1>1. UNCHANGED <<cleanup, vectors, deletion, disturbed, overlapped>> /\ ScrapeInv'
  BY ScrapeEffects
<1>2. CASE UNCHANGED <<row, bridge, handed>>
  BY <1>1, <1>2, BridgeUntouched
     DEF PageInv, CleanupInv, CompletedWasHandedOver, StaleWasHandedOver
<1>3. CASE /\ row' \in Rows /\ row'.status # "STALE"
           /\ row'.hash \in handed \cup {NoVersion}
           /\ UNCHANGED <<bridge, handed>>
  <2>1. CleanupInv' /\ CompletedWasHandedOver' /\ StaleWasHandedOver'
    BY <1>1, <1>3, RowsAreRows
       DEF PageInv, CleanupInv, CompletedWasHandedOver, StaleWasHandedOver
  <2>2. BridgeInv' /\ CopiesInv'
    BY <1>1, <1>3, BridgeUntouched DEF PageInv
  <2> QED BY <1>1, <2>1, <2>2 DEF PageInv
<1>4. CASE HandOver
  <2>1. scrape.version \in Versions
    BY <1>4 DEF HandOver, PageInv, ScrapeInv
  <2>2. handed' = handed \cup {scrape.version} /\ row' = row
    BY <1>4 DEF HandOver
  <2>3. BridgeInv' /\ CopiesInv'
    BY <1>1, <1>4, <2>1, <2>2, JobKeeps DEF HandOver, PageInv
  <2> QED BY <1>1, <2>2, <2>3 DEF PageInv, CleanupInv, CompletedWasHandedOver, StaleWasHandedOver
<1> QED BY <1>2, <1>3, <1>4, ScrapeEffects

LEMMA CleanupKeeps ==
  ASSUME TypeOK, PageInv, StartCron \/ StartAdmin \/ CleanupStep \/ CleanupFails
  PROVE  PageInv'
<1>1. UNCHANGED <<scrape, vectors, handed, overlapped>>
  BY DEF StartCron, StartAdmin, CleanupStep, HandOverDelete, DeleteRefused, MarkStale,
         EvictCache, Purge, CleanupFails, bridgeVars
<1>2. ScrapeInv'
  BY <1>1 DEF PageInv, ScrapeInv
<1>3. CASE StartCron \/ StartAdmin \/ EvictCache \/ CleanupFails
  <2>1. UNCHANGED <<row, bridge, deletion, disturbed>>
    BY <1>3 DEF StartCron, StartAdmin, EvictCache, CleanupFails, bridgeVars
  <2>2. CleanupInv'
    BY <1>3, <2>1 DEF StartCron, StartAdmin, EvictCache, CleanupFails, Expired, CleanupGoto,
                      CleanupEnds, NoCleanup, CleanupInv, PageInv, TypeOK
  <2> QED BY <1>1, <1>2, <2>1, <2>2, BridgeUntouched
          DEF PageInv, CompletedWasHandedOver, StaleWasHandedOver
<1>4. CASE HandOverDelete
  <2>1. [kind |-> "delete"] \in BridgeJobs
    BY DEF BridgeJobs
  <2>2. PICK s \in Slots :
          /\ bridge'[s] = [kind |-> "delete"]
          /\ \A t \in Slots \ {s} : bridge'[t] = bridge[t]
    BY <1>4, <2>1, JobAdded DEF HandOverDelete
  <2>3. \A t \in Slots :
          /\ Embeds(t)' => Embeds(t) /\ bridge'[t] = bridge[t]
          /\ Erased(t)' => Erased(t)
    BY <2>2 DEF Embeds, Erased
  <2>4. BridgeInv' /\ CopiesInv'
    BY <1>1, <1>4, <2>3
       DEF HandOverDelete, PageInv, BridgeInv, CopiesInv, Stored, StoredOnce
  <2>5. CleanupInv'
    BY <1>4 DEF HandOverDelete, Deletion, CleanupGoto, PageInv, CleanupInv, TypeOK
  <2> QED BY <1>1, <1>2, <1>4, <2>4, <2>5
          DEF HandOverDelete, Deletion, PageInv, CompletedWasHandedOver, StaleWasHandedOver
<1>5. CASE DeleteRefused
  <2>1. BridgeInv' /\ CopiesInv'
    BY <1>1, <1>5, BridgeUntouched DEF DeleteRefused, PageInv
  <2>2. CleanupInv'
    BY <1>5 DEF DeleteRefused, Deletion, CleanupGoto, PageInv, CleanupInv, TypeOK
  <2> QED BY <1>1, <1>2, <1>5, <2>1, <2>2
          DEF DeleteRefused, Deletion, PageInv, CompletedWasHandedOver, StaleWasHandedOver
<1>6. CASE MarkStale
  <2>1. UNCHANGED <<bridge, deletion, disturbed>> /\ cleanup'.target # "row"
    BY <1>6 DEF MarkStale, bridgeVars, TypeOK
  <2>2. CleanupInv' /\ BridgeInv' /\ CopiesInv'
    BY <1>1, <2>1, BridgeUntouched DEF PageInv, CleanupInv
  <2>3. CompletedWasHandedOver' /\ StaleWasHandedOver'
    BY <1>1, <1>6, <2>1
       DEF MarkStale, MarkedStale, PageInv, CleanupInv, CompletedWasHandedOver,
           StaleWasHandedOver, TypeOK, Rows
  <2> QED BY <1>2, <2>2, <2>3 DEF PageInv
<1>7. CASE Purge
  <2>1. UNCHANGED <<bridge, disturbed>> /\ cleanup'.target # "row"
    BY <1>7 DEF Purge, CleanupEnds, NoCleanup
  <2>2. row' = NoRow \/ UNCHANGED <<row, deletion>>
    BY <1>7 DEF Purge, RemoveRow
  <2> QED BY <1>1, <1>2, <2>1, <2>2, BridgeUntouched
          DEF PageInv, CleanupInv, CompletedWasHandedOver, StaleWasHandedOver
<1> QED BY <1>3, <1>4, <1>5, <1>6, <1>7 DEF CleanupStep

LEMMA BridgeKeeps ==
  ASSUME TypeOK, PageInv, NEW s \in Slots, BridgeStep(s)
  PROVE  PageInv'
<1>1. UNCHANGED <<row, scrape, cleanup, handed, deletion>>
  BY DEF BridgeStep, EraseChunks, UpsertChunks, DeleteChunks, BridgeRetries, BridgeTimesOut,
         BridgeGivesUp, pageVars
<1>2. ScrapeInv' /\ CleanupInv' /\ CompletedWasHandedOver' /\ StaleWasHandedOver'
  BY <1>1 DEF PageInv, ScrapeInv, CleanupInv, CompletedWasHandedOver, StaleWasHandedOver
<1>3. SUFFICES BridgeInv' /\ CopiesInv'
  BY <1>2 DEF PageInv
<1>4. CASE EraseChunks(s)
  <2>1. /\ Embeds(s)' /\ bridge'[s].version = bridge[s].version /\ bridge'[s].kind # "delete"
        /\ \A t \in Slots \ {s} : bridge'[t] = bridge[t]
    BY <1>4, BridgeKinds DEF EraseChunks, Embeds, TypeOK
  <2>2. vectors' = NoChunks /\ Stored' = {} /\ disturbed' = disturbed
    BY <1>4 DEF EraseChunks, Stored, NoChunks
  <2>3. BridgeInv'
    BY <1>1, <1>4, <2>1, <2>2 DEF EraseChunks, PageInv, BridgeInv, Embeds
  <2>4. CopiesInv'
    BY <1>4, <2>1, <2>2 DEF EraseChunks, CopiesInv, Erased, Embeds
  <2> QED BY <2>3, <2>4
<1>5. CASE UpsertChunks(s)
  <2>1. /\ ~Embeds(s)' /\ bridge'[s].kind # "delete"
        /\ \A t \in Slots \ {s} : bridge'[t] = bridge[t]
    BY <1>5 DEF UpsertChunks, Embeds, Free, TypeOK
  <2>2. bridge[s].version \in handed /\ bridge[s].version \in Versions
    BY <1>5, BridgeKinds DEF UpsertChunks, Erased, Embeds, PageInv, BridgeInv
  <2>3. Stored' = Stored \cup {bridge[s].version} /\ disturbed' = disturbed
    BY <1>5, <2>2 DEF UpsertChunks, Stored, TypeOK
  <2>4. BridgeInv'
    BY <1>1, <2>1, <2>2, <2>3 DEF PageInv, BridgeInv, Embeds
  <2>5. PICK v \in Versions : v = bridge[s].version
    BY <2>2
  <2>6. ASSUME ~overlapped'
        PROVE  StoredOnce(v)' /\ \A t \in Slots : ~Erased(t)'
    <3>1. vectors = NoChunks /\ \A t \in Slots : Erased(t) => t = s
      BY <1>5, <2>6 DEF UpsertChunks, PageInv, CopiesInv
    <3>2. vectors' = [NoChunks EXCEPT ![v] = NoChunks[v] + 1]
      BY <1>5, <2>5, <3>1 DEF UpsertChunks
    <3>3. NoChunks[v] + 1 = 1
      BY DEF NoChunks
    <3>4. \A t \in Slots : ~Erased(t)'
      BY <2>1, <3>1 DEF Erased, Embeds
    <3> QED BY <3>2, <3>3, <3>4 DEF StoredOnce
  <2>7. CopiesInv'
    BY <2>6 DEF CopiesInv
  <2> QED BY <2>4, <2>7
<1>6. CASE DeleteChunks(s)
  <2>1. \A t \in Slots :
          /\ Embeds(t)' => Embeds(t) /\ bridge'[t] = bridge[t]
          /\ Erased(t)' => Erased(t)
    BY <1>6 DEF DeleteChunks, Embeds, Erased, Free, TypeOK
  <2>2. vectors' = NoChunks /\ Stored' = {}
    BY <1>6 DEF DeleteChunks, Stored, NoChunks
  <2>3. disturbed /\ disturbed'
    BY <1>6 DEF DeleteChunks, PageInv, BridgeInv
  <2>4. BridgeInv'
    BY <1>1, <2>1, <2>2, <2>3 DEF PageInv, BridgeInv
  <2>5. CopiesInv'
    BY <1>6, <2>1, <2>2 DEF DeleteChunks, PageInv, CopiesInv
  <2> QED BY <2>4, <2>5
<1>7. CASE BridgeRetries(s)
  <2>1. /\ Embeds(s)' /\ bridge'[s].version = bridge[s].version /\ bridge'[s].kind # "delete"
        /\ ~Erased(s)' /\ \A t \in Slots \ {s} : bridge'[t] = bridge[t]
    BY <1>7, BridgeKinds DEF BridgeRetries, Erased, Embeds, TypeOK
  <2>2. UNCHANGED <<vectors, disturbed, overlapped>> /\ Embeds(s)
    BY <1>7 DEF BridgeRetries, Erased
  <2>3. BridgeInv'
    BY <1>1, <2>1, <2>2 DEF PageInv, BridgeInv, Embeds, Stored
  <2>4. \A t \in Slots : Erased(t)' => Erased(t)
    BY <2>1 DEF Erased, Embeds
  <2>5. CopiesInv'
    BY <2>2, <2>4 DEF PageInv, CopiesInv, StoredOnce
  <2> QED BY <2>3, <2>5
<1>8. CASE BridgeTimesOut(s)
  <2>1. bridge[s].version \in handed /\ bridge[s].version \in Versions
    BY <1>8, BridgeKinds DEF BridgeTimesOut, Embeds, PageInv, BridgeInv
  <2> QED BY <1>1, <1>8, <2>1, JobKeeps DEF BridgeTimesOut, PageInv
<1>9. CASE BridgeGivesUp(s)
  <2>1. /\ ~Embeds(s)' /\ bridge'[s].kind # "delete"
        /\ \A t \in Slots \ {s} : bridge'[t] = bridge[t]
    BY <1>9 DEF BridgeGivesUp, Embeds, Free, TypeOK
  <2>2. UNCHANGED <<vectors, overlapped>>
    BY <1>9 DEF BridgeGivesUp
  <2>3. ~disturbed' => ~disturbed /\ \E t \in Slots \ {s} : Embeds(t)
    BY <1>9 DEF BridgeGivesUp
  <2>4. BridgeInv'
    BY <1>1, <2>1, <2>2, <2>3 DEF PageInv, BridgeInv, Embeds, Stored
  <2>5. \A t \in Slots : Erased(t)' => Erased(t)
    BY <2>1 DEF Erased, Embeds
  <2>6. CopiesInv'
    BY <2>2, <2>5 DEF PageInv, CopiesInv, StoredOnce
  <2> QED BY <2>4, <2>6
<1> QED BY <1>4, <1>5, <1>6, <1>7, <1>8, <1>9 DEF BridgeStep

LEMMA TimeKeeps ==
  ASSUME TypeOK, PageInv, HourPasses \/ \E age \in Ages : TimePasses(age)
  PROVE  PageInv'
<1>1. UNCHANGED <<scrape, cleanup, bridge, vectors, handed, deletion, disturbed, overlapped>>
  BY DEF HourPasses, TimePasses, bridgeVars
<1>2. ScrapeInv' /\ BridgeInv' /\ CopiesInv'
  BY <1>1, BridgeUntouched DEF PageInv, ScrapeInv
<1>3. CASE row' = row
  BY <1>1, <1>2, <1>3 DEF PageInv, CleanupInv, CompletedWasHandedOver, StaleWasHandedOver
<1>4. CASE row # NoRow /\ row' \in Rows /\ row'.status = row.status /\ row'.hash = row.hash
  BY <1>1, <1>2, <1>4, RowsAreRows
     DEF PageInv, CleanupInv, CompletedWasHandedOver, StaleWasHandedOver
<1>5. ASSUME NEW age \in Ages, TimePasses(age), row # NoRow
      PROVE  row' \in Rows /\ row'.status = row.status /\ row'.hash = row.hash
  BY <1>5, ScraperAssumption DEF TimePasses, TypeOK, Rows
<1>6. ASSUME NEW age \in Ages, TimePasses(age), row = NoRow
      PROVE  row' = row
  BY <1>6 DEF TimePasses
<1>7. HourPasses => row' = row
  BY DEF HourPasses
<1> QED BY <1>3, <1>4, <1>5, <1>6, <1>7

LEMMA InvStep == IInv /\ [Next]_vars => IInv'
<1> SUFFICES ASSUME IInv, [Next]_vars PROVE IInv'
  OBVIOUS
<1>1. TypeOK /\ PageInv
  BY DEF IInv, PageInv
<1>2. CASE \E r \in Requests : EnqueueRequest(r) \/ ForceRequest(r) \/ RequestStep(r)
  BY <1>1, <1>2, RequestTypes, RequestKeeps DEF IInv, PageInv
<1>3. CASE ScrapeStep \/ Crash
  BY <1>1, <1>3, ScrapeTypes, ScrapeKeeps DEF IInv, PageInv
<1>4. CASE StartCron \/ StartAdmin \/ CleanupStep \/ CleanupFails
  BY <1>1, <1>4, CleanupTypes, CleanupKeeps DEF IInv, PageInv
<1>5. CASE \E s \in Slots : BridgeStep(s)
  BY <1>1, <1>5, BridgeTypes, BridgeKeeps DEF IInv, PageInv
<1>6. CASE HourPasses \/ \E age \in Ages : TimePasses(age)
  BY <1>1, <1>6, TimeTypes, TimeKeeps DEF IInv, PageInv
<1>7. CASE UNCHANGED vars
  BY <1>7, BridgeUntouched
     DEF vars, bridgeVars, IInv, TypeOK, ScrapeInv, CleanupInv, CompletedWasHandedOver,
         StaleWasHandedOver
<1> QED BY <1>2, <1>3, <1>4, <1>5, <1>6, <1>7 DEF Next

-----------------------------------------------------------------------------
(* The theorems.                                                           *)

\* The inductive invariant holds in every reachable state of the page.
THEOREM InvCorrect == Spec => []IInv
<1>1. Init => IInv
  BY TypeInit, PageInit DEF IInv, PageInv
<1> QED BY <1>1, InvStep, PTL DEF Spec

\* Row, key, job, worker, requests, cleanup and bridge keep their types.
THEOREM TypeCorrect == Spec => []TypeOK
<1>1. IInv => TypeOK
  BY DEF IInv
<1> QED BY <1>1, InvCorrect, PTL

\* The hash a row records was given to the bridge, wherever the worker dies or a call
\* fails between handing over and recording (scraper.service.js, processScrapeJob).
THEOREM CompletedCorrect == Spec => []CompletedWasHandedOver
<1>1. IInv => CompletedWasHandedOver
  BY DEF IInv
<1> QED BY <1>1, InvCorrect, PTL

\* A row is marked STALE only after the deletion of its own vectors was given to the bridge,
\* or refused for want of a queue, however requests delete and recreate the row meanwhile
\* (scraper.service.js, deleteStalePages).
THEOREM StaleCorrect == Spec => []StaleWasHandedOver
<1>1. IInv => StaleWasHandedOver
  BY DEF IInv
<1> QED BY <1>1, InvCorrect, PTL

\* Once the bridge and every late call are at rest, a page whose hash is recorded is in the
\* store, in one copy of one version that was handed over unless calls overlapped between
\* their delete and their upsert, however often jobs were retried or timed out
\* (chatbot.bridge.worker.js, document_service.py).
THEOREM QuietCorrect == Spec => []QuietPageIsEmbedded
<1>1. ASSUME IInv, row # NoRow, row.hash # NoVersion, BridgeIdle, ~disturbed
      PROVE  /\ Stored # {} /\ Stored \subseteq handed
             /\ ~overlapped => \E v \in handed : StoredOnce(v)
  <2>1. handed # {}
    BY <1>1 DEF IInv, CompletedWasHandedOver
  <2>2. \A s \in Slots : ~Embeds(s)
    BY <1>1 DEF BridgeIdle, Embeds, Free
  <2>3. Stored # {} /\ Stored \subseteq handed
    BY <1>1, <2>1, <2>2 DEF IInv, BridgeInv
  <2>4. ASSUME ~overlapped PROVE \E v \in handed : StoredOnce(v)
    <3>1. vectors # NoChunks
      BY <1>1, <2>3, StoreContents DEF IInv
    <3>2. PICK v \in Versions : StoredOnce(v)
      BY <1>1, <2>4, <3>1 DEF IInv, CopiesInv
    <3> QED BY <1>1, <2>3, <3>2, StoreContents DEF IInv
  <2> QED BY <2>3, <2>4
<1>2. IInv => QuietPageIsEmbedded
  BY <1>1 DEF QuietPageIsEmbedded
<1> QED BY <1>2, InvCorrect, PTL
=============================================================================
