# HelpForge: a verification project

HelpForge is a help-desk platform: an API gateway in Node.js
(`services/api-gateway`: Express, Prisma/Postgres, Redis, BullMQ), a chatbot
service in Python (`services/chatbot-service`: FastAPI, Redis, Qdrant) and an
embeddable chat widget. The modules here model the parts of it whose correctness
depends on the order in which concurrent requests, queue jobs, timers and failures
interleave. TLC checks them on small instances; TLAPS proves the main safety
properties for every value of the constants.

Paths below are relative to `services/api-gateway/src` (gateway) or
`services/chatbot-service/app` (chatbot), unless they start with `docs/`.

    tlc -workers 2 -config MCChatbotBridge.cfg MCChatbotBridge     # one run
    tlapm ChatbotBridge_proofs.tla                                 # one set of proofs

`PROJECT.json` lists the runs, the lines each definition models, the hazards of
the code with the properties that cover them, a mutant of the code per property
(a plausible bug the property detects), and the theorems.

## 1. Inventory

| Component | State it keeps | Operations | What is hard about it |
|---|---|---|---|
| Chatbot bridge: `modules/ai/bridge/*` | BullMQ jobs (state, attempts, stalls, delay); breaker state and counters in the worker's memory | enqueue; processor: admit, send, delay, retry; crash, stall recovery | three jobs at a time share the breaker; answers arrive in another state than they were sent in; a rejection must cost no attempt; the breaker dies with the process, the jobs do not |
| Agent runs: chatbot `agent/agent.py`, `executor.py`, `validator.py` | steps and decision per run; ONE call count on a module-level executor | run, LLM call, tool call, retry, dry run, refusal | every `await` lets other runs of the event loop in; each run resets the shared count |
| Web scraper: `modules/ai/scraper/*`, chatbot `services/document_service.py` | `ScrapedPage` row, Redis key, BullMQ job, bridge jobs, vectors | request a scrape, delete a page, scrape, clean up, purge, embed, delete vectors | five stores written in separate calls; job ids that BullMQ remembers; retries |
| Tickets and auto-assignment: `modules/tickets/*` | tickets, `AgentWorkload` rows, availability and limits of memberships | create, assign, auto-assign, update, status, comments, tags, attachments | the agent is chosen from two unlocked reads and written in a later transaction; the counters have dates |
| Authentication: `modules/auth/*`, `middleware/auth.middleware.js` | users, refresh tokens, blacklist, cached users, `tokenIssuedAt` | register, login, refresh, logout, logoutAll, authenticate | delete and create of a token are two calls; cache fills race invalidations; seconds against milliseconds |
| Organizations: `modules/organization/*` | organizations, memberships, roles; cached memberships, permission snapshots, permissions in tokens | create, delete, invite, update role, edit and delete custom roles, require membership and permission | three copies of what a membership says; checks on memberships up to 300 s old |
| Event bus and notifications: `events/*`, `modules/notifications/*` | listeners; notification rows; BullMQ jobs; sockets | emit, handle, create rows, enqueue, send, retry, mark read | events are at most once and unordered with the request; rows and jobs are two writes |
| AI automation: `modules/ai/automation/*` | per-ticket AI state, message counter, override flag, comment lock | handle a comment, answer, assign, override, toggle | lock per comment, counter per ticket |
| Service connections: `config/redis.config.js`, `config/database.config.js` | breaker per dependency, Redis clients and their registry | connect, call, fail, probe, give up, disconnect | late answers move the breaker; commands wait in the client while Redis is away |
| Life cycle: `worker.js`, `server.js` | workers and connections of the process | start, shut down with time limits | a signal during the start; closing stores a late job still uses |
| Widget sessions: chatbot `widget/*` | rate-limit windows, messages of a session, conversation state in Redis | allow, answer, append, escalate, expire | windows and lists are read, changed and written back; an escalation clears what another turn is writing; Redis may fail at any call |
| Conversation and ticket memory: chatbot `conversation/*`, `memory/*`, `services/chat_service.py` | conversation state, message list with summaries in Redis | answer, stream, append, summarise, expire | summarising takes seconds and replaces a list others append to; state is read, changed and written back |
| Embedding migration: chatbot `services/migration_service.py` | vector store collections | migrate | copies points that are deleted meanwhile |
| AI core, configuration, analytics, augmentation; retrieval and LLM clients; internal request authentication | little of their own | request and answer | I/O; external to the modules that use them |

How they interact: the gateway's request handlers write Postgres and emit events
on an in-process bus (`events/eventBus.js`, `setImmediate`, errors only logged).
Handlers of events write notification rows and enqueue BullMQ jobs. Workers of a
second process (`worker.js`) take jobs: the scraper's worker fetches pages and hands
them to the chatbot bridge, whose worker calls the chatbot service over HTTP
through a circuit breaker. The chatbot service runs agents that call back into the
gateway for the LLM. Redis holds caches, locks, sessions and the queues.

What makes each correct, in one sentence:

- Bridge: a job ends done or dead, within its retry budget, whatever the breaker
  and the crashes do; the breaker opens and closes only for the reasons it states.
- Agent runs: bounded LLM calls and tool executions per run, a final decision
  always.
- Scraper: a row says COMPLETED or STALE only when the bridge has been asked for the
  embedding or the deletion; the vectors of a page at rest are of a version that was
  handed over, and there once.
- Auto-assignment: limits and balance are missed by no more than concurrency
  explains; "no agent available" is true of each agent at some moment of the search.
- Authentication: after logoutAll no older access token is accepted for longer than
  the user was cached before; one refresh token yields one successor, and none once a
  logout took it away.
- Organizations: nobody but the owner reaches the owner's level, whatever memberships
  the checks use; a cached membership or snapshot is out of date only while the change
  is under way, or after a named race or failure.
- Tickets: the activity log and the comments, attachments and tags tell the same.
- Notifications: those are notified who watched the ticket and wished it while its event
  was handled; no delivery job without the rows; every job ends.
- Service connections: a breaker keeps count of outcomes in any order; calls end, and
  refusals end once the dependency is back.
- Life cycle: a process asked to stop exits, and with 0 only if it waited for its jobs.
- Widget sessions: a turn that had the session to itself stays in it whole or is told
  in one ticket; windows are overshot by less than the concurrency.
- Conversation and ticket memory: what was said is in the memory, word for word or in a
  summary; the stage of a conversation does not go back.

## 2. Plan

Done, in this order:

1. `JobService`, `ChatbotBridge`: an abstract service and the bridge that implements
   it; every asynchronous AI feature rests on it.
2. `AgentRun`: the shared executor.
3. `ScrapedPages`: the longest chain of stores.
4. `AutoAssignment`: the decision most users see.
5. `AuthSessions`: what a token is worth after a logout.
6. `TicketActivity`, `NotificationDelivery` and their composition `TicketEvents`: what
   follows from a change of a ticket.

7. `OrganizationAccess`: what a membership is worth in three copies.
8. `ServiceConnections` and, on top of it, `GatewayProcess`: breakers and Redis clients
   in a process that starts, takes signals and shuts down.
9. `ConversationState`, `RateLimiter`, `WidgetSessions`, `TicketMemory`, composed in
   `ChatbotConversations`: what the chatbot service keeps in Redis.

10. The proofs: every safety invariant and action property of the passing runs is a theorem
    (section 5). They are kept to eight modules: the two about the chatbot service share
    `ChatbotService_proofs`, the ticket alone and with its events `TicketEvents_proofs`.

Next:

11. `AIAutomation`, once its event carries a comment id; `Migration` with the store.
12. An abstract at-most-once delivery that `TicketEvents` implements; that it implements
    `TicketActivity` is proved.

The runs are kept to a dozen, each a few minutes of TLC. A violation run whose finding
is reported gives its place to a new component; the finding stays in section 6. Type
invariants that are proved (5) are not run again, but for those of the scraper and of the
conversations, which their runs check first of all.

## 3. What is modelled

### ChatbotBridge (`modules/ai/bridge`)

| Model | Code |
|---|---|
| `state`, `failures`, `successes`, `remaining` | fields of `CircuitBreaker` (`chatbot.circuit.js`); `remaining` is the time to `recoveryTimeout`, in ticks |
| `status`, `attempts`, `stalls`, `delay` | the BullMQ job: its state, `attemptsMade`, stalled counter, delay |
| `request` | the state of the breaker in which the job's HTTP request was admitted |
| `SendRequest`, `RejectOpen` | the processor up to the `fetch`; `CircuitOpenError` with `moveToDelayed` |
| `RequestSucceeds`, `RequestFails` | `#onSuccess`, `#onFailure`, then BullMQ's completion or retry with backoff |
| `Wake`, `Tick` | promotion of a due delayed job; the clock |
| `Crash`, `RecoverStalled` | the process dies with requests outstanding; BullMQ's stalled check |

`called`, `run` and `aligned` are history variables. What a job carries and the HMAC
headers are left out. `JobService`
is what producers may rely on: accepted, tried at least MinTries and at most
MaxTries times, then done or dead.

### AgentRun (`agent/agent.py`, `agent/executor.py`)

One action per stretch between awaits: `Start` up to the first LLM call, `Answer` /
`LlmFails` for the LLM's decision, `OutOfSteps`, `RefuseTool`, `SimulateTool`,
`CallTool`, `ToolDone`, `ToolFails`, `RetryTool`, then `Return`. `callCount` is
`ToolExecutor._call_count`, reset by `Start` of any run. What tools do, prompts and
metrics are left out; a decision is its action only.

### ScrapedPages (`modules/ai/scraper`)

The page's row, cache key, scrape job, running requests, the cleanup, bridge jobs in
slots and the vectors; a version stands for a page's text and its hash. Each await of
`checkAndEnqueue`, `processScrapeJob`, the DELETE route, `deleteStalePages` and
`purgeStaleDbRows` ends an action; each write to another store can fail. Time is
three classes of age.

| Model | Code |
|---|---|
| `vectors[v]` | copies of the chunks of version v: `process_document` upserts under new ids (`qdrant_store.py:100-101`), so a second upsert adds a second copy |
| `EraseChunks`, `UpsertChunks` | the two calls of `process_document` that change the store; embedding lies between them |
| `BridgeRetries` | a call fails part way, and the job is sent again |
| `BridgeTimesOut` | `AbortSignal.timeout` ends the wait for a call (or the worker dies), not the call: it goes on in its slot while the job starts again in another |
| `BridgeGivesUp` | a job fails for the last time, or a call no job waits for does; of two such calls the model does not tell which one the job waits for, as nothing depends on it |
| `DeleteRefused`, `job' \in {job, ...}` in `EnqueueScrape` | a server without a queue: `enqueueDeleteDocuments` and the enqueue of a scrape answer without an error |
| `deletion`, `handed`, `disturbed`, `overlapped` | history: what came of the deletion for the present row; the versions handed over; whether a deletion or a lost embedding excuses missing vectors; whether two calls were between delete and upsert |

The worker process (the scraper's worker, the bridge's, the cron) always has a queue, as it
refuses to start without REDIS_URL (`worker.js:44-46`); a server may have none, so only what
requests ask for can be refused.

### AutoAssignment (`modules/tickets`)

| Model | Code |
|---|---|
| `load[a]` = today, week, since | `AgentWorkload`: `assignedToday`, `assignedThisWeek`, and `lastDailyReset` = `lastWeeklyReset`, written once |
| `available` | memberships with `isAvailable` and the role AGENT |
| `pc`, `sawAgents`, `sawLoads`, `choice` | a request in `autoAssignTicketIfPossible`: the two parallel queries, the chosen agent |
| `LeastLoaded`, `Eligible`, `CountsToday`, `CountsThisWeek` | `findBestAutoAssignAgent`, `isEligibleForAutoAssignment`, `getEffectiveWorkload` |
| `ReadAgentsFirst`, `ReadLoadsFirst`, then `ChooseAgent` or `NoAgentAvailable` | `Promise.all` in either order; the second answer and the choice are one action, as nothing is awaited between them |
| `Commit` | the transaction of `autoAssignTicket` |
| `SearchFails` | an error of a query or of the transaction, or the end of the process |
| `CreateTicket`, `CreateAssigned`, `AutoAssign`, `AssignTicket`, `SetAvailability`, `DayPasses` | the services of the same names, and midnight |

`given`, `steady`, `missed`, `excused` are history variables. Assumed:
`DATABASE_READ_URL` is unset, so reads see what is written; an agent's limits
(`maxTicketsPerDay`, `maxTicketsPerWeek`) are written by no code and keep their
defaults. Ties are broken by the age of the membership in the code and left open
here, which allows more.

### AuthSessions (`modules/auth`, `middleware/auth.middleware.js`)

| Model | Code |
|---|---|
| `Grants`, `iat`, `root` | an access token with its `iat` and the refresh token handed out with it; `root` (history) is the login it descends from |
| `live`, `blacklisted` | rows of `RefreshToken` and `TokenBlacklist` |
| `issuedAt`, `cached` | `User.tokenIssuedAt`, and the copy of it in the user's Redis entry, where it is a string |
| `Refresh`, `UserFromCache` or `UserFromDatabase` and `FillCache`, `Rotate`, `Sign`, `Store` | `refreshAccessToken` await by await: `findRefreshToken`, `findUserById` with `cacheUser`, `deleteRefreshToken`, `issueTokens` |
| `Login` | `loginUser`: `findUserByEmail`, which reads the database and caches, then `issueTokens` |
| `Authenticate`, `Accept`, `Refuse` | `authenticate`; every route behind it is the same up to there, and one of them is logout-all |
| `Revoke`, `Refill`, `Sweep` | `logoutAllDevices`: the time is taken, written to the database, to the cache, then the refresh tokens go |
| `Logout`, `Drop` | `logoutUser`, which does not authenticate |
| `Fail` | a query fails (P2025 of a missing row included) or the process ends |

The user has registered (`Init`) and is not deleted: `softDeleteUser` has no caller.
Times are seconds, which is what the code compares. `revoked`, `doomed` and `ended`
are history variables. Left out: the end of an access token's 15 minutes, after which
`jwt.verify` refuses it; the Redis copy of the blacklist, whose rows nothing removes;
passwords and the permissions in a token. `DATABASE_READ_URL` is unset, as above.

### TicketActivity, NotificationDelivery, TicketEvents (`modules/tickets`, `events`, `modules/notifications`)

| Model | Code |
|---|---|
| `items`, `author`, `assignee` | rows of `TicketComment`, `TicketAttachment`, `TicketTag`; `Ticket.assignedToId` |
| `request` | a request in a service of `ticket.service.js`: about to read the item (`check`), to write, to emit |
| `AddComment` ... `UpdateTicket` | the services of these names up to the item, on the ticket as first read |
| `Check`, `Write`, `Emit`, `RequestFails` | the read of the item, the write (unique key and missing row included), `emitTicketEvent`, an error |
| `event`, `logging` | a payload on the bus; whether `createActivityLogForEvent` has run for it |
| `step`, `recipients`, `rows` | the handler of an event in `createTicketEventNotificationService`, and the rows of `Notification` |
| `Resolve`, `Filter`, `CreateRows`, `Enqueue` | its four awaits; the two queries of `Resolve` are one, as roles do not change here |
| `job`, `recorded` | the BullMQ job with failed attempts and stalls; rows of `AIProcessingFailure` |
| `ServerDies`, `WorkerDies` | the two processes: one takes requests and handlers with it, the other's jobs stall |

`TicketEvents` composes the other two: `Emit` is joined with `Notify`, `ServerDies` with
`LoseHandlers`, and every other step of the ticket goes on under the handlers.
`unlogged`, `watched`, `wished`, `steady` are history variables. Left out: texts, files and
internal comments; reading and marking notifications; the email and push channels, which
do nothing; the sockets, which the worker process does not have (section 6). The
preferences are two: notifications of these types at all, and of one's own actions.

### OrganizationAccess (`modules/organization`, with `auth.repo.js` and `ticket.repo.js`)

| Model | Code |
|---|---|
| `org`, `role`, `custom` | the organization, the roles of its memberships, one custom role, in the database |
| `cached`, `snapshot`, `token` | `org:membership:<org>:user:<user>` and `auth:user:scope:<user>` in Redis; the permissions in a user's access token |
| `req` | a request: what it asks for, the membership it was admitted with, what it read last, the next await |
| `CallOrganization`, `MembershipFromCache` or `MembershipFromDatabase` and `CacheMembership`, `WithMembership` | `requireOrganizationAccess` and its siblings: the membership of the actor, then of the member it is about |
| `MayInvite`, `MayUpdate`, `MayEdit`, `MayDrop` | `assertCanInviteRole`, `assertCanUpdateRole`, `updateRoleService`, `deleteRoleService` |
| `GiveRole` ... `DeleteOrgRole` | the writes, each followed by the calls that tell the caches (`CacheNewRole`, `ReadMembers`, `DropSnapshots`, `DropMember`, `PurgeMemberships`) |
| `CreateOrganization`, `CacheOwner`, `DropOwner`, `CommitOwner`, `RollBackOwner` | `createOrganization`: the owner's caches are told inside the transaction |
| `Login`, `CallTickets`, `SnapshotFromCache`, ... | who reads snapshots and memberships without writing memberships |

`excused` (why an entry may be out of date) and `founder` are history. Redis may fail any
call; a crash of the gateway leaves the caches as Redis failing from then on would, so it
has no action of its own. Left out: the role AGENT, which differs from MEMBER in ticket
permissions only; names and other fields; routes that only read. Custom roles are stored by
other means (`StoreCustomRole`), as creating one throws in this code (section 6).
`DATABASE_READ_URL` is unset.

### ServiceConnections, GatewayProcess (`config`, `worker.js`, `server.js`)

| Model | Code |
|---|---|
| `breaker`, `CanExecute`, `RecordSuccess`, `RecordFailure` | `createCircuitBreaker` of `redis.config.js` and of `database.config.js`, which are the same |
| `link`, `retries`, `registry`, `Build`, `Lose`, `Connect`, `Disconnected` | `createRedisClient`, its `retryStrategy`, the registry with MAX_CONNECTIONS, the client's events |
| `task`, `Call`, `Pipeline`, `CommandReturns`, `CommandRejected`, `QueryReturns`, `QueryFails` | jobs or HTTP requests and their calls: a command waits in its client, a query fails when the database is down and waits when it is slow |
| `ConnectDatabase` ... `Listen` | `connectWithRetry`, `connectRedis`, `startWorkers`, `listen` |
| `Signal`, `CloseWorker`, `StopTimesOut`, `WorkersStopped`, `Drained`, `DestroySockets`, `CloseWebsocketGateway`, `DisconnectDatabases`, `QuitRedis`, `Finish`, `ForceExit` | `gracefulShutdown` of either process, stage by stage |

A failure count matters up to the threshold and a time up to its limit, so no more is kept.
Start and shutdown are two chains that do not stop each other, as in the code. Left out:
metrics, tracing, health checks, the choice between read and write database, and the cron,
which has nothing to lose.

### ConversationState, RateLimiter, WidgetSessions, TicketMemory, ChatbotConversations (chatbot `widget`, `conversation`, `memory`, `services/chat_service.py`, `rag/pipeline.py`)

| Model | Code |
|---|---|
| `conv`, `update`, `ReadState`, `WriteState`, `AdvanceStage` | `conv:state:<org>:<id>`; `update()` between its two awaits; `_advance_stage` |
| `window`, `check`, `Count`, `Record`, `FailOpen`, `Age` | the sorted sets of `is_allowed`, its two pipelines for each key, the exception that allows, the clock |
| `session`, `visit`, `Load` ... `WriteMessages` | `session:messages:<id>`; `WidgetSessionService.handle` await by await: load, decide, update the state, escalate or append message and reply |
| `tickets`, `CreateTicket`, `TicketFails`, `ClearSession` | `escalate_widget_session` |
| `memory`, `talk`, `Stream`, `AddMessage`, `Measure`, `ReadAll`, `Replace` | `memory:messages:<org>:<ticket>`; `RAGPipeline.stream` and `maybe_summarize` |
| `Chat`, `UpdateState` | `ChatService.handle_message`, which writes the state and no memory |
| `Abandon`, `Expire...` | a cancelled request or a dead process; the keys' lives |

These share no key but the conversation state, so a behaviour of `ChatbotConversations` is
about one part: a limiter, a session, the plain turns or the streamed turns of a ticket.
`alone`, `kept`, `behind`, `heard`, `raced`, `forgotten` are history variables. The
detector, the templates, the FAQ and the agent are choices among their outcomes. The
gateway has no route that creates tickets for the chatbot (section 6): what the code does
with its answer is modelled for every answer. Left out: the session context, which is stored
and read and used for nothing; entity and intent histories, which the same write adds to;
requests of the same microsecond, whose entries in a window are one.

## 4. What the runs show

| Run | Instance | Shows |
|---|---|---|
| `bridge` | 3 jobs, 2 slots, 2 attempts, thresholds 2/2, 2 crashes, 1 stall | breaker counters agree with its state; attempts and stalls count the requests sent; delayed jobs wake into the probe; opening and closing need unbroken runs; every job settles; JobService is implemented |
| `agent` | 2 runs, 3 steps, 2 calls, 1 retry | LLM calls and tool executions are bounded, every run returns |
| `scraper` | 1 page, 2 versions, 1 request, 2 attempts, 2 bridge slots | a hash is recorded only after the hand-over, STALE only after this row's deletion was asked for; a page at rest has vectors of what was handed over, in one copy unless calls overlapped |
| `scraper_stale` | 1 version, month-old rows | violated: STALE rows are re-marked each day and never purged |
| `assign` | 2 agents, 2 requests, limits 2 and 3, 3 days with a Monday, 4 searches | limits overshot by less than the number of requests; balance; "nobody" is true of each agent at some moment; tickets get an agent unless there is a reason |
| `auth` | 1 user, 2 grants, 2 requests, 2 seconds | one refresh token per login whatever rotates at once; a login that was logged out gets none again; a revoked access token passes only with a user cached before the first logout-all, and in the end not at all |
| `auth_later` | the same | violated: a token issued after `tokenIssuedAt` is refused when the user comes from the cache |
| `activity` | 1 ticket, 2 users, 2 requests, 2 events, one comment, attachment and tag | the activity log tells the items of the ticket unless an activity was lost |
| `notices` | 3 users (creator, staff, a member who may be assigned), 1 event, 2 attempts, 1 stall; the creator changes preferences | only watchers who wished it are notified, steady ones are; no job without rows; every job ends |
| `access` | 2 users of whom the first founds the organization, 2 requests, 3 writes, a custom role of level 50 that is edited to 80 | nobody but the owner reaches the owner's level; a cached membership or snapshot is out of date only for a named reason; caches and tokens come to agree with the database |
| `process` | worker and server process; the cache's Redis client and a worker's, one database, 2 tasks, threshold 2, 1 trouble, timeouts 1/1/2 | breakers keep count of late outcomes; a process exits with 0 only if it waited for its jobs; calls and refusals end; a process asked to stop exits |
| `chat` | 3 turns or requests, 2 at a time, 1 failing call; limits 2 and 1; sessions of 4 messages; summaries from 4 entries on, keeping 2 | windows overshoot by less than the concurrency; turns that were alone stay whole or go into one ticket; the memory tells what was said but for two named ways; stages and turn counts go forward but for overlapping updates and failed reads |

Why the bounds are enough: each is above the smallest instance in which the
interesting case happens. The bridge needs two slots for answers in another state,
three jobs for one to wait while two decide, two crashes to use up the stalls.
Two runs suffice for the shared count, as a run sees only the count. The scraper's two
versions and two slots allow re-scrapes and overlapping bridge jobs and late calls of the
same or different content; `CalmBound` keeps the search from following two bridge jobs at one
time while a cleanup runs or after a deletion, where QuietPageIsEmbedded is silent and the
other properties do not look at the bridge (without this bound the same instance, 8 million
states, passes too, in four minutes of four cores; the theorems need no bound). In `assign` the limits are tight (an agent reaches limit + requests - 1), the
week changes on day 2, and rows of the first day are old by then. In `auth` a second
grant is the rotation or the second login, two requests are the rotation and the
logout-all or the two rotations, and the second second is the first a token can be older
in; the inductive invariant was also checked with three grants and with three seconds.
In `activity` the second request is the one that passes the same check, the second event the
one whose activity is written first. In `notices` handlers of different events share nothing
but the ticket and the preferences, which change under one handler as under two.
In `access` the second request is the one that changes what the first has read, three writes
are the creation and two of invitation, promotion, edit, deletions: a member comes and its
membership changes, through its role or (past ADMIN) through the custom role. In `process` two tasks are the call that comes
back late and the one that closed or opened the breaker meanwhile; one trouble is an outage
at any moment, and the timeouts are such that either can come first. In `chat` the third
turn is the one after two that overlapped, the third message pair pushes the first out of a
session, and the fifth entry makes a summary of a summary; plain turns are not bounded and
go through all stages.
Bounds of the model that are not in the code are named: MaxCrashes, Slots, Ages, MaxDay,
CalmBound, MaxSearches, Grants, MaxNow, Events, Comments, Attachments, Choosers, Founders, Clients,
Customs, Given, Edits, Others, MaxWrites, MaxTroubles, MaxTurns, and MaxCount, up to which turns
are counted because nothing compares them with more. Symmetry is used in `scraper`, `activity`
and `chat`, which check safety only.

Fairness. Bridge: the clock, a free slot taking a waiting job, BullMQ's promotion and
stalled check, and the end of each request (`AbortSignal.timeout`); nothing makes a
request succeed or a producer enqueue. Agent: awaits end (client timeouts, sleeps);
nothing makes a run start, an LLM answer or a tool work. Scraper: requests, worker,
bridge and cron proceed, and the cleanup's calls do not fail every time (strong
fairness) - needed for the counterexample to mean something, since it shows a row that
is never purged although everything works. Assignment: queries and transactions
are answered or fail; nothing makes anyone ask for one. Sessions: a request's queries
are answered or fail, and a cached user without `tokenIssuedAt` expires: nothing
renews that entry for ever once the database has a time (a hit does not extend it).
Notifications: the worker process takes jobs and its queries are answered or fail;
nothing makes a handler run or a request go on. Access: requests go on, cached memberships,
snapshots and tokens expire; nothing makes anyone call. Process: timers fire, Redis clients
connect or give up, calls are answered if the server can, tasks end; servers need not come
back. Conversations: none, the run checks safety only.

## 5. What is proved

For every value of the constants, under the named assumptions (`BridgeAssumption`
and the like: limits are natural numbers, the set of requests is finite).

**ChatbotBridge_proofs.** Type correctness; BreakerConsistent, BudgetSpentOnCalls,
WakesIntoProbe as invariants; TransitionsNeedRuns as an action property; and
ImplementsJobService, the refinement. None of the invariants is inductive alone:
that a job fails only with its budget spent needs the accounting of requests per job
state, that the breaker closes only after an unbroken run needs the counters tied to
the history of outcomes, that a delayed job wakes in time needs its delay compared to
the window it was told of. `IInv` is their conjunction with these ties.

**ChatbotService_proofs, the agent runs.** Type correctness; LlmCallsBounded, ReturnsFinalDecision,
AloneWithinBudget, ExecutionsPerStep. `IInv` relates LLM calls to steps by the
place the run is at, and the shared count to the executions of a run that has been
alone.

**AutoAssignment_proofs.** Type correctness; LimitsHeld and Balanced as invariants,
NobodyMeansAllMissed as an action property. The argument: a request that has read the
workloads and saw agent a below its limit (a *taker* of a) holds a claim to one more
assignment. Assignments plus claims stay within limit + N - 1: a transaction turns a
claim into an assignment, and a request that reads a row at the limit becomes no taker;
below the limit, N takers at most cannot exceed it. The same for the week, and, with
"saw a no more loaded than b", for balance. The step that needs care is that a
request about to commit really is a taker of the agent it chose (`ClaimInv`), which
rests on rows keeping their date (`SawInv`) and their two counters being equal
(`RowInv`). `MissInv` carries what a search has seen of agents that were away or full.

**AuthSessions_proofs.** Type correctness; ChainsDoNotFork and EndedStayEnded as
invariants, RevokedNeedsOldUser as an action property. The tokens of a login form a
chain of which one is in the database or one rotation is between two; a rotation that
finds no row stops, so nothing forks or comes back. For access tokens the invariant
must look at every logout-all that has taken its time and not written it yet: a token
counts as revoked only when it is older than all of them (`RevokedInv`). Then a request
that misses the cache always reads a `tokenIssuedAt` after its token (`DoomedInv`), and
only a cached user can be older.

**TicketEvents_proofs, the ticket.** Type correctness; LogTellsItems as an invariant. A change of an
item is on its way to the log in exactly one place: the request that has written it and not
emitted, the event, or the log itself. The numbers of additions and removals over the
three places differ by one if the ticket has the item and not at all otherwise
(`CountInv`), for items of which nothing was lost; a write adds one where the key or the
row allows it, emitting moves one, recording keeps it.

**TicketEvents_proofs, its events.** Type correctness; OnlyWatchersNotified, SteadyWatchersNotified and
ToldHaveRows as invariants of the composition. The recipients a handler has found lie
between those who watched and wished all the time and those who ever did; the invariant
`Knows` says at each step of the handler how far it has got with that, and is kept by
changes of the ticket and of preferences because both bounds move with them.
ActivityImplemented: every step of the composition is one of `TicketActivity` or leaves the
ticket alone, so notifications neither enable nor forbid a request anything, and
LogTellsItems carries over (ComposedLogCorrect).

**OrganizationAccess_proofs.** Type correctness; OwnerOutranks and StaleNeedsRace as
invariants. For the owner: every copy of the founder's membership that exists anywhere, in
the cache, in a request that has read it, on its way to either, says level 100 (`CacheInv`,
`ReqInv`), so no request passes its check on the founder, and no role that is given has
level 100; what an actor's stale level allows is below it. `CreatorInv` and `OrgInv` are about
the time before the commit. For staleness the invariant says at each step of a change
whom the request still owes what (`OwesMembership`, `OwesSnapshot`).

**GatewayProcess_proofs.** Type correctness; BreakerAgrees and AbandonedHadTime as invariants. A breaker
is kept by each of its operations whatever state it is in. For the jobs, `JobsInv` says
at which stage of the shutdown which workers can still have some: none is closing behind
the stage that waits for them unless its stop timed out.

**ScrapedPages_proofs.** Type correctness; CompletedWasHandedOver, StaleWasHandedOver and
QuietPageIsEmbedded as invariants. The version a row is about to be given is followed from
the fetch to the row (`ScrapeInv`): the row is written after the hand-over, so nothing in
between needs to be undone when a call fails. For STALE the cleanup has to remember whether the
row it looked at is still the one it marks, and that it has asked for its deletion
(`CleanupInv`). For the vectors, `BridgeInv` says that all that is in a bridge job or in the
store was handed over, and that, as long as nothing was deleted or came to nothing, something
handed over is still in one of the two. `CopiesInv` counts: unless calls overlapped, at most
one is between its delete and its upsert, then with an empty store, so its upsert leaves one
copy. The history `overlapped` is what makes this inductive: it is set when a call deletes
while another has deleted and not yet stored, and reset only by a delete nobody else is
waiting behind.

**ChatbotService_proofs, the conversations.** Type correctness; WindowsHold, TurnsToldOnce and
MemoryTellsAll as invariants, StageAdvances as an action property. The four parts share
the conversation state only, and each keeps an invariant of its own:

- State (`StateInv`): an update that is not `behind` holds what is stored unless that has
  expired, so what it writes goes forward; nothing else but expiry changes the state.
- Limiter (`LimiterInv`): a request that was counted below the limit and has not recorded
  itself holds a claim to one more entry; entries plus claims stay below limit + N, as for
  the agents' limits above.
- Memory (`MemoryInv`): the list a summary is about to replace the memory by tells all that was
  heard, but for what others said since it was read (`raced`) and what a summary of
  summaries left out (`forgotten`).
- Session (`SessionInv`): a turn that counts as alone has nobody else inside (`AloneInv`), so
  what it loaded is what the session holds. A turn found anywhere has begun (`BegunInv`). A
  ticket is written once, before its session is cleared (`TicketInv`); the turns it tells are
  from then on in no session, no list and no other turn's hands (`SealInv`), so a later
  ticket cannot tell them again. What the session has had to keep is whole in it and in
  every list that may replace it, and loaded by all who may clear it (`KeptInv`). A cap of two
  messages or more never separates the message of a turn alone from its reply (`ReplyInv`).

TurnsToldOnce and MemoryTellsAll speak of stored data only and say nothing of the requests
that have read it and will write, which is why they need these. The assumptions are those of
`ConversationsAssumption`: finitely many requests, limits of at least 1 (30 and 200,
`rate_limiter.py:35-36`) and a cap of at least 2 messages (it is 40).
TLC checked the inductive invariants of the scraper and of the conversations on the instances
of their runs before they were proved.

The other type invariants are proved and not among the properties of their runs;
ReturnsFinalDecision is proved only. LogTellsItems is proved of `TicketActivity` and of the
composition.

Only model-checked is liveness: JobsSettle of the bridge and of the notifications, RunsReturn,
TicketsGetAgents, RevokedTokensDie, AccessSettles, CallsEnd, RefusalsEnd, ExitsOnceAsked. It
rests on fairness and ENABLED and is out of TLAPS's reach.

## 6. Disagreements met

With a run: the purge of STALE rows (`scraper.cleanup.cron.js:10-11`), and the acceptance of
tokens issued after `tokenIssuedAt` (`auth.middleware.test.js:113`: the test's user has a
Date, the cached user a string, on which `getTime` throws).

Without a run of their own:

- "One probe" (`chatbot.circuit.js:21-22`): a half-open breaker of the bridge admits every job
  that comes.
- The call limit is said to be "for this run" (`executor.py:274`); a run is refused for the
  calls of another.
- "Reset stale daily/weekly counters" (`docs/uml/gallery.md:697-698`): `lastDailyReset` is written
  once, with the row (`ticket.repo.js:311-318`), and `getEffectiveWorkload`
  (`ticket.autoAssign.js:12-28`) counts only rows of today. From the second day of a row on, the
  daily limit does not bind; the weekly one follows a week later.
- Force-invalidate deletes the row and enqueues again under a job id BullMQ still keeps:
  the add is ignored, the row stays PENDING (`scraper.routes.js:149`).
- A scrape that stalls out leaves its row PROCESSING, although `scraper.worker.js:14-15`
  says FAILED; later requests answer "processing" for ever.
- An unchanged page is set COMPLETED without a look at its vectors, which a failed bridge
  job may have left out (`schema.prisma:577` reads COMPLETED as embedded).
- Re-indexing is called idempotent (`document_service.py:59`), but the chunks get new ids each
  time: two bridge jobs of one page, or a job and its call that timed out after 60 s, may both
  delete and then both store, and leave every chunk twice, of one version or of two
  (`scraper.service.js:309-310`). This is the case QuietPageIsEmbedded names (`overlapped`).
- A call that times out for the last time goes on without a job: it may still delete the
  page's chunks and fail before it stores new ones, while the row stays COMPLETED.
- "don't hard-delete until vectors are gone" (`scraper.service.js:375`): the cleanup does not look
  at whether the deletion was queued. A server without a queue answers `{queued: false}`
  (`chatbot.bridge.queue.js:168-172`), and `POST /cleanup/:orgId` marks the rows STALE all the same,
  with nobody to delete the vectors. StaleWasHandedOver therefore says "handed over or refused".
- A server without a queue leaves a requested page PENDING with a warm cache key
  (`scraper.queue.js`, `scraper.service.js:195-205`): nothing scrapes it.
- Retries count as calls but are not refused: a run executes up to limit + retries tools;
  and up to MAX_AGENT_STEPS + 1 decisions are made (`agent.py:70`).
- The rate limiter's comments say "atomic" and "random suffix" (`rate_limiter.py:120`, `138-140`);
  the code counts, then records, and two requests of the same microsecond count once. A request
  refused for its address still takes a place in the organization's window.
- `logoutUser` swallows every error of the blacklisting, also those of the database, as
  "Token already expired or invalid" (`auth.service.js:141-143`): the token lives on.
- A login or rotation under way when logout-all deletes the refresh tokens stores its
  token afterwards, and keeps its session; access tokens of the very second of a
  logout-all stay valid; of two overlapping logout-alls the later write may hold the
  earlier time.
- An error of the search or of its transaction fails the creation of a ticket that is stored
  and announced (`ticket.service.js:155-163`); nothing searches for an agent again.
- Auto-assignment sets a closed ticket IN_PROGRESS again, overwrites an assignee set
  meanwhile, and emits no `ticket.assigned`.
- `docs/uml/gallery.md:655-676` draws a ticket life cycle with unassignment and guarded
  status changes; the code has no unassignment and allows every change.
- "Real-time WebSocket (Socket.IO) fan-out" (`README.md:18`): delivery jobs run in the
  worker process (`worker.js:43-60`), where `socket.gateway.js` is never initialized
  (`server.js:49` is the only call); `emitNotificationToUser` returns false there, the job
  is done and reports `delivered`, and no browser is told.
- An assignment by `PATCH /tickets/:id` emits no `ticket.assigned`: it is not logged as an
  assignment and notifies nobody.
- Of two requests that add the same tag at once, the second fails at the unique key and not
  with the 409 of `ticket.service.js:926-930`.
- A delivery job that stalls too often fails without an `AIProcessingFailure`: its last
  failure is not the final attempt (`notification.worker.js:72-86`). One without recipients
  is enqueued all the same.
- `org.service.js:140` and `174` call `getOrgRoleByName`, which the module does not import.
- `ticket.service.js:597-604` emits the comment event without a comment id, at which the AI
  automation's handler returns.
- `app.js:118` reads `redisStatus.connected`, which `redisHealthCheck` (`redis.config.js:443`) does
  not return: `/health/ready` answers 503 whatever Redis does.
- A Redis client whose retries are used up has ended; it stays memoised and no other is
  built. Commands wait in its offline queue before that, and so does the QUIT of a shutdown,
  which then ends by force with 1.
- A `pipeline()` passes the breaker and is not recorded by it.
- A signal during the start: workers are started after the shutdown has looked for them, and
  a start that fails during a shutdown exits with 1. A worker that MAX_CONNECTIONS refuses is
  silently skipped.
- `closeWebsocketGateway` closes an HTTP server that is closed already and may fail, upon which the
  shutdown exits with 1 and disconnects nothing.
- The owner's caches are told inside the transaction that creates the organization
  (`org.repo.js:167-197`): a roll-back leaves what they were told.
- The chatbot's escalation posts to a route the gateway does not have ("to be implemented",
  `agent/gateway.py:9-21`): no widget escalation makes a ticket, yet the reply says that one
  was created (`session_service.py:138-142`).
- An agent's escalation that gets no ticket is neither in the session nor in a ticket
  (`session_service.py:222`).
- "Everything older is distilled" (`summarizer.py:13`) leaves out earlier summaries
  (`summarizer.py:112`), and what others write while a summary is made is replaced with the rest.
- "Never move backward" (`conversation_state.py:257-258`): of two overlapping updates the later write
  wins, and after a failed read the conversation starts over, for good.
- `_build_rag_context` calls `reranker.rerank(augmented_query, docs)` without the organization; the
  error is caught, and the page's context is never used.
- `ChatService.handle_message` reads and writes no ticket memory; `RAGPipeline.run`, which did, has no
  caller.

## 7. What is not modelled

Listed in `PROJECT.json` with the reason. AI automation: its handler returns before it reads
anything, because its event carries no comment id (section 6). The migration of embeddings is a
script run by hand. AI core, configuration, augmentation and analytics, and the internal request
authentication answer requests out of what they are given; a cache by content and settings
written whole are nothing two steps could leave in disagreement. The rest is I/O, parsing, ranking or
rendering around external services: scraping's HTML and browser handling, retrieval, LLM and
vector clients, templates, the widget's user interface, monitoring.
