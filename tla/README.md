# Ragent in TLA+

Specifications of Ragent-Py: a Python backend (`src/src/ragent_python`: FastAPI,
an ingestion worker, retrieval, chat) and a Next.js server and UI (`src/web`, the
"web" side) that keeps the platform state and proxies chats to Python. The
modules are translated from the source; PROJECT.json maps every definition to
the lines it stands for, lists the hazards of the code with the properties that
cover them, and says which faulty variant of a definition each property catches.

## Inventory

| Component | State | Operations | Interacts through | What is hard | What makes it correct |
|---|---|---|---|---|---|
| Ingestion pipeline (Python) | the `ingestion_tasks` table (SQLite, or a dict), rows held in memory by worker runs, points in Qdrant | create, claim, the stages of `_process_task`, the response of a run | API process and `worker_runner` processes share the SQLite file; HTTP to Qdrant | interleaved processes, whole-row writes, lost answers of Qdrant, crashes between commits | one owner per task, no lost update, finished tasks are final, the corpus shows only complete tasks, tasks are eventually picked |
| Postgres state adapter (web) | blob in memory, `pendingWriteState`, the drain task, one row | read, write/update, flush, close, shutdown hooks | promises of `pg`; the process's signals | coalescing, retries, updates during an await, shutdown | the newest state is always queued, quiet means durable, the row never goes back |
| JSON and SQLite state adapters (web) | one file | read (which seeds), write, update | every repository; other processes on the file | a torn file, two processes, a lock that times out | an update that has returned stays |
| Platform repositories (web) | conversations, messages, traces, tasks, settings, ... in one blob | one read-modify-write per call | the adapters; every route | ids from the clock, order of appended records | no lost record, unique ids, scope filters |
| Chat turn and conversation memory (web) | messages of a conversation, summary, marker of the last summarised message | append user message, plan, generate, append answer, summarise in the background | repositories, the agent loop, `setTimeout` | concurrent turns, a summary written from state read before an await | every message is in the summary or in the context, a pair is never split |
| Chat stream protocol (web route, browser) | NDJSON events in flight, buffers, the shell's message list and refs | emit, proxy, store, render, cancel | streams in two hops, AbortController | streams cut anywhere, cancel and resend, a late answer | the shell shows what is stored, exactly one end of a stream |
| Python chat service and router | what a generator has yielded | route by intent, plan a tool, answer with or without a stream | the model's stream, the reader of the response | a stream that breaks off, buffers flushed at the end | the events of a finished answer are its whole text, one end, in order |
| Agent loop (web) | step and retrieval counters, messages, tool calls | decide, search, call a tool, answer, fall back | model, retrieval and MCP adapters | bounds, failures of every call | it ends within its budget, with an answer |
| MCP runtimes (both) | none but the trace of a call | guard, execute, map the result | the agent loop, the chat service | each failure has its own outcome | exactly one outcome, nothing runs unguarded |
| Module registry (Python) | tool packs, sources, blocks, patterns | register, bootstrap, clear | import time, FastAPI start-up | a bootstrap that fails half-way | bootstrap applies each module once |
| Retrieval (Python) | cached providers, `_collection_ready` | search, fuse, rerank, index | Qdrant, the corpus of finished tasks | ties, missing candidates, stale flags | nothing found is lost, the order is that of the scores |
| LLM adapters (Python) | none | complete, stream, resolve | HTTP | failures in a stream | an error ends the stream once |
| Ingestion mirror (web) | copies of task rows in the platform state | create with fallback, refresh | HTTP to the ingestion backend | lost answers, answers out of order | the mirror does not go back, no duplicate task |
| Sessions and OIDC (web) | cookies, the user repository | login, callback, logout; the guards of pages and APIs | the identity provider, a gateway's headers, a user made up for development | steps out of order; two places that say who a request is from | a session follows only a finished login, a page and its APIs know the same user |
| Administration pages and read models (web) | the lists of an administrator, the form being saved, the resources a page loads | list, create, change, delete, sum up | repositories; other administrators | answers out of order, a circle of parents, ties of timestamps | a resting page shows what it was told of, the tree and the sums leave nothing out |
| E-commerce preview (Python and web) | search results, selection, comparison, the advisor's text | search, compare, ask | Python backend, a local catalogue that steps in | answers out of order, two engines for one promise | the board is that of the selection, every id asked for is accounted for, verdicts are true |
| Web retrieval adapters and tracing | what a turn's searches found, the records of its trace | rewrite a query, plan the bases, ask the service or the local chunks, put the request together, name the nodes | the agent loop, the retrieval service, the trace repository | several searches in one turn, a fallback, answers cut off | nothing found is left out, the report is of the last search, the trace is a tree |
| Evaluation, rendering | none of their own | metrics, views | the above | - | - |

## Modules

| Module | Models |
|---|---|
| `Ingestion` | the ingestion pipeline |
| `IngestionQueue` | what it promises: a queue that hands a task out once and finishes it once |
| `IngestionProofs` | theorems about `Ingestion`: ownership, the queue, the corpus, the responses |
| `MCIngestion` | instances of `Ingestion` |
| `PostgresStorage` | the write-back cache over Postgres |
| `StateStore` | what a platform-state storage promises |
| `PostgresStorageProofs` | theorems about `PostgresStorage` |
| `MCPostgresStorage` | instances of `PostgresStorage` |
| `ConversationTurns` | the turns of one conversation, its memory and the background summariser |
| `ConversationTurnsProofs` | theorems about `ConversationTurns` |
| `MCConversationTurns` | instances of `ConversationTurns` |
| `AgentLoop` | the agent loop inside a turn |
| `AgentLoopProofs` | theorems about `AgentLoop` |
| `MCAgentLoop` | an instance of `AgentLoop` |
| `ChatStream` | a message sent from the chat shell: browser, stream route, producer |
| `IngestionMirror` | ingestion tasks in front of the web server: creation, copies, the page that polls |
| `Workbench` | the three shopping pages |
| `MCBrowser` | the three above, one behaviour about one of them |
| `BrowserProofs` | theorems about the three and their composition |
| `FileStorage` | the JSON and the SQLite adapter |
| `AdminPages` | the lists administrators keep, and the page that shows them |
| `ReadModels` | runs and documents as the read models sum them up |
| `Login` | signing in |
| `RequestGuards` | who a request is from, and what it may reach (extends `Login`, as both are about the session) |
| `HybridSearch` | one search of the Python backend |
| `QdrantCollection` | the collection of the vector index under concurrent calls |
| `McpRuntime` | a plan of tool calls, in Python or in the web server |
| `ModuleRegistry` | registration and bootstrap of the Python modules |
| `PythonAnswer` | the answer of the Python backend to one question: router, resolver, adapters, both lanes |
| `ProductSearch` | search, comparison and verdicts of the shopping preview, on both engines |
| `Grounding` | what the searches of a turn ask for and find, and what of it reaches the model and the trace |
| `MCComponents` | the twelve from `FileStorage` on, one behaviour about one of them |
| `ComponentProofs` | theorems about nine of the twelve |
| `AnswerProofs` | theorems about the other three (`ProductSearch`, `Grounding`, `ReadModels`), and about the twelve together |
| `Selections`, `SequenceLemmas` | the part of a sequence that is in a set, for histories, logs, lists of scores and streams, and what is sorted by keys; and theorems about the former |

Definitions marked `[variant]` are faulty forms of the definition that follows
them. No specification uses them; they exist to show that a property notices
the fault.

### Ingestion

`table` is the SQLite table (or the dict of the memory backend), one row per task
id; a row that does not exist has status "absent". `batch[p]`, `copy[p]` and
`cur[p]` are the locals of a run in process `p`: the candidates it still has to
finish, the task objects it writes from, the one it is inside `_process_task`
with. `pc[p]` is where it is between two commits, `report[p]` its response so
far, `points` the tasks whose chunks are in Qdrant.

Every call of `upsert` is a transaction of its own, so each call of
`_update_task` is one action (`Begin`, `StartParser`, `Chunk`, `Embed`, `RecordIndex`,
`Complete`, `FailParser`, `FailIndex`), and so are the second upsert of a
finished task (`Resave`) and the request to Qdrant (`WriteIndex`). `Claim` is
atomic because the SQLite claim runs in one BEGIN IMMEDIATE transaction. The API
handlers are `async def` without an await, so the API process runs one handler at
a time; hence `Create` needs it idle. An exception out of an upsert ends the run
(`Abort`), a killed process loses its locals (`Crash`); on the memory backend also
the table. A chunked text, its embedding and the results of the stages are
Booleans: no property depends on their content. Timestamps matter for the
order of the claim only, so `createdAt` alone is kept, and ties are allowed.

### PostgresStorage

A blob is the set of mutations applied to the seed. `cache`, `pending`,
`snapshot` and `closed` are the fields and the local of the same names; `drain`
says where `drainPendingWrites` is ("none" when `flushTask` is null). JavaScript
runs to the next await, so `Mutate` includes `scheduleFlush` and, when no task
is running, the head of the loop up to the query it awaits (`Turn`); `Resume`,
`PutBack` and `Retry` are what runs after the await, in the catch block and after
the 250 ms. The database runs the upsert and answers in steps of its own
(`RunUpsert`, `Answer`), or the client gets an error whether or not the upsert
ran (`Reject`). `Start` is the constructor, `Signal` the hook, `Crash` and `Exit`
the end of the process before and after the hook has run. The code that drives
`close()` is left open: any caller may call it once.

With `LateWrites` a statement whose client has gone may run later. Then the row
can go back to an older state (nothing in the upsert prevents it); the runs that
speak of the row set it to FALSE.

### ConversationTurns

`place[m]` is when a message was stored, in milliseconds and as a count (0: not
stored); `Listed` is the order `listByConversationId` returns, which a tie of
milliseconds turns round. `summary` and `marker` are fields of the conversation record, the
summary as the set of the messages that went into it. `pc[t]` is the write or the await before which the
handler of turn `t` is, `route[t]` which handler it is (/api/chat, /api/chat/stream, the Python branch of either, /api/messages), `known[t]` the conversation object it read at the start,
`window[t]` the history it hands to the model, `timer[t]` and `draft[t]` the callback of
its `setTimeout`, `root[t]` the statuses it recorded for the whole turn.

`Arrive` reads the record and the messages and ends at the first await of the agent loop. After it every write
is a step of its own: `Ask` stores the question and calls a model, or goes straight on when the agent loop has an answer
(the state "answering"); `Reply` stores the answer, and in /api/chat sets the timer; `RecordSuccess` writes the stages and the root of the trace.
Before each of them the write may throw (`PlanFails`, `GenerationFails`), the catch block then records the failure,
or throws as well (`RecordFailure`), and the server may die (`Crash`). The TypeScript handlers have no await between the answer and the last record
of the trace (`chat/route.ts:217-340`, `chat/stream/route.ts:405-488`), so another request or callback cannot come between these steps
(`AtWork`), only a failure or a death; the branch that proxies Python's stream stores the answer at `message.completed` and records at
`chat.completed`, and waits in between. The Python branches record a failure only when a `chat.error` event arrives. A stream whose reader has gone records its
success and then, as its last events cannot be sent, its failure. So an answer may be stored whose success is never recorded; `VerdictIsTrue` is about
the other direction, what a record says is so, and about the turn whose caller was told it is complete.

`Summarise` reads the messages when the timer fires but the record as the handler read it, `WriteSummary` writes after the
model has answered. `Crash` ends all handlers and callbacks; what is stored stays,
as with the file adapters. Estimated tokens are given per message (`Size`); the
rounding of `estimateTokens` for joined texts is left out. The six of `slice(-6)` is the
code's; `Budget` and `MinNew` are constants so that small conversations reach them.

### AgentLoop

`stepNumber` is the loop's counter, `attempt` the model that `generateWithFallback` is asking,
`pending` what is left of `result.toolCalls`, `thought` the size of the text next to them;
`rounds`, `steps` and `toolCalls` are fields of `AgentLoopState`, `messages` is
`conversationMessages`. Everything a run works on is its own, so only the answers of models, tools and
the retrieval backend are choices, and what runs between two of them is one action: a call
(`SkipSearch`, `Search`, `CallTool`, `RefuseUnknown`) includes its record, its two messages and, if it is the
decision's last, the trimming, the test of the loop and the forced final step (`Observe`).
`SearchThrows` is the one exception that leaves the loop: the backend fails while the fallback to the
local adapter is switched off. A tool that fails in whatever way is a failed call (`CallTool`). A message is its
kind, the step it belongs to and its size as `estimateMessagesTokens` has it, which is 0 for arguments and
results of tools. The final prompt is not modelled: it is rebuilt from the history and the evidence, and no step depends on it.
`MaxCalls` bounds the calls of a decision; the code has no bound, and the theorems hold for any.

### ChatStream

`handler[s]` is where POST /api/chat/stream is with send `s`, `body[s]` what it has written, `line[s]` whether
the connection is up, `lane` who produces the answer: the handler itself or the Python process behind it
(`Lanes`). The handler stores the question before it asks anybody and the answer when the completed event
passes through; the trace gets its root record (`verdicts[s]`) at the same places as in the code, and none when
the proxy fails. On the other side `call`, `seen` and `told` are the client's reader and the shell; `active`, `shown`,
`status`, `loads` are its conversation, its messages and the requests for messages under way. The Cancel button is part of the
welcome screen only, so a message is never cancelled while it is sent. Python never emits `chat.error`, and a model that fails
in mid-stream ends as a normal answer. What the shell leaves open is named in `raced`: messages of
a conversation that arrive after another was opened, an answer that ends in another conversation than it was sent
to, lists that fail. `RestingViewIsTrue` excepts these races and no others.

### IngestionMirror

`via` is the backend, `remote` the tasks where they are made, `mirror` the copies in the platform state, `madeUp` the finished tasks
the server invents when the older backend fails and the fallback is on. A creation is a request, an answer or none, and the append; a
fetch is answered (`asked`, `fetched`) and stored later, so two fetches of a task may be stored in the other order
(`overlapped`, `stale`). `rows`, `awaited` and `arriving` are the page and the lists it polls. With the older
backend nothing refreshes the copies of a task that nobody opens, so its page may poll for ever. The upload route never asks which backend there is:
in front of Python its task still goes to the older service or is made up (`uploads`, `InOlderService`), has a copy, and is not in Python's list, so `MirrorIsTrue` asks of it
no more than the copy. The end of the polling is
waited for (`BrowserSettles`) where tasks move on.

### Workbench

`bench` is the page (preview, v2, v3), `searches` and `compares` what it has asked for, in the order of asking,
`listed`, `picked`, `cards`, `board` what it shows, `question`, `said`, `advice`, `streams` the advisor. Searches and comparisons are
answered in any order and not aborted; only v3 has a local catalogue to fall back to, and only its
comparisons ask the advisor. `wrongList`, `wrongBoard` and `late` name the races the pages leave open, as `raced` does.

### FileStorage

A blob is the set of mutations applied to the seed, as in `PostgresStorage`. `at[p]` is where process `p` is in a call:
after the look at the file, after the read, with the file open for writing. A process is synchronous, so its call is
interrupted by its death only, and two processes interleave at their file operations. On JSON a write that fails or
is cut off leaves a torn file, which `read` answers with the seed. On SQLite the write transaction holds a lock
(`lockedBy`), which another call finds busy; the first read seeds outside of it. `clashed` records what the JSON file cannot
stand (two calls at once, a write that fails or is cut off) and a seed written over a row.

### AdminPages

One page of one administrator (`page`: six lists that can be changed, the intent tree, four that only refresh) over
`entries`, which other administrators change as well. A handler is one step, its request and its answer are others (`fetches`,
`saves`). Refusals and the scope of each kind of entry follow the repositories. `useApiResource`
does not number its reloads, so an answer may overtake an earlier one: `overtaken`.

### Login

`tab[t]` is where a tab is in its sign-in, through the three redirects; `stateCookie` and `session` are the two cookies, which
the tabs share; `known` the user repository; `discovered` the discovery document, which is cached even when it
came without what is needed. The sign-in may be by the mock form, by the provider, or by both, as in development with a provider configured (`mode`). The session is a signed snapshot of the user, so it does not follow a record that is written
later (`seen`, `edits`). A tenant stands for tenant and organisation.

### RequestGuards

`env`, `directory`, `gateway` and `cookie` are what says who a request is from: the variables of the process, the user
repository, the headers a gateway adds, the cookie (signed, from before cookies were signed, or garbled). The guards of the pages look at the cookie
and then at the user made up for development (`getCurrentUser`), those of the APIs at the headers first (`getRequestUser`). `aim` is the page the browser
was told to open, `site` where the guards have sent it since, `hops` how often, `viewer` whom the page was served to, `apiReply` the last answer to a call of the page.
Meanwhile the cookie may change in another tab, or a user in the repository (`Swap`); an answer from before is then forgotten, as it says nothing
of the state after. The signature of a cookie is not computed: the code accepts an unsigned one as well.

### HybridSearch, QdrantCollection

`HybridSearch` is one search: the list of the vector index (or none), the list by keywords, their fusion by reciprocal
rank, the reranker on the first `Candidates`, which may answer for some of them only, and the two simpler providers
if nothing was found. A reranking service that scores one document twice is left out: the code would list the document twice. Fused and blended scores are compared as exact fractions: `CommonUnit` is a number that the ranks with their constant
divide, so that each share of a rank is a whole number of them (the proofs ask for nothing but that). `QdrantCollection` is the flag
`_collection_ready`, one per process, under calls that overlap: it is set once and never reset, so a collection deleted
later is not made again; two calls may both find it missing, and a creation may be done and its answer lost (`CreationUnanswered`). `cause[c]` collects what explains a failure.

### McpRuntime, ModuleRegistry

`McpRuntime`: the calls of `plan`, one after another, each with its entries in `log` and its stages; `owner[r]` changes while
a call runs. The guards differ and are modelled as they are: Python asks for the role only and filters by the tenant and
organisation an actor has, the web server demands a tenant, and an organisation for administrators' tools. Python reports the states on the way
too, the web server the final ones. `ModuleRegistry`: registration and a bootstrap that applies the contributions of a module (`offer[m]`) one by
one; a refused one leaves the earlier ones behind, and the next lookup tries again.

### ReadModels

The state is the appended records of runs and the upserted tasks; the stages the Python service reports come in one step, as they are appended in a row; runs and documents are operators over it, read
for every state. What the code sorts is sorted by a key (`Sorted`), a sequence of numbers whose last is the place in the list. The comparators of the repositories never answer 0, so a tie of timestamps is listed in reverse. The status of a run is
the worst of its records: that of an ingestion stays what it was at its creation. Times are ordered as the code writes them (an update is not earlier than
the creation, an end not earlier than the start).

### PythonAnswer

One question per behaviour: `question` is chosen with what was found for it, `step` is the next yield of the generator, `model`
what the model says piece by piece and how it ends, `buffer`, `closed`, `finish` the locals of the bridge, `wire` the events sent. Events
yielded with nothing in between are one step; the invariant speaks of every prefix, so a reader who leaves between
any two is covered. A tool call is told of once for every state it was in, queued and running before its outcome (`CallRecords`). A text cut off in the middle of a stream is kept, that of a call without a stream is not; an exception other than the
provider's error breaks the response off. The resolver tries the explicit provider or the chain, by
what is configured; its answer is "mock" in the last resort.

### ProductSearch

`asked` is a search or a comparison, `reply` its answer by one of the two engines, `verdicts` what the third workbench says of two
of the cards. The differences of the engines are kept: Python counts the cards it sends and cuts after resolving, the browser counts all it
found, cuts before resolving, ignores memory and year, and keeps products no word matches. Python's table drops a row that
no product has, the browser's marks it; the local recommendation speaks of the first product of its list; ids reach the server without repeats, at most six. A weight is
read back from the text written for people, without its unit, so a verdict on weights across "g" and "kg" is wrong: `VerdictsAreTrue` excepts it. Every product of `products.json` has a weight (`CatalogAssumption`), so a card without one is left out.

### Grounding

One turn of the agent loop: `setup` is what it begins with and does not change (history, visible bases, intents, settings), `looked` what each search did, `evidence`
and `toolUses` what the loop accumulates, `finalPlans` and `execution` the plan of the last search and who executed the last that looked. A text is
the sequence of its words, with `Gap` for the mark that separates two questions (a line break does not: it is a space by then). A search (`SearchKnowledge`) is one step: the rewritten query, the plan, the service or the
local chunks, and the stage recorded for few or poor results, which carries no id of the turn and so becomes a run of its own (`strays`).
`Prepare` puts the two requests together, that of the loop and that of the route, and the records of the turn with their nodes and parents. `AgentLoop` says when the loop searches,
with its bounds; here any search and any call may come next. What the service answers is taken as it is, in whatever order, under the name it gives itself or else the adapter's (`SourceOf`);
an answer whose chunks are no list throws in the loop, also with the fallback on (`RetrievalThrows`).
The record of the request stays empty in the code (`agent-loop.ts:659` stores `retrievalRequest: null`), so the counts the
administrator's read model takes from it are 0 for every turn; they are not modelled.

## Runs

| Run | Shows |
|---|---|
| `ingestion` | 2 tasks, API and one runner, both may fail: `SingleOwner`, `CorpusIsComplete`, `PointsHaveChunks`, `ReportIsTrue`, `TerminalIsFinal`, and the refinement `ImplementsQueue` |
| `ingestion_live` | `EventuallyPicked`, `EventuallySettled` |
| `postgres` | `QuietMeansDurable`, `CloseKeepsAll`, `RowNeverGoesBack`, the refinement `ImplementsStateStore`, and `WriteBehind` and `HookFlushResolves` under fairness |
| `postgres_late` | `TaskInv`, what holds of the task with late statements |
| `postgres_exit` | violated: SIGTERM and SIGINT drain the queue before the process exits, as the README says; they start a flush nothing waits for |
| `turns` | every route, overlapping turns and summarisers, writes that fail, a server that dies between them: `NothingSkipped`, `VerdictIsTrue` |
| `turns_in_turn` | one request at a time: `PairsKept`, `ContextIsWhole` |
| `turns_tie` | violated: a question and its answer are one unit, as a comment says; two messages in one millisecond split them |
| `turns_merge` | violated: a summary is merged into the one there is; a slow summariser replaces a newer summary |
| `agent` | `LastResultIsShown`, `EndsWithAnswer`, and `Terminates` under fairness |
| `browser` | the chat shell, the ingestion page and the workbenches: `SendsAreHonest`, `RestingViewIsTrue`, `MirrorIsTrue`, `WorkbenchIsTrue`, and `BrowserSettles` under fairness |
| `components` | `AcknowledgedStays` (files), `RestingPageIsFresh` and `TreeIsComplete` (administration), `AccessIsTrue` (sign-ins and guards), `SearchIsSound`, `CollectionFailureHasCause`, `EachCallEndsOnce` (tool calls), `BootstrappedAreWhole` (modules), `ReadModelsAreTrue`, `AnswersAreWhole`, `ShoppingIsTrue`, `GroundingIsTrue`, and the types |

`browser` and `components` each hold several components that share nothing: a variable `part`, chosen at the
start, says which of them a behaviour is about, and the others stay in one initial state. The states of such
a run are the sum of those of its components, not their product, and each behaviour is one of the component's own
specification.

The type invariants and the inductive invariants (`IInv`) of `Ingestion`, `PostgresStorage`, `ConversationTurns` and
`AgentLoop`, and `CopyIsCurrent`, `HistoryGrows`, `NoSpin`, `LatestIsQueued`, `ToolIdsDiffer`, `PairsAreWhole`, `StepsInOrder` and `BrowserTypesOK` are proved and are in no run.

The memory backend of the ingestion has no run: its table dies with the process
(`Crash`); `InductiveInvariant` and `CorpusIsWhole` are proved for both backends. Also left
without a run: two overlapping requests split a pair as a tie does; the fallback to six messages
has no bound in tokens; between half of the budget and all of it old messages are neither in the
history nor in a summary.

### Bounds

Two tasks and two processes suffice for every pair of owners, for a
batch of two (one task after another, one stranded) and for an order among
pending tasks; the four plans take every branch of `_process_task`; limits 0, 1
and 2 are none, some and all; two clock values give a tie and an order; ids are
any subset of the tasks, the ones that do not exist included. Three mutations give
one in the row, one being written and one waiting, which is as many blobs as the
adapter can hold apart. `PostgresLate` uses the symmetry of the
mutations; the runs with temporal properties do not. Three turns of two messages give three summarisers with records of three ages
at once (`turns`, where two new messages are worth a summary and one token is the budget, so that each
turn may summarise, and the turns take the five handlers in every combination); four turns give four new messages, the code's number, and a budget of six is exceeded
by the fourth turn, half of it filled by the second (`turns_in_turn`, with /api/chat, the stream of Python and posted messages: the other two
handlers store in the same two places). The clock
moves by 1 from a message to the next, or by 0 or 1 where ties matter. The agent loop has three decisions of up to two calls, so that there is a decision
after a trimming, one search, so that the limit is met within a decision and between two, and two models; the opening
messages fill the budget, so that one long thought makes the loop trim to its minimum and none leaves
it alone. `MaxTime` bounds the
clock of the ingestion, and each task is created and each mutation made once, which bounds the
rest.

In `browser`: two conversations and two sends (a late answer and a new one), three moves of the user or the network, one event
between the first and the last two (the others are handled alike); two tasks, one of another tenant, two fetches (an overlap), one failure, two lists
on the way over Python and one over Go, where the order matters less as copies are listed; three products, two briefs, a selection of
two, two searches, comparisons and questions each (one that replaces another).

In `components`: two processes and three mutations on a file (one in it, one in each process's hands); two scopes, two ids, two changes
and two requests of a page, with a third change for the intent tree, which a circle of parents needs; two tabs and two accounts, two sign-ins
and one upset (a cookie replaced by the other tab, a record written in between; the theorem is for any number); for the guards six environments (each way to
switch the made-up user and the headers on or off), three states of the repository, five users the cookie or the headers name (one without each part a page asks for), one change meanwhile; three chunks, a query of one term, two candidates, scores 0 to 2,
three results (a tie, an order, and one chunk beyond the candidates); three callers in two processes, one deletion, one outage;
ranks that are whole with `CommonUnit` 238266 = 61 * 62 * 63; two tenants with one organisation and plans of two calls (what follows a failure); a default module and a plug-in, registered before it or after it, with up to two of four contributions
(a name taken twice, a block type taken twice, a block without a type); three records or tasks over two times, two runs, two documents; four intent patterns
of two modules, three settings of the provider, three chains, up to two products and two pieces; five of the eighteen products and an unknown id, two words,
three bands of price, limits below and above what is found, five ids for four columns (none of them twice, which the code removes first); for a turn two searches (the second
finds something, nothing, or does not look) and one tool, two chunks per search and one where a tool is hinted at, a base that is visible and one that is not, four texts (one question, four questions, a follow-up,
one that hints at a tool), with and without a history, a chain of mappings and one that is switched off.

### Fairness

Ingestion: a live process goes on with its run (weak fairness of
`Step`), a supervisor restarts a dead one (compose: `restart: unless-stopped`),
and a runner's loop keeps polling, which another process's claim may disable in
between (strong fairness of `Poll`). Nobody has to create a task or to call the
API. In `ingestion_live` the API may die and the runner does not; a claim whose
owner dies stays "running" for ever (`Abandoned`), which the code indeed never
repairs, so `EventuallySettled` excepts it. Postgres: ready continuations run
(weak fairness), and a database that is asked again and again does run a
statement and answer (strong fairness, as a failure may always come first). Agent loop: every request to a model, a
tool or the backend resolves or rejects some day, and the run then goes on (weak fairness of `Next`). The code itself limits only the
request to the backend (`go-retrieval-adapter.ts:38`); for models it relies on the limits of the HTTP client, and the run shows
no more than that. Browser: the event loops of the page and of the server run what is ready (weak fairness of `Shell` and of each
`Handle(s)`), a poll is asked for, served and shown, a task in the backend moves on, searches and the
advisor are answered or fail. Nobody has to send, to open or to ask for anything. `components` has safety properties only.

The runs of the agent loop, of the turns, `browser` and `components` have no deadlock check: `runAgentLoop`
returns, a conversation may have no further turn, and a page or a component that has used up its bounded
requests rests.

## Proofs

`IngestionProofs` proves, for any tasks, runners, plans, limits and failures, from
the named assumptions of `Ingestion`:

- `InductiveInvariant`: `Spec => []IInv`. `SingleOwner` and `CopyIsCurrent` are
  not inductive alone. That a claim takes nothing another run holds needs the
  rows of held tasks to be running (`HeldIsRunning`, with the copies current); that
  a write lands on a row of the writer needs the current task to be held
  (`HoldsInRun`). There is one lemma per kind of step: creation, claim, start on a
  candidate, update of the current task (shared by the seven stages), move of a
  program counter, resave, loss of the locals.
- `TypeCorrect` and `Ownership` follow from it.
- `FinishedStaysFinished` and `NothingIsLost` (SQLite): a lemma per kind of step says how a row may
  change (`RowStep`); finished rows are rewritten by `Resave` only, with what they are.
- `TableImplementsQueue` (SQLite): the initial table maps to the empty queue and every
  step to a step of the queue or a stutter.

The three last need `Backend = "sqlite"` as a hypothesis: a memory table that
dies with its process does go back.

From the same invariant it proves, of the corpus and the responses:

- `CorpusIsWhole` (both backends): `CorpusIsComplete` speaks of finished rows only, so the invariant
  says how far a row is at each place of `_process_task` (`Reached`): its trace, its chunks, its embedding and its index, and
  from the answer of Qdrant on that its chunks are there (`Stored`). Pending and claimed rows have not been begun (`Fresh`). One lemma
  treats the stages that write, one what a step leaves to the other processes (`LocalProgress`).
- `PointsAreChunked` (SQLite): what a step adds to the store is the task a process is indexing, which
  `Reached` says is chunked; and no row becomes absent (`AbsentStay`) or loses its chunks (`RowStep`).
- `ResponsesAreTrue` (SQLite): the lists of a response are true when they are written and stay
  so because finished rows are final; `Accounts` relates them to the tasks a run still holds.

`PostgresStorageProofs` proves, for any set of mutations:

- `TaskIsSound` (`TaskInv`) whether or not late statements run: the place of the task
  determines what it holds (`TaskShape`), hence the cache is always what is being
  written or waiting (`LatestIsQueued`), and a blob waits only while a task runs (`NoSpin`).
- `InductiveInvariant`, if late statements are dropped: the row, the blob being written, the blob
  waiting and the cache grow in this order (`Chain`). From it `QuietIsDurable`,
  `CloseLosesNothing`, `RowIsMonotone`, and `AdapterImplementsStore`: an upsert that runs is a `Sync`
  of the store, the death of the process its `Stop`, and the rest of the task a stutter.

The theorems of the second group have `~LateWrites` as a hypothesis.

`ConversationTurnsProofs` proves, for any turns, sizes and budgets:

- `TypeCorrect`.
- `InductiveInvariant` and `NoMessageIsSkipped`, if no two messages are stored in one millisecond
  (`NoTies`). `NothingSkipped` is not inductive: what a summariser writes must cover as much as its marker
  claims (`DraftCovers`), which needs the stale record it started from to do so (`KnownCovers`), the messages to be
  listed in the order they are stored (`Clocked`), and each to be stored once (`Unsent`). One lemma treats every
  step that stores messages, one every step that does not.
- `VerdictsAreTrue`, of any overlap of turns and any failing write: where a handler is says which of its messages are stored and what its
  trace may say (`Recorded`): a success is on record only past the answer, beside a failure only in a stream.
- `PairsAreKept`, with `NoTies` and one request at a time: the numbers of the messages follow each other (`Numbered`), a
  question under way is the newest message, and an answer comes next after its question (`Adjacent`), so that nothing lies between the two in
  the list, whether or not the turn has been recorded.
- `ContextIsAlwaysWhole`, under the same two conditions (`ContextInv`): the history a handler was given is still the history when it
  stores (`WindowsAreNew`), so the window of a conversation that fits is decided by its cost. What a window costs is a fold; lemmas on
  its cost show that a part of a list costs no more than the list, and that a list within the budget is taken whole.

`AgentLoopProofs` proves, for any limits, budget, sizes, models, tools and history:

- `InductiveInvariant`, and from it `TypeCorrect`, `ToolCallIds`, `MessagesArePaired`, `NothingUnseenIsTrimmed`,
  `OneFinalStep` and `NumbersGrow`. That tool call ids differ needs each to be the position of its
  own step (`ToolIdsGrow`); that a forced step gets a number of its own needs as many steps as
  completed decisions, and no step ahead of the decision at hand (`Numbered`). `TrimmingStops` shows that the trimming
  stops, by the least number of messages that may be taken, and `TrimmedIsWhole` that what is left is still
  paired and ends with the last result. One lemma treats every call, one every decision that ends
  the loop, one every step that records nothing.

`BrowserProofs` proves, for any bounds, catalogue and tasks:

- `SendsAreAlwaysHonest`: each send keeps what its handler wrote, what the connection brought and what the client made of it in
  step (`Honest`), and what is under way in the shell is the newest send, of which the shell has been told no more than it has read (`ShellKnows`).
- `WorkbenchIsAlwaysTrue`: the page shows the answer of the last search or comparison it handled, every one asked for later is under way
  (`FindingOK`, `PickingOK`), and only the stream of the question above it may still write (`AdvisingOK`).
- `MirrorIsAlwaysTrue`: no copy and no fetched status is ahead of its task, and, as long as two fetches of one task have not
  overlapped, a copy is not ahead of what is on its way (`CopiesOK`, `FetchesOK`); what the user was told of was stored first, on the way of an upload as well.
- `RestingViewIsAlwaysTrue`: what is shown is right long before the shell rests, or is about to be replaced (`ViewInv`). A list that was served has the messages of
  its conversation up to some point of the store (`Listing`). Unless a race was lost, the last list awaited is of the open conversation; if none is awaited and there was no error, the page
  shows what the shell has read of the conversation's messages, in their order, and what it has yet to read comes after that (`Shows`). Why the rest is complete needs what
  the handler has stored and said (`Recorded`) and what the user has learnt of every message (`Learnt`).
- `BrowserTypesAreKept` and `EveryPageIsTrue`, of the composition `MCBrowser`: whichever page a behaviour is about, its
  steps are steps of that page's specification and stutters of the others, so the four theorems above hold of it.

`ComponentProofs` proves, each for any values of the component's constants that its assumptions allow:

- `SignInsStayTrue`. Each tab that has not been disturbed has
  the state it will be asked for still in the cookie, and what it offers is of the record or of the claims
  (`TabIsTrue`); every session, issued or under way, is of the record as it was written at its time (`IsOfRecord`), and
  a record that is written again only makes sessions older (`WritingAges`).
- `VisitsAreAlwaysTrue`, for any environments, repositories, users and changes: where the browser has been sent says how often it was sent (`GuardInv`: at most as often
  as there are pages before that one) and, as long as nothing has changed, why; the viewer is the user the cookie (or, in development, the process) names, and a page
  that is served to a user has APIs that answer the same user (`AnsweredWhereServed`), as the guards of both ask for the same. That nobody
  is made up on a production server with a provider is a fact about the operators alone (`NamedByWhatItBrings`).
- `AccessIsAlwaysTrue`: both together, of a behaviour that satisfies both specifications.
- `FilesTypeCorrect` and `AcknowledgedIsKept`. That an
  update which has returned stays needs three facts: the one who writes the SQLite row holds the lock (`Lanes`), only one
  process is in a call on the JSON file unless there was a clash (`Alone`), and what a call is going to write contains everything
  acknowledged so far (`GotIsCurrent`).
- `FailuresHaveCauses`: what a call on the collection is about to
  fail of, a collection that is gone or one that is already there, has its cause before it fails (`DoomHasCause`).
- `RestingPageIsAlwaysFresh`: as long as no answer has overtaken another, the newest one asked for was asked after every change the
  page was told of, or one more is about to be asked for (`NewestIsFresh` in `AdminInv`).
- `TreeIsAlwaysComplete`: no id stands twice in a list (`RowsDiffer`). The tree is a recursive function on its levels: the recursion has a
  solution (`Iteration`, `Levels`), no intent is on two levels (`LevelsDiffer`), and there are no more levels than ids, by the number of
  intents drawn above them (`EnoughLevels`).
- `EachCallHasOneEnd`: reports and stages are written in the order of the calls, and each call that is over has the last report of
  its own (`CallsHaveTheirPlace`, `InCallOrder`); what a call was given has the actor's tenant and organisation (`GivenIsOwn`).
- `MarkedModulesAreWhole`: the modules that are marked are the first ones, and the contributions in the registries are theirs and a
  first part of the next module's (`MarkedAreFirst`, `NothingIsPassedOver`).
- `SearchIsAlwaysSound`: sorting by a score keeps every element and, by insertion, the order of ties; with the `CommonUnit` a better rank in every list
  is a greater fused score, and the response is a first part of the list so sorted (`FusedOK`).
- `AnswersAreAlwaysWhole`: for each of the five ways a question may take, what has been sent is written down as a function of the
  step at which the generator stands and of the pieces the model has said (`ChatInv`, `TurnInv`, `BridgeInv`, `PreviewInv`, `PreviewTurnInv`), and each such
  stream is in the order of the protocol at every one of its prefixes.

- `LoginTypesAreKept` and `GuardTypesAreKept`: the types of signing in and of the guards, which the theorems above do not need as a whole (the number of a sign-in stays within
  its bound, whoever a request is taken to be from is an identity).

`AnswerProofs` proves, for any catalogue, texts, knowledge, records, times and bounds:

- `ShoppingIsAlwaysTrue`. A list sorted by keys is the one in which each element has as many before it as the order puts before it (`OrdersAll`, `FewerAhead`, `EachPlaceIsTaken`); so
  a list that was cut has the best, best first, whether Python sorted (`PythonOrder`) or the browser (`LocalOrder`). Every id asked for is shown or accounted for; the advice speaks of the head of the
  list the user sees, since both engines filter and cut alike (`CutsAgree`); a verdict names the better of the two, as far as its rounding goes (`WeightIsReadClosely`).
- `GroundingIsAlwaysTrue`. The parts of a question are found by where its gaps are, and together have its words (`SplitIntoParts`, `PartsAreOfText`); `GroundingInv` keeps, of each search, that it was
  rewritten, planned and answered by the same plan, and that what the loop accumulates is all of them; the requests and the nodes of the trace are taken apart place by place
  (`RequestPlaces`, `NodesAreTree`).
- `ReadModelsAreAlwaysTrue`. Keys that end in the place order every list (`KeysOrder`), and sorting reorders it, no more and no less (`SortedReorders`); what a run comes to after its first records is known by induction over them
  (`SumIsTrue`), and the task that is first by its key is the one that should stand for its document (`PickedStands`).
- `ComponentTypesAreKept` and `EveryComponentIsTrue`, of the composition `MCComponents`. Seven components begin in a state of their own specification whatever a behaviour is
  about, so each behaviour satisfies it (`FreePartsKeepTheirSpecs`). The other five do so where it is about them and rest where it is not (`PartsInTurn`); at rest, too, they are as they should be. So the
  properties of all twelve hold of the composition, those the run `components` checks, for every value of its constants.

What these assume of the constants is named in each module and evaluated by the runs: a catalogue numbered from 1 with natural numbers where it has numbers (`CatalogAssumption`), texts and histories that
are sequences (`GroundingAssumption`), times that are numbers and known statuses (`ReadModelAssumption`).

Functions that go through a sequence are recursive functions on its length or selections (`SelectIn`), not RECURSIVE operators. Facts about them for any
length come from `Induction` of `SequenceLemmas`: a set of numbers that has 0, and with each number the next, has all (from
the least number that it lacks); the sets are the lengths for which the fact holds. This is how `SelectIn` is shown to keep the order,
to distribute over an append and to have just the elements of its set.

Model-checked only: the liveness properties (`EventuallyPicked`, `EventuallySettled`, `WriteBehind`, `HookFlushResolves`, `Terminates`, `BrowserSettles`), as fairness is
out of the prover's reach. Every invariant and every action property of a run without an expected violation is proved, and so are both refinements; those of `ingestion` that need it
with the SQLite backend, those of the turns without ties of timestamps, as said above.

## Not modelled

- Evaluation (`infra/eval`, `lib/eval`): metrics over recorded answers, without state or concurrency, and real-valued.
- The reading of a brief (`parseBrief`) and the keyword lists of the intents: tables of words. The models take the wishes read and the score
  of each pattern as inputs.
- Embeddings and the weights inside a keyword score: numbers no property depends on; `HybridSearch` lets a text that scores come anywhere.
- Retrieval evidence counts (see `Grounding`) and chunk projections, the dashboard's counts, the two
  resources of the document page: projections without a decision.
- In `ChatStream` a storage write that throws, in `Grounding` a death between two records of a trace: `ConversationTurns` has both, and says what they leave behind.
- Ids of new conversations (the millisecond of their creation) and message feedback: one conversation at a time is modelled.
- The wording of prompts and of the trace's details.
- `web/scripts`: about 7,000 lines of end-to-end scripts that drive the program from outside.
- Rendering, styles, type declarations, navigation.

What could be added: the agent loop inside a turn (`AgentLoop` has no state that outlives a turn, so the composition would add
interleavings of records in the trace only), and several conversations with their ids.
