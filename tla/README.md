# auto_workflow in TLA+

A verification development for `auto_workflow`: users draw workflows in an
editor, an API server stores them and dispatches executions, workers and agents
run the nodes, and an AI service proposes workflows and learns skills from the
users' edits. The modules are translated from the sources (Python, and
TypeScript for the editor); where a document says something else, the source is
what is modelled and the difference is named below. `tlc -config X.cfg M` checks
a run, `tlapm M.tla` a proof. `PROJECT.json` names the source lines of every
definition, the property of every hazard and the mutant of every property.

## The system

| component | state | operations | how it interacts |
|---|---|---|---|
| Graph validation (`dag_validator.py`) | none | `validate_dag` | called by every save; the executor trusts its verdict |
| Workflow service and store (`workflow_service.py`, `workflow_repository.py`, `workflow_revisions.py`) | workflow rows, revision log | create, update, soft delete, activate, deactivate | each request makes several awaited calls, each a transaction of its own; requests interleave at every await |
| Webhooks (`webhook_registry.py`, `routers/webhooks.py`) | bindings of a path, a secret and a workflow | register, unregister, receive a call | an outside call overlaps with the owner's requests |
| Scheduler (`container.py`, `scheduler.py`) | jobs | add, remove, fire | the API's scheduler object is filled by activate and never started; a worker process is meant to fire the jobs |
| Serverless dispatch (`execute_workflow`, `wake_worker.py`, `dispatcher/serverless.py`) | execution rows, queue and keys in Redis, the wake throttle | request, wake, send, deliver, claim, run, release | API → broker → worker, with late acknowledgement and redelivery |
| Executor (`runtime/executor.py`) | the run's levels, tasks and outputs | group, run a level, record results, finish | writes the execution row through `execution_repository.py` |
| Agent channel (`routers/agents.py`, `agent/`) | connection table, frames in flight | connect, execute, report, disconnect | a WebSocket between API and the customer's agent |
| Nodes (`nodes/`) | per call: place, token, answer | validate, ask, request, read | outside services that fail, hang or answer late |
| Credentials (`credential_service.py`, `credential_store.py`, `runtime/credentials.py`) | encrypted rows | create, update, delete, check, resolve | checked when a run is requested, resolved when it begins |
| OAuth (`google_workspace.py`, `routers/oauth_google.py`, `oauth_state.py`) | token, expiry, needs_reauth, used nonces | consent, refresh, mark, verify a state | every worker refreshes tokens under a lock of its own process |
| Accounts (`auth_service.py`) | users, agents, signed tokens | register, verify, login, refresh | stateless tokens with a purpose |
| AI composer (`ai_composer_service.py`, `ai_agent_client.py`) | rate-limit windows, stream parser | compose, stream | relays AI_Agent's reply to the browser, or talks to the model itself |
| Agent loop and policies (`agent_loop.py`, `policy_extract_agent.py`) | turns, the closure of the tools | search, extract, evaluate, finish | drives a language model |
| AI services (`personal_memory.py`, `industry_baselines.py`, `workflow_diff.py`, `document_parser.py`) | the memory file, a cache per container | upsert, search, diff, cut | containers with copies of one volume |
| Skills (`personalization_service.py`, `skill_bootstrap_service.py`) | skill rows, review log | extract, activate, reject, share, wizard draft, approve | database first, then a best-effort HTTP call to AI_Agent |
| Frontend (`src/Frontend`) | the editor's store and history, query cache, chat, wizard, skills page | edit, undo, save, load, compose, apply, decide | answers come after the user has gone on |
| Schema, encryption, infrastructure | see "Not modelled" | | |

What is hard in it: several requests, workers and node tasks share rows through
read-then-write calls; a request is a sequence of transactions with no undo;
messages may be delivered twice, workers and the broker may die; copies (the
memory file, the query cache, the editor's flags, a token) are not kept in step
by anything; replies are streamed over up to three connections that may break;
and one algorithm (Kahn's) is written twice, once trusting the other.

Correctness, component by component: a saved graph can be scheduled, and the
executor schedules all of it; an execution is run at most once, by one worker,
and ends; a node gets the credentials that were checked for it; the revision log
is complete, numbered and linked; what is acknowledged is stored and what is
deleted stays deleted; a stale path, state, token or link opens nothing; no skill
is used that its owner has not accepted, and a rejected one is not proposed
again; a reply that broke off is not taken for a whole one; and what the user is
shown is what is stored.

## Modules

| module | models | state and actions |
|---|---|---|
| `WorkflowGraph` | graphs as they travel through the code | ids and edges as lists, `Consume` and `NewlyReady` (the counting-down step both algorithms share), reference definitions `OnCycle`, `IsLevelling` |
| `DagValidator` | `validate_dag` | one action per refusal, `Visit` for one iteration of the loop, `Decide` for what follows it |
| `ExecutorLevels` | the validator, then the grouping in `run_workflow` | `StartRun`, `TakeLevel`; extends `DagValidator`, since the executor only sees what was accepted |
| `NodeCatalog`, `NodeCalls` | every registered node type by what it needs, asks, changes and reads; one execution of one, alone or in `loop_items`, with its service | per item: where its call is, what came of it, and whether its service trickles; a call moves from one await to the next, `Trickles` and `Closes` are the waits no timeout ends |
| `NodeValues` | condition, filter, transform on values | a question and its answer |
| `CredentialRefs` | credentials and the references of one workflow's nodes | rows, deletions between their two transactions, and runs from request through queue or agent to their nodes |
| `ExecutionLifecycle` | what an execution promises | abstract: a status and the handlers begun and returned |
| `WorkflowRun` | `_execute` and `run_workflow` by one runner | a program counter per runner, a phase per node; `append_node_result` in its two statements |
| `ServerlessDispatch` | the path from the request to the acknowledgement | composes `WorkflowRun` with the API's request, the broker, the key in Redis, and the faults |
| `AgentChannel` | the path through an agent's WebSocket | extends `WorkflowRun`: its runners are the agent's tasks, and each call on the repository is a report, in order, to the socket's handler |
| `WorkflowStore` | the owner's requests on workflow rows | per request: operation, next call, DTO, the row that `save` read; per workflow: row, revisions, bindings, jobs |
| `WebhookCalls` | calls from outside to a registered path | extends `WorkflowStore`: a call's reads interleave with the owner's requests |
| `PersonalSkills` | both skill services, the review log, the memory file | per request: next call and what it has read; calls to the memory file that are lost or late |
| `RationaleStream` | `_RationaleStreamParser` and `_parse_result` | the reply as symbols, fed in chunks of any length |
| `RequestGuards` | the composer's rate limiter, the OAuth state signer | the two tables and a clock |
| `OAuthTokens` | one Google credential | nodes in processes with a lock each, Google (external) that rotates and revokes, the consent's callback |
| `Accounts` | registration, links, logins, refresh, agents | accounts, calls between awaits, tokens issued |
| `SkillLibrary` | the skills page and the rows it shows | queries with their answers, decisions and what they invalidate |
| `ComposerChat`, `EditorSession` | the chat panel; the editor's store with history, saving, loading and drafts | the store, the cache, the page the router was told to go to (`going`), one save and one fetch under way, frames on the wire; closing the panel (`Toggle`) leaves the stream alone |
| `SkillWizard` | the wizard's store and the services behind its four calls | calls that outlive a restart or are given up by the browser |
| `ComposerRelay` | one composer turn from the model to the browser | per connection: what is on it and its two ends |
| `PolicyAgent`, `PolicyGoal` | the reflective extraction of policies; the same with a model that follows `_system_goal` | turns, the closure of the tools; `PolicyGoal` restricts what the model answers |
| `AgentMemory` | the memory file and the baselines' cache | a volume, a copy per container, requests between their awaits |
| `WorkflowDiff` | `diff_workflows`, the proposal and its judgement | two versions, the hint, the candidate |
| `DocumentChunks` | `_chunk_text` and the page-wise parsers | a text and its pieces |
| `*Proofs` | theorems: about the module they are named after, or, in `ExecutionProofs`, `ApiServicesProofs`, `AiAgentProofs` and `FrontendProofs`, about several of the modules that the run of that name puts together | |
| `MC*` | instances for TLC | graphs, requests, small workflows, symmetry, and which part of a run is in focus |

Conventions. A request, a worker or a task stands at the call it makes next, so
another actor may act between any two calls. An operator `Name_How` is a
mutated `Name`: a plausible slip in that code, used to see that a property can
fail. A variable marked "history" is not in the code: it remembers what a
property speaks of (`mixed`, `overlapped`, `did`, `mishaps`: whether the condition
of a property still holds). Four runs put several components that share nothing
into one state machine with a variable `focus` (or `called`), chosen at the start
and kept: each is explored by itself.

## Runs

| run | shows | bounds |
|---|---|---|
| `execution` | `VerdictExact`: the validator accepts exactly the acyclic well-formed graphs, in an order they can run in; `LevelsCorrect`: the executor's levels hold every node once, no edge runs backwards, nothing waits without need; `CallsHonest`: no node asks a service twice, one that reports success has had its request done, a loop tries every item and never exceeds its places; `ValuesExact`: filter, condition and transform agree where they should; `CredentialsMatch`: nodes get what their references name; `RunsEnd`: the loops end, and a node ends or hangs (`Hangs`) on services that trickle or do not close their connection, and on nothing else | every list of ≤3 ids and ≤3 edges over 3 ids (repetitions, loops, parallel edges, unknown ids) and of ≤4 edges over 4 ids against the order of the list: the smallest with a diamond and with a cycle plus a tail; every node type with all it needs or one thing less, loops of ≤2 items and ≤2 places, 1 thread; lists of ≤3 items; 2 users, 2 credentials, 2 nodes, 1 run, 2 versions, 1 edit |
| `serverless` | `RunsOnce`; the refinement `ImplementsLifecycle` | one execution of a fork, two workers, two copies of the message, one redelivery, one crash, any call but `finalize` failing |
| `serverless_settles` | `NothingForgotten`, `TasksSettle`: an enqueued task gets its execution finished | two executions of two parallel nodes, one worker, one redelivery, one broker reboot, no crash; `finalize` may fail |
| `agent` | `RowComplete`, `FinalStays`: reports reach the row in order and completely while the connection holds; `TableLive`, `RefusedAlone`: the connection table; `AgentSettles` | one execution of a fork, two agents, two runners, two connections (of one agent or of both), each breaking at any time; encrypting, refusing and a report's call failing; one restart of the server |
| `store` | `LogSound`, `AcknowledgedIsRecorded` under any overlap; `Sequential`: one request after the other, the newest revision is the row's graph, revisions form a chain, a path in the settings resolves, a trigger has its job, what is deleted stays deleted; `WebhookCallsHonest`: an outside call's answer is true of a moment during the call, and it starts an execution only with the secret of a bound path, on the workflow the path was made for | two workflows; three requests at once (a save is overtaken twice), any call failing, one restart; or four in sequence; or one webhook call with up to two of the owner's requests at a time on one workflow |
| `skills` | `OnlyActivatedIsUsed`, `RejectedStaysSuppressed` under any overlap; `SequentialCopy`: one after the other, the memory file agrees with the rows and an edit is asked about once | two requests at once with one lost call or crash on the rows of one hash; or one at a time on three rows and two hashes, without the skills router's approve |
| `api_services` | `StreamExact`: what the browser is shown is the text between the tags, however the reply is cut; `GuardsHold`: never more calls than allowed in a window, a state is accepted once and only in time; `TokenRowHonest`, `RefreshesAreNeeded`; `SignInHonest`; `PanelMatches`: the lists at rest are the table's | replies of ≤4 of 6 pieces in every cutting; 2 calls per window of 2, 3 states in a cache of 2, 5 moments; 2 nodes in 1 or 2 processes, 5 tokens; 2 of each of ids, addresses, passwords and calls, lifetimes of 1 over 3 moments; 1 candidate: on 1 tab with 2 presses of a button, or 1 and a call that fails or a list asked for again; or without the tab with 3 presses (an activation, a share and a rejection checked before both) and one of those |
| `ai_agent` | `LastExtractionSurfaces`: a run's answer carries the last extraction; `ObedientConverges`: the budget is enough for the goal; `RelayExact`: no result is made of a reply cut short, one terminal frame, nothing lost without a failure; `MemoryKept`; `DiffExact`: the diff loses nothing, both ways; `ChunksExact`: no character between two pieces; `AnswersEnd` | `max_iter` 1 to 3; replies of ≤3 pieces, each connection breaking anywhere; 2 rows, 2 containers, 2 writers and 1 reader, 2 upserts, 1 failure; versions of ≤2 nodes or ≤2 edges; texts of ≤10 characters in windows of ≤8, PDFs of ≤2 pages |
| `frontend` | `ShownIsSaved`: Execute is offered only for what the server has; `DraftHonest`: a revision says the composer's only if it is; `PendingEnds`: a turn ends and the form is free again; `ReviewComplete`: at the review every question was answered once, by a card whose skill is this session's; `DecisionStands` | 1 turn of 1 piece, a canvas and a draft, 2 workflows, 7 steps of the user, 1 step of history; 1 domain of 2 policies, 2 sessions, 5 calls, 1 answer late or given up |

Each bound is the smallest at which two actors can meet in the middle of an
operation (two requests, two workers, two parallel nodes, two copies, a second
session while a call of the first is under way). `CacheSize` is less than the
number of states and `MaxVersion` more than one for the case to happen that the
property is about. Deadlock is not checked: every run is a system that may stop
when its users do.

Conditions are part of a property where the code promises less than one would
wish, and the comment above it names them: `RunsOnce` until the
broker reboots, `NothingForgotten` until it does or a worker dies, `RefusedAlone` until connections overlap, `MemoryKept`
while one container writes, `TokenRowHonest` for processes that share a lock,
`ShownIsSaved` without undo or a change during a save, `PendingEnds` for replies
that bring their last frame, the second half of `WebhookCallsHonest` without
overlapping saves. Without its condition each of them is violated; what happens
then is in the list of disagreements below.

Runs that TLC must refute, each a place where the code does not do what a
document, comment or test of the repository says:

| run | property | what happens |
|---|---|---|
| `lost_result` | `SuccessRecorded` | two parallel nodes append their results from the same version of the row; a successful execution lacks one (`test_diamond_parallel` asserts both) |
| `policy_failure` | `LaterFailuresFolded` | a second extraction that does not parse, before the first was evaluated, turns the answer into a 502; the docstring folds it into the trace |
| `editor_execute` | `ExecuteRunsCanvas` | after Save and Undo the Execute button is enabled and the server runs what is not on the canvas; the comment in `toolbar.tsx` promises it does |

### Further disagreements

All visible in the models, by the definition named; no run lists them.

- Dispatch: `finalize` inside the `try` turns a success into a failure when it
  raises (`Finalize`); a broker reboot loses a queued task for good (`Reboot`);
  a redelivered message whose first worker died is skipped, so the execution
  stays running (`ClaimSkips`; `docs/context/decisions.md:1635` says such tasks
  re-queue); the worker is woken before its task is sent (`ApiStep`); the
  throttle's window opens after the call it should limit (`WakePatch`).
- Agents: the handler of a replaced connection removes the new one's entry
  (`Teardown`); an execute frame that is lost leaves its row queued
  (`SendExecute`), and so does an exception after the row was created.
- Store: a save brings a deleted workflow back (`Merged`), and its webhooks with
  it; two creates pass the quota together (`Create`); two saves link to one
  parent (`ReadHead`); the loser of a race for a number is answered 503, not 409
  (`Insert`); a restart loses every activation (`Restart`); unregistering looks
  for the path in settings that the editor has replaced, answers success, and the
  old path goes on starting executions (`Unregister`).
- Skills: of an activate and a reject at once both succeed, and so do two shares
  (`SetStatus`, `ShareWrites`); the skills router approves personal candidates
  without log or memory entry (`Decide`); a shared skill's hash is free to be
  proposed again (`SkillHashes`); a memory call that failed is not made again
  (`Sync`).
- Nodes: `db_query` closes its connection in `finally` without a timeout, so a
  server that falls silent holds the node and its place in a loop for ever
  (`Closes`); httpx's timeouts are of each read, so does a service whose answer
  comes in drops (`Trickles`). A run with such a node stays running, on a worker
  as on an agent. `loop_items` with no places waits for ever (`slots = 0`);
  a code node that timed out goes on in its thread; a request that timed out may
  still be carried out; `http_request` takes any status for success; a missing
  field is false for both "eq" and "ne" in condition, while filter's "ne" keeps
  it (`NodeValues`); a graph in which no reference has an id runs on a worker and
  fails on an agent (`CredentialRefs`).
- Accounts: an address whose mail failed can neither be verified nor registered
  again; of two registrations at once one is answered 500, not 409.
- OAuth: two processes may leave a dead token or a wrong flag in the row; the
  metadata column is read and written back without a lock; a nonce dropped from
  a full cache is accepted again.
- Composer: the grammar of the local model forbids the rationale tags; a stream
  that ends without its last line is a silent truncation; a failure of the
  catalog after the session frame ends the stream with no frame at all.
- Policy agent: "up to `max_iter` times" is not enforced by the loop; a first
  extraction that did not parse makes the answer 502 even after a retry that did.
- Memory: nothing reloads the volume, although comments say that other containers
  see a new row; two containers that write drop each other's rows; a failed load
  of the baselines is cached as empty.
- Editor: the cache is not invalidated by a save, so coming back shows the older
  version as saved; leaving during a save marks the next workflow as saved under
  the old id; undo leaves the draft's source; a refetch in the background
  overwrites edits, as does the page a new workflow's save leads to (`Replaced`);
  a save of a new workflow unmounts the chat of a pending turn.
- Chat: "Closing the panel also unmounts (we early-return null below), so this
  catches both" (`chat-panel.tsx:52-53`), and "panel close" is among the aborts
  that are swallowed (`:114`). The panel stays mounted and reads on (`Toggle`), and
  that is why `PendingEnds` holds of a panel that is closed during a turn: were
  the comments true, the swallowed abort would leave the turn pending and the form
  locked. The mutant of `PendingEnds` (`Toggle_Aborts`) is the code they describe.
- Wizard and skills page: an answer that comes after "Start over" is applied to
  the new session; a lost answer to approve leaves its card failed, and every
  retry is refused with 409; a decision answered while another list is first
  fetched leaves that list stale, against `suggested-from-edits.tsx:206-208`; a
  reject (or activate) that was checked before the row was shared archives the
  team's skill and is answered 500 (`SkillLibrary.Carry`; the assertion at
  `personalization_service.py:490`), so no list is asked for again.

## Fairness

`FairSpec` of `ServerlessDispatch` has weak fairness for a request under way,
for each worker's step and for its node handlers: each is a coroutine whose
awaited calls return or time out, and a worker that is up polls its queue. Of
node handlers that is a condition: `TasksSettle` and `AgentSettles` speak of runs
whose nodes end, and `RunsEnd` says when one does not. No
fairness is assumed of faults, of deletions, of wake-ups that a user must
cause, or of new requests. That of `AgentChannel` is the same for the socket's
handler and the agent's tasks: the handler reads what arrives, and asyncio runs
every task; requests and connections need not come.

`MCExecution` has it for the two synchronous functions and for a node's own
steps, among them the timeouts it sets; the service it asks and the user's code
owe it nothing. A read that a trickling service keeps alive and the end of a
connection are the service's steps, without fairness: `RunsEnd` allows a node to
stay in them, and shows that nothing else holds it. `EditorFairness` has it for the server that
serves a turn and the browser that reads what arrived, not for the user.
`MCAiAgent` has it for the loop that extracts policies (each turn is an awaited
call that returns or raises) and for the three readers of a relayed reply; the
model may fall silent at any time, which the readers' timeouts end.

## Proofs

Every theorem is of a component's own specification, for every value of its
constants that its named assumption allows. An invariant that is not inductive
is strengthened first; the strengthening has one lemma per action, and the theorem
joins them.

`ServerlessDispatchProofs`, for any executions, nodes, workers, publishes,
redeliveries and crashes, and any failing calls:

- `TypeCorrect`; `ExecutionsRunOnce` (`StartsAtMostOnce` and `RunsAlone`):
  `RunsOnce`, which promises nothing once the broker has rebooted (`KeysIntact`).
  `IInv` adds `KeyInv` (who passed the claim holds the key, alone), `FreshInv` (as
  long as the key is free and a worker may still come, nothing has begun),
  `BegunInv` (a runner that has not begun a node knows that nobody has) and
  `ProgressInv` (the program counter, the level and the phases of a run agree).
  `FreshInv` is what a redelivery after the key expires would break, hence the
  guard of `Expire`: the comment on `IDEMPOTENCY_TTL_SECONDS` states the assumption.
- `NothingIsForgotten`: `NothingForgotten`, from `CarriedInv`: a row that is not
  final has a message in the queue, or a worker that holds it and will settle it.
  It assumes that only calls fail that a run outlives (`Outlived`), and promises
  nothing after a reboot or a worker's death.
- `DispatchImplementsLifecycle`: the refinement `ImplementsLifecycle`: every step
  of the dispatch is a step of `ExecutionLifecycle` or none. It assumes that the
  broker does not reboot and `finalize` does not fail (each of which breaks it, as
  said above). `LifeInv` adds to `IInv` that the place of the worker who holds the
  key agrees with the row's status, its phases with the handlers that have begun
  and returned, and that the levels below its own are done.

`WorkflowStoreProofs`, for any workflows, requests, overlap, failures, restarts:

- `StoreTypeCorrect`, `LogStaysSound` (`RevisionsNumbered`, `ParentsAreOlder`).
  `IInv` says that a request past its reads may hold a number and a parent that
  others have overtaken, but none that leaves a gap or points ahead; the UNIQUE
  constraint (a guard of `Insert`) does the rest. `None \notin Row` says that the
  null value is no row.
- `AcknowledgedSavesStay`: `AcknowledgedIsRecorded`. `SavesHold` says that a save
  under way has no revision with its graph, that only the insert answers it ok,
  and that from then on there is one.
- `OneAfterTheOther`: `Sequential`. `SequentialInv` says what holds of a workflow
  at rest (`RestHolds`) and how far the only request under way has taken it from
  one rest to the next (`TurnHolds`).
- `WebhooksAreHonest`: `WebhookCallsHonest`. `PathsHold` says that a path in the
  registry belongs for ever to the request that registered it and to that
  request's workflow; `CallHolds` that what a call has read was so at a moment of
  `held`. `None \notin Operations` says that an idle request has no operation.

`AgentChannelProofs`, for any agents, connections, executions, restarts:

- `EntriesAreLive`: `TableLive`. `EntryInv` adds that an entry names a socket of
  its own agent, which is why removing the agent's entry removes it.
- `RefusalsAreTrue`: `RefusedAlone`. `HandlerInv` says that a running handler has
  its agent's entry as long as no two have run for one agent.
- `AgentTypes`, `FinalStatusStays` (`FinalStays`), `RowsKeepPace` (`RowComplete`)
  from `RowInv`: an execution is sent once and to one task (`SourceInv`), and the
  reports under way are those its row still lacks, in the order in which the
  executor makes them (`OrderInv`, `TaskInv`). The node names are assumed to be
  none of a report's other kinds.

`PersonalSkillsProofs`, for any rows, hashes, requests, losses and crashes:

- `NothingUsedUnasked`: `OnlyActivatedIsUsed`; `RejectionsAreKept`:
  `RejectedStaysSuppressed`. `SkillInv` says that what a request has read stays
  true until it acts on it: a decided row is never pending again and keeps its
  hash, a row to be created is one request's own, a call that is late was
  activated, and what an extract has seen holds what was rejected when it began.
- `FileFollowsRows`: `SequentialCopy`, from `SequentialInv`: at rest the file is
  the rows', and each stage of the only request says what is still missing.

`ExecutionProofs`:

- `GraphTypesHold`, `VerdictsAreExact` (`VerdictExact`) and `LevelsAreCorrect`
  (`LevelsCorrect`), for any graphs. `KahnInv` and `LevelInv` say that both loops
  count for every node the edges whose source is not done (`Counts`), with
  parallel edges counted one by one, and that the ready nodes are those that
  nothing undone leads to (`Free`). That a step of the loop keeps this
  (`CountDown`) is a fact about `Consume` alone, which both share. If nothing is
  ready and something is left, every node left has a predecessor that is left,
  and the sets of ancestors, which are finite and ordered by strict inclusion,
  would descend for ever without a cycle (`CycleBehind`). `LevelsTight` (a node
  waits only for one in the level before) gives minimality.
- `LoopsEnd`: of a graph of N nodes at most 2N + 3 rounds are left (`StepsLeft`),
  each step leaves fewer, and none is left exactly when the graph is refused or
  its levels are found. `UnplacedBounds` is where it could fail: a round of the
  executor takes at least one node (`SomethingIsFree`).
- `CallsAreHonest`: `CallsHonest`, for any node type, items and places. `CallsInv`
  says how often a service was asked and what that may have done at each stage of
  a call, and that the places taken are those of the calls under way.
- `NodesEnd`: what a node has still to do (`StillToDo`: for each of n items the
  stages ahead of it, and the result; at most 5n + 1) is finite, each of its steps
  takes from it and nobody adds to it. Until it is empty the node can take a step
  that waits for nobody (`MayGoOn`), or it hangs (`Hangs`): each item that is not
  over is one whose service trickles or does not let go of its connection, or
  waits while such calls have all the places.
- `ValuesCorrect` (`ValuesExact`), for any items, field, operator and value. What a
  filter has kept after n items are the numbers, in order, of those among them it
  said true to (`Keeps`, by induction over a recursive function); one by one its
  verdicts are the condition node's (`VerdictsAgree`); a path of two keys is read
  one key after the other (`FollowTwo`), by either node. Items are assumed to be a
  list and the value to be no template.
- `NodesGetTheirCredentials` (`CredentialsMatch`) from `CredInv` (`ChecksStayTrue`):
  a credential never changes its owner and an id is never used again, so what a
  request has checked stays true of the rows it was checked against. The owner is
  assumed to be a user, `"nobody"` to be none.

`ApiServicesProofs`:

- `SignInsAreHonest` (`SignInHonest`) from `AccountsInv`, which follows a token
  back through its refreshes to a login, the login to an account it read, and a
  verified account to its link; `"none" \notin Emails`.
- `TokenRowIsHonest`, `NeededRefreshes` (`TokenRowHonest`, `RefreshesAreNeeded`),
  for any nodes, processes and tokens, from `TokensInv`: who is past the lock
  holds it, and while all share one the writers take the row from one of Google's
  states to the next, each stage saying what is sent, received and not yet stored.
- `TablesHold`: `GuardsHold`, for any limits, windows, sizes and lifetimes.
  `BucketInv` says that the deque holds the calls of the window, in order;
  `NonceInv` that the cache holds the states used last, in the order they came,
  so that a state that left it gave way to `CacheSize` others (`GaveWay`).
- `PageMatchesTable`: `PanelMatches`, from `LibraryInv`: a list that is not the
  table's has a call under way that will make it so, or is not on display and will
  be asked for when it is, or a decision's answer is coming that sees to that.
- `StreamIsExact` (`StreamExact`), for any replies cut anywhere. `StreamInv` places
  the parser in the reply: what it holds back begins at the k-th symbol, no tag it
  looks for begins before, and k is near the end of what was fed (`Waits`). That a
  tag in a part of a text stands at the same place in the text (`StandsInPart`)
  carries `find` from the buffer to the reply. A reply is assumed to be a sequence.

`AiAgentProofs`:

- `PolicyTypeCorrect`, `LastExtractionKept` (`LastExtractionSurfaces`), for a model
  that answers anything. `ClosureInv` says that the newest list of drafts in the
  closure is the last extraction that returned. `GoalIsReachedInTime`
  (`ObedientConverges`), for one that follows the goal: `GoalInv` bounds the turns
  it still owes by those the budget leaves. `max_iter` is 1 to 5, as the route
  checks.
- `PolicyLoopEnds`: each step of a run leaves fewer turns, and none is left
  exactly when the request is answered.
- `TurnsAreExact` (`RelayExact`), for replies and rationales of any length, each
  connection breaking anywhere. `RelayInv` says that the pieces on every
  connection come in the order in which the model said them, without a gap as long
  as nothing failed (`NoneMissing`), that what was read and is on its way to the
  browser is what the service has let through (`FlowHolds`, `HeldBack`), and that
  its end is told by a terminal frame (`Reaches`).
- `TurnsEnd`: a turn is weighed (`WorkLeft`) so that a piece is lighter at every
  place it gets to; no run of a reply of n pieces has more than 5n + 8 steps, and
  until both processes are done, the model is left and the browser has read all, a
  step is possible that waits for nobody. For that a process must read its
  connection exactly as long as it is at it (`LinksInTurn`).
- `CommittedRowsStay` (`MemoryKept`), for any skills, containers, requests,
  restarts and damaged files, from `MemoryInv`: the copy of the only writer has
  every row that is kept or about to be, so that no commit of it drops one.
- `NothingIsLostInADiff` (`DiffExact`), for versions of any nodes and edges, with
  ids that come twice (the run's lists have two elements): a version means the
  nodes that are the last of their id (`NodeOfId`, `GreatestOf`), a difference is
  empty when all parts are the same (`EmptyByParts`), and the nodes of a patched
  version are those of the other or were left because nothing in them changed
  (`PatchedMeans`). A version's nodes and edges are assumed to be lists.
- `ChunksCorrect` (`ChunksExact`), for any pages, sizes and overlaps. The windows
  are a recursive function of where each begins: that there is one
  (`WindowsExist`), and that its pieces from any beginning cover what is left, in
  order (`WindowsCover`), both go by induction from the end of the text backwards
  (`AlongNumbers`), because a window is not empty and the next begins after this
  one began and not after it ended (`WindowAdvances`). Pages follow one another
  the same way (`NextPage`). Pages are assumed to be lists of strings, a size and
  an overlap to be integers; the code refuses the ones that make no sense.

`FrontendProofs`:

- `SavedIsShown` (`ShownIsSaved`) and `DraftsAreHonest` (`DraftHonest`) from
  `EditorInv`: as long as nothing disturbs it a save holds what is on the canvas,
  and the page shows what was saved last (`Matched`, `Drafted`). Ids are positive
  numbers, so that none is the empty one.
- `ReviewIsComplete` (`ReviewComplete`) and `DecisionsStand` (`DecisionStands`) from
  `WizardInv`: one call at a time for which the page waits, the cards answer the
  questions before the one that is asked (`InOrder`), no two answers made one row
  (`Apart`), and a skill has one decision under way (`OneDecision`).

Only model-checked. Liveness (`TasksSettle`, `AgentSettles`, `RunsEnd`,
`AnswersEnd`, `PendingEnds`), which is out of the prover's reach. Of `RunsEnd` and
`AnswersEnd` the part that is no liveness is proved, for any instance: `LoopsEnd`,
`NodesEnd`, `PolicyLoopEnds` and `TurnsEnd` bound what is left to do, show that
each step lowers it and, for a turn, that until all is done a step is possible,
for a node that it is or the node hangs (the other two are sequential loops). What they leave to TLC is that a
step that is possible is taken. And the three properties that are refuted.

## Not modelled

- The schema and its migrations: each file runs once with its tracking row in one
  transaction; constraints enter the models where an operation relies on them.
  Partitions of the log tables (nothing schedules `roll_partitions.py`). The node
  log and approval repositories, which only tests use.
- Cryptography: Fernet, RSA-OAEP, HMAC, bcrypt and JWT signatures are taken to
  hold; bcrypt looks at 72 bytes of a password, and longer ones are taken to
  differ within them. Prompts, embeddings and what a model writes.
- Time, but for order: a TTL or a timeout is an action that may come at any
  moment its guard allows; `RequestGuards` and `Accounts` have a clock. Celery's
  time limits are not enforced by the solo pool the worker runs with.
- The scheduler worker's process: its container is another module's than the one
  its job runs in (`scheduler.py:26`, imported a second time), so a job has no
  container to work with. Nothing under `src/` pauses an execution, so the paused
  state is never reached.
- Heartbeats and `get_credential` of an agent, which change no state that the
  channel's properties speak of; several API processes, each with a connection
  table of its own.
- Of the frontend: the execution drawer, which polls a row until its status is
  final and keeps nothing of its own but the id; the raw JSON editor, the
  property forms, settings and layout. List endpoints, which read one query.
- A save's body brings the editor's settings, a layout: that an API client of its
  own may write any trigger or path into them (`workflow_service.py:146`, `:169`)
  is left out; `PathResolves` and `TriggerHasJob` are not promised to it. A
  node's `timeout_seconds: null`, which takes its timeouts away altogether.
- Within `WorkflowRun` a node succeeds or fails: what its call does is
  `NodeCalls`, where it runs alone; credentials are `CredentialRefs`.
- Infrastructure, demo and smoke scripts: they call the API from outside.

## What is left

The composition of `ServerlessDispatch` with the drawer that polls, and of
`OAuthTokens` with the resolution of a run's credentials; both are checked
apart, since their product is beyond a few minutes of TLC.
