# TLA+ models of modular-agent

modular-agent runs graphs ("patches") of modules that exchange messages: stream filters, timers,
LLM chats, tools, MCP clients.  The Rust crate `modular-agent-core` is the runtime; the crates
`modular-agent-std` and `modular-agent-llm` supply modules, and a desktop app and a CLI host it.

This directory holds TLA+ modules translated from the source under `src/`, TLC configurations that
check them on small instances, and TLAPS proofs of the most important results for every value of
the constants.  Run `tlc -config X.cfg MCModule.tla` for a check, `tlapm ModuleProofs.tla` for the
proofs.  `PROJECT.json` maps every definition to the lines it models, every property to a mutation
of the code that breaks it, and every hazard to the properties that watch it.

Paths below are relative to `src/`; MA is `crates/modular-agent-core/src/modular_agent.rs`.  Other
file names are those of `modular-agent-core` (runtime and tools), `modular-agent-llm` (LLM) and
`modular-agent-std` (standard modules).

1. [Inventory](#1-inventory)
2. [The modules and how they follow the code](#2-the-modules-and-how-they-follow-the-code)
3. [The runs](#3-the-runs)
4. [Fairness](#4-fairness)
5. [What is proved](#5-what-is-proved)
6. [What is only model-checked](#6-what-is-only-model-checked)
7. [Where the code does not do what is said of it](#7-where-the-code-does-not-do-what-is-said-of-it)
8. [What is not modelled](#8-what-is-not-modelled)
9. [The plan](#9-the-plan)

## 1. Inventory

| component | state | operations | talks to | what makes it hard |
|---|---|---|---|---|
| **Module lifecycle** (MA 1198-1680, `module.rs`, `external_module.rs`) | status and async lock of each module; `module_txs` (inbox), `module_tokens` (token and generation), `external_input_modules`; one spawned loop per start | `start_patch`, `stop_patch`, `start_module`, `stop_module`, `set_module_configs`, `module_input`; the loop | the patch's token; the router and hosts through the inbox | starts and stops from several tasks; a lock held across `process().await`; `select!` that polls before it sees a token; slots that outlive a loop |
| **Patch registry** (MA 440-760, `patch.rs`) | `patches`, `patch_names`, `patch_tokens`, name and running flag of each patch | add, rename, remove, start, stop | lifecycle; observers through events | three locks taken one after the other, handles kept after a removal |
| **Patch structure** (MA 760-1260, `spec.rs`) | the specs; the runtime maps `modules` and `connections` | add, remove modules and connections, batches with rollback | registry, router | specs and maps change under different locks; half-done batches |
| **Message router** (`message.rs`, `external_module.rs`) | the hub queue to one task; `external_values`, subscriptions | module output, channel writes, delivery | inboxes, observers | values stored, routed and announced in separate steps, edits in between |
| **Flow contexts and abort** (`context.rs`, MA 1360-1420) | weak map from context id to token; variables and map frames of a context | `abort_context`, a context cloned with every message | loops, tools, LLM calls | a token lives only while some message of the flow does |
| **Joins and collections** (`array.rs`, `sequence.rs`, `data.rs` of std) | queues and caches of half-joined items | Map, Sequence, Zip, Sync, Collect | flows | items lost, late, overtaking; bounded caches |
| **Custom tools** (`tool.rs` 900-1200) | name -> tool registry; context id -> result sender | start, stop, edit, call with timeout and drop guard | the workflow behind the tool | results late, twice or never; a name shared by two modules |
| **Tool-call scheduling** (`tool.rs` 560-860, 1200-1500) | executed-call and loop counters, bounded per flow | `call_tools`, CallToolMessage, LoopControl | tools, chat | partial results under an abort; redelivery; eviction |
| **Chat turns** (`chat.rs`, `responses.rs`) | one turn under way | request, retry, stream, finals | providers, tool calls | streams cut short, errors after partials, aborts between polls |
| **MCP client pool** (`mcp.rs`) | server -> connection; per connection a lock, the service, a dead flag | `get_or_create`, `call_tool` with a retry, `invalidate`, shutdown | child processes | hanging calls, late failures, callers dropped at any await |
| **MCP server, event ring** (`mcp_server.rs`) | two bounded rings with one counter; cursors of sessions | poll, edit and save tools | registry, structure, observers | a tool call is several calls of the runtime; eviction between polls |
| **Session log** (`session.rs`, `message.rs` of llm) | a JSONL file; the entries cached in the module | create, load, append, remove; window, pruning, rolling summary | file system, LLM | torn lines, failed writes, stops and crashes between append and removal |
| **LLM messages, histories, requests** (`llm.rs`, `prepare.rs`, `capabilities.rs`, `chat.rs`, ...) | the last request; what was probed of a model | repair a history, build a request, trim a prompt | providers | histories cut anywhere, stored by another provider; limits that meet in one request |
| **LLM providers** (`claude_client.rs`, `openai_client.rs`, `ollama_client.rs`, `retry.rs`) | the draft of an answer | translate both ways, put a stream together, classify errors | network | fragments interleaved by index; the same status with different meanings |
| **Standard modules** (`array.rs`, `filter.rs`, `string.rs`, `data.rs`, ...) | config as parsed | one function of config and input each | flows | configs that do not parse; widths, indices, types |
| **Timers, inputs, watchers** (`time.rs`, `watch.rs`, `input.rs`) | a spawned task, its handle, what waits | start, stop, edit, tick | lifecycle | the task checks and acts under two locks while it is edited |
| **Values, definitions, configs** (`value.rs`, `definition.rs`, `config.rs`) | the stored spec of a module | convert, reconcile, resize numbered families | all | specs that outlive the build that wrote them |
| **Desktop backend** (`observer.rs`) | throttle entries per module | throttled config events | observers, timers | flush racing removal |
| **Desktop editor** (TypeScript) | undo history, three-way merge | edit, undo, merge | backend | sequential |
| **CLI, macros, tools** | none | start-up plumbing, code generation | | |

What makes each of them correct, in a sentence:

- lifecycle: one incarnation of a module at a time processes its inbox; what was stopped stays
  stopped; a stop returns, though `process()` may hang; an external input is listed exactly while
  it runs;
- registry: a live patch has one name, a dead one has none; each transition is announced once; a
  running patch can be cancelled;
- structure: connections join modules that exist, the runtime maps agree with the spec;
- router and contexts: what is sent in an order arrives in that order, effects after causes; an
  abort finds the one token of a flow;
- joins: what is put together belongs together, whatever was lost or overtook;
- custom tools: a call gets the result of its own flow and tool, and leaves nothing behind;
- scheduling and turns: one result per call, in order; a call runs once; a turn has one final
  message; an abort ends the turn, the batch and the cycle;
- MCP pool: no child process leaks, a healthy connection is kept, nobody waits for a hanging call;
- MCP server: polling misses nothing the ring has; edits of two sessions do not undo one another;
- session log: what was stored is shown or summarized, once, whatever was interrupted;
- histories and requests: a provider gets a conversation it accepts, with nothing of it lost, and
  the same prefix every time;
- values, definitions, standard modules: what goes in comes out; what a user set is not reset.

`PROJECT.json` lists the hazards of each at the line where they bite.

## 2. The modules and how they follow the code

A step of a specification is what one task does inside one critical section, or between two points
where another may run: an `.await`, or the release of a short lock.  Formatting, logging and events
nobody reads are left out.  Pure code is an operator or a function; where its result depends on
nothing but its input, the state machine around it only chooses the input.

### ModuleLifecycle

The modules of one patch, the host tasks that call the API (the router's task is one), and the
loops.  A *generation* is one value of `MODULE_TOKEN_GENERATION`: an inbox, a token and a loop.

| TLA+ | code |
|---|---|
| `status`, `lock` | `ModuleData.status`, the `AsyncMutex` of the module |
| `channel`, `registered` | an `ExternalInputModule`'s configured name, its entries in `external_input_modules`; `NoChannel` marks every other module |
| `inbox`, `tokenSlot` | the generation in `module_txs` and in `module_tokens` |
| `loop`, `queue`, `token`, `started`, `fresh`, `owner` | one spawned module loop: where it is, its queue, its token, whether its start completed, whether it renewed its token |
| `patchToken`, `running`, `patchLock` | the entry in `patch_tokens`, `Patch.running`, the patch's lock |
| `pc`, `todo`, `target`, `held`, `arg` | a host's call in progress |
| `CallStartPatch` .. `PatchStarted`, `CallStopPatch` .. `PatchStopped` | `Patch::start`, `Patch::stop`: the token is replaced or fired, then the modules are visited one by one |
| `LockForStart`, `ReadInit`, `NewToken`, `Install` | `start_module`: status under the lock, then the slot, then the loop |
| `TakeInbox`, `TakeToken`, `FireToken`, `LockForStop`, `BeginStop`, `Stopped`, `StopFails` | `stop_module` |
| `PollStart`, `BeginStart`, `StartExternal`, `StartPending`, `StartDropped`, `StartCancelled` | the start task and its `select!` with the token |
| `RecvInput`, `RecvConfig`, `RecvStop`, `RecvNone`, `PollInput`, `BeginProcess`, `InputPending`, `ProcessDropped`, `InputSkipped` | the loop's receive and the `select!` around `process()` |
| `RenewLookup`, `RenewInstall`, `ReleaseSlot` | `renew_module_token`, `release_module_slot` |
| `Configure` | `set_module_configs`, through the inbox or directly |

A `select!` branch is two steps: the token is read, then the other future is polled; a stop may
come in between.  Tokens are *attached*, *detached* or *fired*: a parent token can be fired only
through its `patch_tokens` entry, so a child of a parent that left the map can no longer be fired
by the patch.

### PatchRegistry and PatchStructure

PatchRegistry has `patches` (the map), `names` (`patch_names`), `nameOf` (the name inside the
patch), `running`, `tokens` (`patch_tokens`), `modules` (patches with a module in the modules map)
and `announced` (PatchStarted minus PatchStopped events, a history variable).  What happens under a
patch's async lock is one step; what happens under different short locks is different steps, so
`rename_patch` is `CallRename`, `Index`/`NameTaken`, `Recheck`/`Rollback`, `SetName`, and
`remove_patch` is `CallRemove`, `Teardown`, `Unmap`, `Unname`, `Untoken`.  Calls keep the handle
they looked up: they go on after a removal, as in the code.

PatchStructure has what the specs say, `listed` (modules) and `drawn` (connections), beside the two
maps the runtime works from, `modules` and `routes`.  The specs change under the lock of their patch
(`lock`), the maps under short locks; `home` is the patch an instance was made for, `known` the
history of the ids a host has been told of.

| TLA+ | code |
|---|---|
| `AddPatch` | `add_patch_raw`: one step, nobody can name the patch before it is in the map |
| `CallAddModule`, `Create`, `CreateFails`, `List` | `add_module`: lookup, the instance, and later the spec |
| `CallConnect`, `Connect`, `CallDisconnect`, `Disconnect` | `add_connection` (its check of the ends comes before the lock), `remove_connection` |
| `CallRemoveModule`, `StopFails`, `Cut`, `Drop`, `Unlist` | `remove_module` and `remove_module_internal`: the stop, the routes, the instance, and then the spec |
| `CallRemovePatch`, `LockPatch`, `Teardown` (then `Cut`, `Drop` of each module), `Untie`, `Unmap` | `remove_patch` |
| `CallBatch`, `LockBatch`, `Make`, `MakeFails`, `Lay`, `LayFails`, `BatchDone`, `Undo` | `add_modules_and_connections` with its rollback |

### Router, Flows, RunningModules, StdModules, Values, Definitions

*Router* is the message loop: `hub` (the queue), `route` (the message being delivered, target by
target), `registered` and `external` (channels and their stored values), `inbox`, `working` and
`old` (the loops of started modules and of stopped ones that still drain), `flowTokens` (the weak
registry).  `TakeOut`, `TakeExternal`, `NextNode`, `Deliver`, `EndRoute` are the loop of `message.rs`;
`BeginProcess`, `FinishProcess`, `Apply`, `Drain` are the modules; tokens no context holds are dropped
when the registry grows, and `Abort` is `abort_context`.  `Rewire`, `StartModule`, `Started`, `StopModule`,
`SetNameTo`, `Write` and `Quit` are the hosts.  Starting and stopping a module is
what ModuleLifecycle shows it to come to.  The hub queue and the inboxes are unbounded, as in the code
(MA 25, `message.rs:55`): a sender never waits, and the models bound only what is sent.

*Flows* has contexts with their map frames (`index` and `total` of each Map a value came through), the
Maps, `levels` of them one behind the other, and the Sequence that branch, and the joins (Zip, Sync by
order or by context with a bounded cache, Collect) that put together what belongs together.  `Carried`
are the values, arrays and what is in them; `lanes` the messages between the Sequence and the join, which
may keep their order or not (`ordered`), and any of which may be lost.

*RunningModules* has the modules that act on their own: one module runs, `timers` are the tasks it
has spawned, `handle` the `JoinHandle` it keeps; `work` is the call under way, at its next step, since
the throttle looks at the handle and the waiting list under two locks.

*StdModules* gives each standard module without state of its own as the sequence of ports and values
it emits for a config and an input; its state machine edits the config (which may fail to parse) and
feeds every small value.  *Kinds* has the kinds of `Value` and what a value of one kind is as another;
*Values* their JSON, the conversions that go into arrays, and access by path; *Optional* is `Option`.

*Definitions* is the stored spec of a module: loaded by a build whose definition changed or is
missing (`reconcile_spec`), resized (numbered configs and ports), edited by hosts and wires.

### CustomTool, CallTools, ToolBatch, ChatTurn, AgentLoop

*CustomTool*: `registry` (name -> module), `name`, `started`, and `pending[tool][flow]` (the map from
context id to sender).  A call is a record spread over `stage`, `by`, `flow`, `tool` and `channel` (a
oneshot).  `Ask` looks the tool up, `Register` inserts the sender and emits `tool_in`, `Received`/
`TimedOut`/`WaitCancelled` end the wait, `Leave` is the drop guard.  The workflow behind the tool is
the environment: `Answer` may answer any call it was given, late and repeatedly.

*CallTools* is `call_tools`: the loop over the calls of a message (`next`, `at`), the batch gathered
for `buffer_unordered`, the polls of its futures, the biased reading of the token in each poll, the
salvage of what is ready when the token fires.  *ToolBatch* is a promise it keeps (one result per call,
in order; sequential calls alone; at most `limit` at a time; a call that ended keeps its result, but for
a Sequential one that is the last to have been started): a specification of its own, and `KeepsPromise`
is the refinement.  The promise of the doc has no such exception (section 7).

*ChatTurn* is one turn of Chat or Responses with each provider: the request raced against the token,
retries with their back-off, the stream event by event, terminators, errors after partials,
time-outs, aborts and restarts.  *AgentLoop* extends it to the cycle: Chat's message goes to Loop
Control (`loops`, bounded tables of flows) and Call Tool Message (`executed`), whose results start the
next turn.

### McpPool, McpServer

*McpPool*: `pool` and `poolLock` (held across the handshake of a new service), per connection
`service`, `dead`, `connLock` and `background` (the task that cancels a service that was thrown out),
per caller `pc`, `server`, `entry` and `attempt`, and the shutdown (`shutdown`, `drained`, `current`).
On a retry `invalidate` and `get_or_create` are one step, because both happen under one acquisition
of the pool lock.  A caller may be `Dropped` at any await, a call may hang for ever, a handshake fail.

*McpServer*: sessions of coding agents.  A tool call is several steps, since it reads, decides and
writes through calls of the runtime (`add_module` adds, configures, and on failure rolls back, which may
fail in its turn, `RollbackFails`: the module stays and the answer says so, and `undone` has only those
of which it says nothing; `save_patch` renames, writes and removes the old file; `set_module_configs` reads, merges, writes).
`stream` is the broadcast channel the collector reads and may lag behind, `errors` and `outputs` the
two rings it fills from one counter, `cursor` what a session has polled up to.

### SessionLog

One JSONL file and the File Messages module that owns it, with `summarize_model` set.  The file is
`header`, `lines`, `fused` (whose fragments have become part of a line that does not parse) and
`tail` (what follows the last newline); the module is `pc`, `cache`, `entry`, `removal`, `window`;
`acked` is the history of the messages whose append returned.

A log is modelled as the *set* of its entry numbers: the owner appends every entry as it is made and
removal keeps the order, so the order of a log is the order of the numbers.  The budgets and token
estimates are abstracted to any cut some budget would make.  `Context` is `build_context`,
`Cuts`/`WindowFrom` the window, `Prunable`, `NewlyEvicted`, `Emit`, `Summarize`, `Marked` and
`RemoveEntries` the pruning.  `Stop` drops whatever is awaited; `Crash` tears the line that is being
written, perhaps inside a character (`split`), and then no `load` succeeds (`LoadFails`); `AppendFails` is
a write that fails half way.

*Recall* is what the file promises: messages that are `shown` in full, behind a summary of those that it
has `told` of.  A message is said (`Say`), the first ones are folded into the summary (`Fold`), or the
whole file is lost (`Lose`).  `KeepsTranscript` is the refinement; the mapping reads the file as a restart
would, so that it speaks of every state a crash may leave.  System messages are left out (section 7).

### Message, Messages, History, Requests, Wire, AnswerStream, LlmModules

*Message*: a message and its blocks as records. *Messages*: their JSON, what other values become as
messages, its properties by key, its estimate and its trimming. *History*: `prepare.rs` step by step
(roles and blocks the provider lacks, ids, the run of results after each turn, made-up results); a
history grows message by message. *Wire*: the form of messages, tools and answers for each provider and
back, and the classes of errors. *Requests*: the requests Chat, Responses and Completion make of a
prepared history, the configs and what is known about the model; the replies they retry; the probes that
are kept. *AnswerStream*: the streaming loops of the four providers, event by event in any order the
provider's grammar allows, with the tool-call events they send meanwhile. *LlmModules*: the modules
between a conversation and a provider, and Usage and Embeddings.

A text is a sequence of pieces, an id the sequence of its characters with the lengths the providers
allow scaled down; what a text parses to is a table.

### How they compose

The modules meet where the code does.  ModuleLifecycle contains the patch's token and running flag
and PatchRegistry abstracts a whole start or stop of a patch to one step: that is sound because
`Patch::start` and `Patch::stop` run under the patch's async lock, which ModuleLifecycle models
step by step.  PatchStructure shares `remove_patch` and `add_patch` with PatchRegistry, each with the
state the other leaves out, and takes the stop of a module for one that returns or fails
(ModuleLifecycle shows that it returns).  CustomTool, CallTools, ChatTurn and McpPool run inside
`process()` of a module: their aborts and drops are what `ProcessDropped` of ModuleLifecycle does to
them.  AgentLoop composes ChatTurn with the scheduling of its calls, and takes a batch for what
ToolBatch promises.  Requests composes History, Wire and Messages: a request is made of a history
that was prepared and converted; AnswerStream compares what a stream was put together to with what
Wire makes of the whole answer.

## 3. The runs

Every run is exhaustive: TLC finds every state of the instance.  Bounds are constants of the
modules, used only in the guards of the actions that count up (a new generation, patch, call,
entry), so a bound cuts behaviours short and never adds one.  Components whose state spaces are small
share a run: the MC module (`MCCallTools`, `MCAgentLoop`, `MCConversation`, `MCRuntime`) chooses the
part a behaviour is of in the initial state, and the others rest.

| run | instance | states | checks |
|---|---|---|---|
| `lifecycle_hosts` | two hosts (one `startModule`, `stopModule`, `setConfigs`; one `startPatch`, `stopPatch`, `startModule`) and one ExternalInputModule, two channels | 1,429,198 | `SlotsAgree`, `RegistrationMatches`, `DeadInboxWasCancelled` |
| `lifecycle_patch` | one host that starts and stops, and the router's task, one module | 827,605 | `OneLiveLoop`, `OwnerProcesses` |
| `lifecycle_stop` | one host, one module, with fairness | 41,411 | `StopsEnd` |
| `registry` | three hosts, two patches, two names | 843,077 | `NamesHold`, `TransitionsAnnounced`, `RunningIsCancellable` |
| `structure` | three hosts, two patches, three module ids, batches of up to two modules | 1,208,137 | `DrawnAsRouted`, `NothingOutOfReach` |
| `custom_tool` | two callers, two tools, two names; an agent of two flows | 1,369,820 | `NoLeftoverSender`, `CallsReachTheirTool`; `OneFinal`, `CallsRunOnce`, `AbortEnds` |
| `mcp_pool` | a batch of up to four calls; two callers of one server, three connections, with fairness | 84,266 | `KeepsPromise`, `AbortReturns`; `ServicesHeld`, `HealthyStays`, `PoolProgress` |
| `session` | a log of four entries; histories of up to four messages; requests, replies, streams | 247,877 | `ToldOnce`, `KeepsTranscript`; `PairingHolds`, `PrefixKept`; `RequestLegal`, `RetriesFit`; `WireHolds`; `AnswersHold` |
| `runtime` | see below | 762,625 | `RoutesByConfig`, `ValuesAgree`; `JoinsWhatBelongs`, `CollectRestores`; `TimersKeep`, `QuietWhenStopped`; `EditsSurvive`; `OneToken`, `RoutedInOrder`; `PagesAreWhole`, `CallsLeaveWhole` |
| `custom_tool_fanout` | two callers of one flow, one tool |  | a finding of section 7 |
| `session_system` | a log of five entries |  | a finding of section 7 |
| `mcp_edits` | two sessions, three writes |  | a finding of section 7 |

What the runs show, and why the bounds are enough:

- **`lifecycle_hosts`**: inbox and token slot always name the same loop (`SlotsAgree`), an external
  input is listed under its channel exactly while it is started (`RegistrationMatches`), an inbox whose
  loop is gone can only be left by a start that was cancelled (`DeadInboxWasCancelled`).  Two
  generations are one incarnation and its successor: the races are between neighbours, as each step of
  the code compares with the generation in the slot only.  A queue of one is enough to have a message
  waiting when a stop comes.  One module is enough because the modules of a patch share only the
  patch's token, lock and running flag, all of which are in the instance.
- **`lifecycle_patch`**: a module that one host starts never has two loops that are not cancelled; an
  input is given to `process()` only by the loop that owns the slot; a loop that was cancelled never
  runs again under a live token, though `renew_module_token` gives it a new one after an abort.
- **`lifecycle_stop`**: stops return and the loops they stop end, though `process()` may hang.
- **`registry`**: the three hosts can each hold a handle of the same patch, so a rename, a removal
  and a start can overlap in every order; two names and two patches are the least with a clash.
- **`structure`**: one host adds patches, modules and connections, one adds batches and removes
  modules, one removes connections and patches.  Three ids make a chain of two connections, which
  share a module, across an existing module and a batch.
- **`custom_tool`**: two callers of one flow (an output that fans out) and of another; an agent of two
  flows with every provider, streamed or not, shown or not, with one message or, for streamed
  Responses turns, with two inputs or one and a repetition; retries where every message is shown; one
  iteration allowed and one flow tracked,
  so that both the limit and the eviction are met.  `OneFinal`: whoever acts on the message port acts once.
  `CallsRunOnce`: no call runs twice, only calls of whole messages run, and a flow goes round a bounded
  number of times.
  `AbortEnds`: nothing of an aborted flow starts any more.
- **`mcp_pool`**: four calls of any modes, at most two at a time, so that a batch is fuller than its
  limit and a sequential call stands between batches; three connections are the first, its
  replacement and the replacement of that, in the hands of two callers that may each retry once.
- **`session`**: in the log four entries are messages, a summary and a crash in every order; a second
  summary, which merges the first, comes in with the fifth (`session_system`), and the theorems of
  `ConversationProofs` hold for any number.  Histories of up to four messages, from ten that have each kind
  of id, result and turn, are enough for a turn with two calls, its results out of order, and a message
  between.  Requests meet every setting of thinking, limits and options.  Streams are as long as two
  blocks or calls with interleaved fragments need: nine events of Claude, eight of Responses, six of
  OpenAI, three of Ollama.
- **`runtime`**: the standard modules on every value of a small set that has each kind, and edits that
  do not parse; flows of arrays of two, of one and of none, nested twice, one item lost; a module with
  three timers, three arrivals, two edits and a stop; specs loaded three times by five builds; a
  router with three wirings (a channel that feeds a channel; inputs renamed and restarted under
  writes; a failure that renames a module); two sessions of the server with rings of one or two
  records and two edits of a config (`mcp_edits` has three).

Each property is broken by a mutant of the code it is about (`PROJECT.json`, `mutants`): a definition
marked "Mutant" in the module, never part of `Next`.

## 4. Fairness

Only `lifecycle_stop` and `mcp_pool` assume any.

- ModuleLifecycle, `FairSpec`: a task that is runnable runs (weak fairness of each of its steps; tokio
  polls a woken task in the end); an async lock is handed out in FIFO order, so a waiter that is
  enabled again and again gets it (strong fairness of the steps that lock); `stop()` of a module
  returns.  `start()` and `process()` may hang for ever: that is the case the properties are about.
  Hosts need not call anything.
- McpPool, `PoolFairness`: the same for its tasks and FIFO locks; a handshake and the cancellation of a
  service end, the shutdown task goes on, and its five-second timer fires.  A tool call may hang for
  ever.  That a handshake ends is an assumption on the server: the code sets no bound on it and holds
  the pool lock meanwhile, so a server that wedges there stalls the pool.  `PoolNeverStalls` speaks of
  behaviours that stay within `MaxEntries`, since beyond the bound no caller can connect.
- CallTools: weak fairness of the one task of `call_tools` (`Task`); tools need not end.

## 5. What is proved

The theorems hold for every value of the constants, hence for any number of modules, hosts, patches,
calls, contexts, records and entries.  They rest on the named assumptions of the modules
(`LifecycleAssumption` and `FiniteModules`, `RegistryAssumption` and `FiniteCallers`,
`StructureAssumption`, `CustomToolAssumption`, `ChatAssumption`, `LoopAssumption`, `PoolAssumption`,
`SessionAssumption`, `CallToolsAssumption`, `RouterAssumption`, `McpAssumption`, `RunAssumption`,
`FlowsAssumption`, `DefinitionsAssumption`, `RequestsAssumption`): typing of
the constants, that the null values are not members of the sets they extend, and what the code checks
itself (a connection is not listed twice, a config key is not global and local at once).  The last two say
what a definition, an edit, a table of models and an answer of a provider can be: the default size of a
numbered family is within its bounds and no declared key begins with `_`; every request gets an answer.  TLC
evaluates them in every run.

Two results have a hypothesis of their own, stated in the theorem because the code does not keep it
(section 7): modules are started only by their patch (`StartedByPatch`, for `RunInvHolds`,
`OneLiveLoopHolds`, `OwnerProcessesHolds`), and one session saves patches (`OneSaves`, for
`CallsLeaveWholeHolds`).  The runs that check these properties are of instances that satisfy it.

| module | theorems | inductive invariant |
|---|---|---|
| `ModuleLifecycleProofs` | `TypeCorrect`, `SlotsAgreeHolds`, `RegInvHolds`, `RegistrationHolds`, `GenInvHolds`, `DeadInboxHolds`, `RunInvHolds`, `OneLiveLoopHolds`, `OwnerProcessesHolds` | `RegInv`: a call or loop that is inside `start()` or `stop()` has the module's lock (`LockedLoops`, `LockedStops`), a stop in progress finds the module started (`StopsInProgress`), and a list has the module as often as its status and configuration say (`Listed`); `GenInv` and `RunInv`, below |
| `PatchRegistryProofs` | `RegistryTypeCorrect`, `RegistryInvHolds`, `NoDeadNamesHolds`, `OneNameHolds`, `NamesAlwaysHold`, `CancellableHolds`, `AnnouncingHolds`, `AnnouncedHolds` | `RegistryInv`: ids never return (`FreshIds`, `Gone`), a name of a removed patch is about to be cleaned by the call that removed it or by the rename that set it (`DeadNamesCleaned`), the index is injective (`IndexInjective`), a rename in progress keeps its name (`KeepsName`), a running patch has its token (`RunningIsCancellable`); and `Announcing`, below |
| `PatchStructureProofs` | `StructureTypeCorrect`, `StructureInvHolds`, `DrawnIsRoutedHolds`, `RoutedIsDrawnHolds`, `InstancesListedHolds`, `FailuresLeaveNothingHolds`, `DrawnAsRoutedHolds`, `NothingIsOutOfReach` | `StructureInv` = `HomeInv`, `WireInv`, `AllListed`, `KnownInv`, below |
| `AgentProofs` | `AgentInvHolds`, `OneFinalHolds`, `CallsRunOnceHolds`, `WholeCallsRunHolds`, `AbortEndsHolds`; `CustomToolTypeCorrect`, `FoundToolRunsHolds`, `CallInvHolds`, `NoLeftoverSenderHolds`, `ResultStaysInFlowHolds`, `CallsReachTheirToolHolds` | `AgentInv` (with `ChatInv`), below; `CallInv`: a sender belongs to a call that will still remove it (`NoLeftoverSender`), and a result is that of a call (`ResultsOfCalls`) of the same flow and tool (`ResultStaysInFlow`) |
| `ToolProofs` | `PoolTypeCorrect`, `PoolInvHolds`, `NoLeakedServiceHolds`, `BusyIsLiveHolds`, `ServicesAreHeld`, `HealthyStaysHolds`; `BatchInvHolds`, `KeepsPromiseHolds` | `PoolInv`: entries are fresh, one per server in the pool, a connection lock is held by a call with its service or by a cancellation that has taken it out (`CancelLocks`), what the shutdown drained it cancels (`Draining`); `BatchInv`: the answers are those of the first calls, those gathered come right after them and are all parallel (`Progress`); what is answered has ended, what is ahead waits, only what the task is at runs (`Futures`); a call that has ended has a result (`Yields`) |
| `ConversationProofs` | `SessionTypeCorrect`, `CrashTailsAreCutHolds`, `LogInvHolds`, `NothingForgottenHolds`, `SummarizedOnceHolds`, `ToldOnceHolds`, `KeepsTranscriptHolds`; `LimitsFitHolds`, `RetriesFitHolds` | `TailInv`, `LogInv`, `RecallInv`; `RequestInv`, all below |
| `ModuleDataProofs` | `FlowInvHolds`, `JoinsWhatBelongsHolds`; `SpecInvHolds`, `EditsSurviveHolds` | `FlowInv`; `SpecInv`, both below |
| `RuntimeProofs` | `RouterTypeCorrect`, `OneTokenHolds`, `RouteInvHolds`, `RoutedInOrderHolds`; `McpTypeCorrect`, `PagesAreWholeHolds`, `ModulesStayWholeHolds`, `CallsLeaveWholeHolds`; `TimersKeepHolds`, `QuietWhenStoppedHolds` | `RouteInv`; `PagesInv`, `WholeInv`, `SaverInv`; `RunTypeOK`, `OneTimer`, `ValueInv`, all below |

The arguments that are not mere bookkeeping:

- *Which loop a slot names* (`GenInv`).  A generation is allocated once and to one module
  (`Allocation`); slots name loops of their module (`SlotsOwned`), a token about to be fired and an inbox
  that a Stop was sent on have left theirs for good (`Taken`, `StopsTaken`).  So a loop that still has its
  inbox in the slot has its token there too, or was cancelled (`InboxHeld`, `DeadInboxWasCancelled`).
- *One loop at a time* (`RunInv`).  A loop has a *claim* on its module while its token has not fired, or
  could be renewed because it still has the slot.  A patch that is stopped, with its lock free, has no
  claims on its modules (`AtRest`); a host that starts or stops the patch has the lock (`Holding`), a start
  finds no claim on a module it has not visited, a stop leaves none on one it has (`Visiting`).  So there
  are never two (`OneClaim`), and a loop that runs without the slot was cancelled (`Owns`).  With
  `startModule` from a second host `Holding` fails: that is the case of section 7.
- *One final message, last* (`ChatInv`, in `AgentInv`).  Where a turn is says what it has sent: partials
  until the final, which is the last (`FinalKnown`, `FinalIsLast`); a turn that has ended has its final,
  or is one of Claude or Ollama whose stream ended without a terminator (`NoPartialLeft`; section 7).  A
  message that is aborted is empty (`AbortedIsEmpty`).
- *Rounds end* (`AgentInv`).  What has run is marked in `executed` for as long as the flow is remembered
  (`RunsMarked`), and a flow has no more rounds than Loop Control has counted (`Counted`), whose last turn
  it knows: so a message that is delivered again adds nothing.  The tables are bounded: a flow that was
  evicted (`forgot`) is left out, as in the property.
- *One token per flow* (`OneTokenHolds`).  The registry holds its tokens weakly and is pruned when it
  grows; a token that any context in the hub, the route, an inbox, a working module or a draining loop
  still holds survives, and a new context of the flow takes that one.
- *In order, causes first* (`RouteInv`).  What is in the hub was sent later than all that was sent before
  it (`SentInOrder`); the message on its way has not yet travelled the wires that are left of its route
  (`Untravelled`), so that its number is new to their targets; and all a context goes back to has been
  announced or is being announced (`CausesKnown`).  A channel lists only started modules, once
  (`ListedWhileStarted`).
- *Pages are whole* (`PagesInv`).  The records of a ring are numbered as they came, what a session had
  lies up to its cursor, and what is in the ring up to there it had; a page takes what lies behind the
  cursor from the front, so the new cursor, its last record, skips nothing.
- *Calls that are overtaken* (`WholeInv`, `SaverInv`).  What `set_module_configs` is about to write was
  read from the module, which may have changed or gone since: it still has only keys the definition
  declares (`WritesFit`), and `configs_changed` settles the numbered ones.  Each file has the patch of
  its name, or the one that is being saved under another.  An `add_module` that answers that its module
  remains is taken at its word (`RollbackFails`); one that answers with an error and no such word has left
  none.
- *One timer* (`OneTimer`, which is inductive with the types and `Unstopped`).  A task that goes on is the one
  in the handle, or the one whose handle is about to be stored; every start finds the handle free, every
  stop and every restart aborts what it names.
- *No value is lost* (`ValueInv`).  Values are numbered as they come (`NumberedValues`), the one at hand is the
  last; as long as nothing was stranded, nothing waits without a timer nor while a value is about to go
  out past the queue (`InTurn`): hence the order.  The oldest give way (`NoneLost`), whether to a tick, to
  a new one, or to a smaller capacity.
- *No crash tail in a running module* (`TailInv`).  A fragment is left by a crash, and a crash stops
  the module; `start()` loads the file before anything is appended, and `load` truncates the tail.
  So a running module never appends to a fragment of a crash.  (A failed write is another matter, and so is
  a line torn inside a character, after which no start succeeds: see section 7.)
- *Nothing is forgotten* (`LogInv`).  Entries are made in order and never reused (`Made`, `Fresh`); a
  marker covers what its predecessors covered (`Ordered`, `HasLatest`); the module's cache and the file
  have the same entries except while a removal is in progress (`InSync`).  Then both the cache of a
  running module and a file that parses *remember* every acknowledged message: it is shown, or told
  of by the latest marker, never both (`Remembers`).  The steps that could lose a message are split
  in two: `Marked` may be interrupted after the marker is in the file, but then the marker already
  covers what is to be removed (`Summarizing`, `Marking`), and `RemoveEntries` takes away only what is
  not shown (`Removing`).
- *The file keeps the transcript* (`KeepsTranscriptHolds`, a refinement of Recall, from `RecallInv`).  The
  message from which the latest marker shows the conversation is never removed (`KeptFirst`), so that what
  is behind it stays in view; what the file has beyond the cache is hidden by that marker, so a restart
  shows the same (`SameContext`); and the marker that is being appended tells of just what the last one
  told of and of what it is about to hide (`Telling`).  Then the append of a message is a `Say`, of a marker
  a `Fold`, a write that leaves the file unreadable a `Lose`, and everything else, the removal and the crash
  included, changes nothing a reader could see.
- *Joins put together what belongs together* (`FlowInv`).  A message on a lane, in a queue or in the
  cache carries the item its frames lead to in the array of its flow (`JoinFits`), at any depth; what is
  cached is under the key of its item, which tells items apart (`KeyTells`).  By context that is enough,
  whatever is lost or overtakes.  By order it takes more: one of the two ports is always waited for, so
  the message that completes a pair belongs to the heads of the queues, and as long as nothing is lost or
  overtaken the queue and the lane of one side, taken together, have the items of those of the other
  (`Aligned`).  The functions that go down the frames and up the levels are recursive; that they exist at
  every depth, and that they agree, is shown from the least depth at which they would not (`NoException`).
- *Edits survive* (`SpecInv`).  A spec keeps its form, the size of a numbered family stays in its bounds,
  and texts stay texts, which is why a resize and a load by another build give back what was set
  (`RenumberIs`, `ReconcileIs`).  A build without the module changes nothing; one with other keys
  puts the unknown ones aside, and the one that knows them again takes them back.
- *Requests within the limits* (`RequestInv`).  The last request is what the configs, the tables and the
  answers made of it.  A budget for thinking is cut to what `max_tokens` leaves (`Fits`), or is not sent; what
  options overlay is given in closed form; the level that is chosen is the nearest the model has, which
  exists since numbers have a least.  An answer is retried only if it may pass, and the attempts end with
  the first that may not or with the last allowed (`Attempts`).
- *Specs and maps agree* (`StructureInv`), though the calls of a patch hold no lock that covers both.
  First everything has a home (`HomeInv`): an id is handed out once, a batch makes its own modules,
  and what is drawn, or about to be drawn, in a patch joins modules of that patch; so two patches
  never draw the same connection, and a rollback takes away nothing another call drew.  With that,
  a drawn connection is routed unless its module or its patch is on the way out, and every route is
  drawn (`WireInv`); an instance is listed or in the hands of the `add_module` that lists it
  (`AllListed`); and an id nobody was told of is in the hands of the batch that rolls it back
  (`KnownInv`).
- *Every transition is announced once* (`Announcing`), though a start or a stop emits its event after it has
  released the patch's lock, so that the events of two hosts may come in either order.  What the
  observers were told of a patch, plus the `PatchStarted` that calls still owe, minus the `PatchStopped`
  they owe, is one if it runs and zero if not, unless a removal has taken it over.  The calls under way
  are counted, so the set of hosts must be finite (`FiniteCallers`).  When no call is under way, nothing
  is owed.
- *`call_tools` keeps what ToolBatch promises* (`KeepsPromiseHolds`, a refinement).  The steps of the code
  map to steps of the promise: a call the task starts to a `Start`, or to a `Refuse` when the token has
  fired, for what is open is in flight and hence below the limit, and gathered and hence parallel; the
  end of a call to an `End`; the last flush, or an abort with its salvage, to the `Return`; all else
  to a stutter.  A Sequential call that is ready when the token fires is dropped with its result: the promise
  allows that, since the code does it, of the last call that was started (section 7).

Each proof has one step per action under `IInv /\ [Next]_vars => IInv'`, and lemmas for what several
actions do to a map.

## 6. What is only model-checked

- Liveness (`StopsEnd`, `AbortReturns`, `PoolProgress`): TLAPS reasons about neither fairness nor
  ENABLED.
- What Collect gives back (`CollectRestores`).  That the items which reach it belong together is proved; that
  it makes whole arrays of them needs an invariant of what every level has collected against what is still
  to come from below it, which is not written (section 9).
- What functions over data compute: conversions and routing (`RoutesByConfig`, `ValuesAgree`), the repair
  of a history (`PairingHolds`, `PrefixKept`), the blocks of a Claude request (the part `BlocksFit` of
  `RequestLegal`), the forms of the providers (`WireHolds`), streams and the modules around a conversation
  (`AnswersHold`).  They recurse over JSON, paths and runs of results, or are made of functions that do,
  and induction over data is out of the prover's reach.
- Where a theorem needs a function all the same, the model has it without RECURSIVE: as a recursive function
  over numbers (Flows), or as a closed form: `Within` (Retain) stands for SelectSeq.  The modules the theorems
  are about reach no RECURSIVE operator; for that Kinds and Message stand apart from Values and
  Messages.
- `GuardRemovesOwn`, `SystemStays` and `EditsMerge`, which the code does not keep, have a counterexample
  each (section 7).

## 7. Where the code does not do what is said of it

Three are counterexamples of runs; `PROJECT.json` quotes the lines.

- `custom_tool_fanout`: the drop guard of a call removes the sender of another call of its flow,
  against the comment at `tool.rs:1159`.
- `session_system`: the first rolling summary hides the system message from the context and, at the
  next pruning, deletes it, against the module's own description.
- `mcp_edits`: `set_module_configs` of the MCP server writes back all configs it read before, so that
  of two edits at once one is undone, though the tool says that it merges.

Other differences seen while modelling.  The models follow the code; the properties leave these cases
out, or are stated so that they allow them.

*Runtime.*
- Two calls of `start_module` at once both find the module in Init and spawn a loop each (MA 1434-1438);
  an external input is then listed twice, against `external_module.rs:219-222`.  `lifecycle_patch` has
  one host that starts.
- `remove_module` leaves the connections of the module in the spec (MA 1178), where the MCP tool says
  that it removes "all its connections" (`mcp_server.rs:1163`).  They are saved; when the file is loaded,
  `update_ids` (`id.rs:38`) keeps the id of the missing module, which another module may have by then.
- A stop that falls between the two polls of a `select!` (MA 1466) returns while the start completes: a
  patch that is stopped may have a started module.  A `stop()` that fails leaves the status Stop, and
  the module cannot be started again (`module.rs:360`).
- "Inputs dispatched after the token fires are skipped before process()" (MA 1387): the loop reads the
  token before its `select!`, so an abort in between is seen only at the next await of `process()`.
- A config queued for the loop of a module being stopped is drained after a newer edit that found no
  inbox (MA 1654): the older value stays (`Drain` of Router).
- Two renames that cross leave the index and the patch's own name different for good
  (`PatchRegistry`); an `add_module` that a `remove_patch` overtakes leaves an instance no live patch
  lists (`PatchStructure`).

*Joins and standard modules.*
- When an item of an array is lost and another flow arrives, Collect drops what it has (`array.rs:421`,
  `CollectProcess`), against its doc that incomplete arrays are emitted when the context changes
  (`array.rs:372`).  `CollectRestores` says what the code does: no array comes out that is not whole.
- Zip and Sync by order pair the wrong items for good once one was lost; Map of an empty array emits nothing, so Collect does not make it again.
- String Length Split does not end when a character is wider than the length less the overlap
  (`string.rs:187-211`).
- A throttle may keep a value that nobody sends until the next input: its task looked at the list
  before, and gave up the handle after, the value was queued (`time.rs`).  A Delay never gives back
  the place of an input that was cancelled while it waited (`time.rs:69`).
- Stored keys that a build does not know are put aside under `_key`; a second one overwrites the
  first.  `external_values` is written and never read.

*LLM.*
- A Sequential call that has ended when the token fires is answered "Operation aborted", since the `select!`
  around it is biased to the token (`tool.rs:825`, `AbortAlone`) and nothing salvages it, against the doc that
  calls that completed keep their real result and that finished side effects are not misreported as aborted
  (`tool.rs:768-771`).  `KeepsPromise` allows it for the last call to be started, and for no other.
- A crash that tears the last line of a session inside a character makes every later `load` fail
  (`LoadFails`), as it reads the file as UTF-8 before it looks for the last newline (`session.rs:367`),
  against the doc that a torn line is discarded (`session.rs:283-287`).  `ToldOnce` does not say that the
  file can be loaded after every crash, only what is told once it is.
- Chat and Responses panic on an array of arrays (`value.rs:569-588`).
- A Claude or Ollama stream that ends without its terminator sends no final message, against the
  doc at `chat.rs:61-67`; an OpenAI one sends a final with tool calls that may be incomplete; a
  Responses turn that ends in `response.failed` still runs the calls it had.
- Fragments of a refusal are each prefixed in an OpenAI stream, and dropped in a Responses stream; an
  Ollama stream unwraps arguments under "properties" where the whole answer does not.
- `TryFrom<Value> for Message` drops tokens, the ids of results and parse errors.  Estimates count
  bytes where their doc says characters.
- For Claude, options may set thinking, temperature and max_tokens to values that the checks of the
  same request have just excluded.  Ollama retries 502 to 504 only; its 404 is a config error.
- A write that fails half way leaves a fragment to which the next append is glued, and the session
  cannot be loaded any more (`AppendFails` of SessionLog).

*MCP server.*
- An `add_module` whose rollback fails says that the module "remains in the patch"
  (`mcp_server.rs:1052-1057`), also when it fails because another session has removed the module already.
- `save_patch` renames before it writes; when the write fails and the call is repeated, the file of
  the old name stays (comment at `mcp_server.rs:1298`); when the freed name was saved by another session
  meanwhile, its file is removed.

## 8. What is not modelled

- The desktop backend (commands over the core and file I/O; the config throttle of `observer.rs` is
  the one part with a race), the desktop editor (sequential TypeScript), the CLI, the macros and
  tools (no run-time state).
- I/O and pixels: `file.rs`, `image.rs`, the bytes of a stream before they are events, HTTP, base64.
- Connections between modules of two patches: `add_connection` asks only that the modules exist
  (MA 1003-1013), and a batch nothing at all; PatchStructure draws none across patches, as the hosts do.
- Of the core: the shutdown of the whole runtime, `update_patch_spec` and the extension fields of a
  spec, patches loaded with connections to modules they do not list, YAML and TOML.
- Of the MCP server: the tools that only read, start, stop or write, its connections, and the removal of
  patches while a session works on them (a rollback that fails for it is `RollbackFails`).
- Of the sessions: reset, the in-memory store, plain deletion without `summarize_model`, two modules on
  one file, operations that outlive the task that started them.
- Of the LLM crate: `summarize.rs` and `doc.rs`, refusals in streams, List Tools.

`PROJECT.json` gives the status of every component.

## 9. The plan

In place, in the order in which they were built: ModuleLifecycle, PatchRegistry, CustomTool, McpPool,
SessionLog, PatchStructure (checked and proved); CallTools with ToolBatch (checked and proved), ChatTurn and
AgentLoop; Values, StdModules, Definitions; Flows, RunningModules, Router; Messages, History, Wire,
Requests, AnswerStream, LlmModules; McpServer; the proofs of AgentLoop, Router, McpServer and
RunningModules; Recall, which SessionLog implements; the proofs of Definitions, of the joins of Flows and
of the limits and retries of Requests.  Left, in order of importance:

1. An abstract contract of a module (off, starting, on, stopping; stops win) shown to be implemented by
   ModuleLifecycle; the shutdown of the runtime in Router.
2. The runs of results in History as a closed form over positions instead of a recursion, so that
   `PairingHolds` can be proved; then `CollectRestores` for arrays of one level.
3. The config throttle of the desktop and its three-way merge.
4. Reset and the in-memory store of the sessions, as further implementations of Recall.
