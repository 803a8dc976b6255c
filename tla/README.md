# LIVA in TLA+

A verification project for the concurrent core of LIVA, a local voice assistant
written in Rust: TLA+ models of its actors and of the protocols around them, TLC
configurations that check them on small instances, and TLAPS proofs of what each of
them promises for every instance. `PROJECT.json`
is the index: components, runs, mutants, the lines of the source each definition
stands for, hazards, findings and theorems.

Run a model with `tlc -config DbActor_writer.cfg MCDbActor` (the module of each run
is in section 3) and the proofs with `tlapm DbActorProofs.tla`; the other proof modules are
`OutboxProofs`, `SessionProofs`, `LlmProofs`, `VoiceProofs`, `CuaProofs`, `ClientsProofs` and `McpProofs`.

## 1. The system

LIVA is a workspace of seven Rust crates (`liva-native-core`, `liva-cua`,
`liva-storage`, `liva-llm`, `liva-core-types`, `liva-tools`, the desktop shell) with
a Vue interface around them. What is hard in it is not a distributed protocol but a
set of actors in one process: tokio tasks and OS threads that own a piece of state,
take commands from bounded channels, answer over one-shot responders, and outlive
the callers, turns and transactions they work for.

```
  microphone ──> coordinator ──> WebRTCActor ──spawns──> STT / reply / TTS jobs
                    ^  control+speaker channels  │              │
                    └────── forwarder <──────────┘              │ generate
  IPC commands ──> SessionManager ──> SessionActor ─turn task─> LlmActor ─> worker ─> engine
        │   │                            │      │ checkpoint
        │   │ draft / confirm            │      v
        │   └─> outbox (─> Telegram, tab)┼──> DbActor (writer thread) ──> SQLite WAL,
        │                                │      ^  ^  ^                   CsrGraph
        │                  active recall ┘──────┘  │  └── projection, deletion, retention
        │  plan / macro plan      tools: MCP client ──stdio──> child process
        └─────────> orchestrator, router ──> CuaEngine ──> device
                       kill switch ──────────────^  └──> audit recorder ─> file, DbActor
```

### Inventory

| Component | State it keeps | Operations | What is hard | What makes it correct |
|---|---|---|---|---|
| Writer `DbActor` (`db_actor.rs`) | channel of 1024, connection, batch, transaction, L3 graph builder and published snapshot | 13 commands, `flush`, `execute`, fire-and-forget variants, close, crash | greedy batches, transactions split around closures, early and late answers, rollback | an answer tells the truth about the database; order; nobody forgotten; the graph shows committed rows only |
| Bridge (`to_storage_handle`, `liva-storage`) | a channel in front of `DbActor` | the audit trail's batches | a second queue whose answers nobody reads | as above. The crate's own writer `run_db_actor`, with its time window, is started by tests only |
| Message outbox (`messaging/outbox.rs`, `commands/messaging.rs`) | table of at most 32 encrypted drafts with a TTL of 300 s | draft, confirm, cancel, pending | consumption before an irreversible send; expiry, eviction, crash, repeated confirmation | a message goes out at most once, only after a confirmation of a draft that was alive |
| Sending (`messaging/mod.rs`, `integrations/messenger.rs`) | none of its own: the one Messenger tab of the user's browser, with its compose box | one request to Telegram's server; open, clear, type, press, click, look | two confirmations in one tab; an empty box is all it can see | what is told of a message is what left, if nothing disturbed the tab |
| Active recall (`active_recall.rs`) | trie and map of the facts in memory, version, a pending challenge per session, statistics | refresh, search, ask, judge, expire | version raised before the commit; rows read before the version; copy swapped under two locks | the copy shows no value nobody committed; a challenge is judged once, against a value the fact had |
| Remembered turns (`memory_consolidation.rs`, `db/deletion.rs`, `memory_retention.rs`) | rows of events, projections, triples, dead letters; the graph in memory | persist, consolidate, retry, delete, sweep | a projection overwritten under its event; retention beside new turns | rows of a turn live and die together; retention spares the conversations it saw active; no turn blocks those behind it |
| Session actor and manager (`agent/session_actor.rs`) | mailbox, status, active turn, backlog, collect buffer, agent state, checkpoint | 4 queue modes, steer, interrupt, shutdown, completion, debounce, idle timeout, re-creation | a turn runs on a copy of the state beside the mailbox | one turn at a time; completed turns are never lost; every request answered |
| LLM actor (`crates/liva-llm/src/actor.rs`) | channel, three queues, running generation, cancel tokens | generate at three priorities, cancel, shutdown | preemption of a blocking worker | FIFO within a priority, preemption, no unfounded cancellation, everybody answered |
| Voice pipeline (`webrtc/pipeline.rs`, `voice_coordinator.rs`) | state, epoch, jobs, echo canceller mutex, event/control/speaker channels, epoch gate | VAD events, interrupt, speak text, reports of the jobs | cancellation is by epoch and takes effect late; two channels to the client | the client hears nothing of a cancelled turn; no turn is orphaned; the pipeline gets back to idle |
| MCP client (`mcp/client.rs`, `mcp/registry.rs`, `mcp/transport.rs`) | registry, child process, reader task, map of pending requests | connect, request with timeout, pages, routing, close | a timeout racing an answer; a child that dies between two steps or stops reading; an aborted turn | an answer goes to its call; pending requests are owned; every call returns unless a child that lives no longer reads |
| Emergency stop (`kill_switch.rs`) | flag, token, status, counters, polling thread | trigger, reset, poll | stores without a lock, by several threads | flag, token and status agree when nobody is in a call, unless a trigger and a reset have overlapped; the next call that the other kind does not overlap brings them together |
| Computer use: engine, orchestrator, recovery, router (`liva-cua`) | plan, step, attempt, delivery mode, step results | execute action, run plan, recover, run macro plan | a stop between any two steps; retries beside irreversible input | little input after a stop; an action leaves a record; a success was seen |
| Computer use: audit trail (`audit.rs`) | ring, channel, batch, file, ledger | record, collect, rotate, hand over | lock-free recording, rotation by day, restarts | file and ledger list what was accepted, in order |
| Computer use: policy, perception, input devices, Android | tables, images, handles | decide, compare, send | external device | verdicts are inputs of the models |
| Turn audio, VAD, turn taking, echo, noise (`webrtc/*`) | sample buffers, thresholds | `ingest`, `force_end` | cut at 20 s | no sample belongs to two turns |
| Knowledge graph (`db/csr_graph.rs`) | CSR arrays, property maps | insert, rebuild, traverse | two publishers | see the writer |
| Bitemporal memory, deterministic writer, markdown mirror, idempotency records (`cognitive/*`) | SQLite tables, files | one transaction each | no production caller | |
| Cognitive proposals and policy | audit chain, proposals | validate and write | hash chain | chain unbroken |
| Hardware governor | counters under a mutex | acquire, release, cool down | unmatched release | no slot leaks |
| Authorization, consent, keystore, crypto | tables, keys | check, read, write | a row under another key | fail closed |
| LLM engine and who loads models (`llm/engine.rs`, `expert_governor.rs`, `lib.rs`, `boot.rs`) | model, KV cache, last tokens, path, layers, role, prompt format, the process's cancel flag, the game loop's latch | load, expert swap, warm up, reload for a game, four kinds of generation, cancel | one lock for minutes, a flag set without it, a cache reused by inference, loads that fail | the context is the prompt; a cancel is heard; records name the model |
| Agent graph, sidecar, OpenAI surface, speech engines | models, child processes | run one turn | external failure | errors are reported |
| MCP server, skills, Telegram, passive hooks, evolution, backups, configuration | sockets, files | poll, call | external services; read-modify-write of one file | |
| Shell, UI, tools, other programs | views | IPC | | |

`PROJECT.json` lists each with its sources, its status and the reason when it is not
modelled. `hazards` lists what can go wrong in the modelled and the planned parts, at
the line where it bites, with the properties that would catch it.

## 2. The models

The data is abstract: a command, a message, an event or a turn is an identity, and a
state that accumulates (the database, a conversation, a graph) is the set of the
identities it contains. The control is kept: each handler is one action, or the steps between which
another actor can act. Histories (tickets, `since`, `asked`, `late`) are marked in the
declarations and guard nothing.

### `DbActor` with `AckStore` and `DbActorProofs`

| Model | Code |
|---|---|
| `queue`, `open`, `called` | the mpsc channel, the handles, the callers |
| `phase`, `conn`, `batch`, `done` | where the thread is in `run_db_actor`/`process_transactional_batch`, `persistent_conn`, the rest of the batch, the commands executed and not yet notified |
| `durable`, `rows` | committed writes; committed and not deleted L3 rows |
| `builder`, `shared`, `mine` | `csr_builder`, the `ArcSwap`, `last_stored_arc` |
| `Submit`, `NotAccepted` | `send().await`, `blocking_send` and `try_send` with the channel full |
| `Receive`, `Drain` | `blocking_recv`, then `try_recv` up to 50, ended by a flush or a closure |
| `CheckoutFails`, `RejectQueued` | the connection pool fails |
| `Begin` … `Acknowledge` | one transaction: BEGIN, each operation, COMMIT or ROLLBACK, publication, answers |
| `StandaloneOk/Fails`, `Refresh` | checkpoints and closures, which run outside the transaction |
| `Crash`, `Restart` | the process ends anywhere; SQLite discards what was not committed |

`AckStore` is what a caller may rely on: stored at most once, told Ok only when stored,
told an error only when not stored now or ever. `DbActor` implements it for the commands that
are promised something (all but recall statistics sent without responder, session
events, flushes and checkpoints), which TLC checks and TLAPS proves.

### `RecallCache`, `AuditTrail`, `MemoryLife`, composed in `WriterClients`, with `ClientsProofs`

Three clients of the writer. `WriterThread` is the writer as they see it, one holder at a time: a
client whose work on the connection takes several steps holds it from the first to the last.
`WriterClients` puts them side by side with one `Crash` under all three.

| Model | Code |
|---|---|
| `db`, `change`, `version` | the facts table, the closure that writes it, `FACTS_VERSION` |
| `SetFact`, `SetCommits`/`SetFails`, `DeleteFacts`, `DeletionMarked` | `set_fact` raises the version inside its transaction; a deletion raises it after |
| `trie`, `facts`, `ready`, `cached` | the two halves of the copy, whether it was loaded, the version it claims |
| `Check` … `SearchAgain` | `ensure_fresh` and the look-up: version read, rows read, version read again, trie swapped, map swapped, search, compare, second search |
| `Match`, `Ask`, `Intercept`, `Judge`, `TimePasses` | the challenge of a session: asked, answered, judged, expired |
| `rec`, `at`, `head`, `ring` | a recorder in `record`: its number, its slot, its offer |
| `queue`, `batch`, `worker` | the channel, the micro-batch, where the worker is |
| `active`, `buffer`, `open`, `stamp`, `rotated` | the file of the day, the `BufWriter`, the logger's day, the rotated files |
| `WriteToday`, `Rotate`, `NoDirectory` | append, rotation when the day of the batch changes, a failure that loses the batch's lines |
| `bridge`, `inserting`, `ledger`, `tables` | the batches in the bridge's channel, the rows being inserted, the table, its creation |
| `faults` | what went wrong without anybody being told; a property says what is lost by which fault |
| `event`, `vector`, `dlq`, `known`, `graph` | the rows of a remembered turn: event, projection, dead letter, triples; the graph in memory |
| `Persist`, `Overwrite`, `Consolidate` | one transaction each: event and projection, `memory:upsert_vector`, one batch of pending events with its retries |
| `DeleteConversation`, `DeleteSubject`, `SweepChooses`, `SweepDeletes`, `SweepCommand` | the deletions, and retention, which chooses conversations in one transaction and deletes each in one of its own (or all in one, by command) |

### `SessionActor` with `SessionProofs`

One session id. `GetOrCreate` and `Send` are separate, because the actor may end
between them. The task of a turn works on `task[t].copy`, taken when it starts; it answers
its callers (`TurnAnswers`) before it reports (`TurnCompletes`, or `ReportLost` when the actor has left
its loop). Time is abstract: debounce and idle timeout may fire whenever their branch of the
select is enabled.

### `LlmActor` with `LlmProofs`

Channel and priority queues, `Drain`, `StartGeneration`, the select while a worker runs
(`Monitor`, `WorkerDone`), and the worker's token callback with the consumer it may wait for.

### `LlmEngine` with `LlmContext` and `LlmProofs`

One engine behind one lock. `LlmContext` is what it keeps of a llama.cpp context; llama.cpp itself is external: a cell of the
cache is a position and a token, the logits are those of the cells there were, a decode that fails leaves a part of its batch.

| Model | Code |
|---|---|
| `lock`, `cancel` | the manager's mutex; `GLOBAL_LLM_CANCEL_REQUESTED`, which nobody needs the lock for |
| `context`: `kv`, `logits`, `last` | the cache, the last row of logits, `last_tokens`; `slipped` is history: a decode has failed on this cache |
| `engine`, `path`, `layers`, `role`, `template` | `engine`, `current_model_path`, `n_gpu_layers`, the governor's role, the two flags of the prompt format |
| `Load`, `Reload`, `SwapFor` | the command, the configuration's loader, the game loop, the expert's swap; each drops the old engine first and may fail |
| `Enter` | a generation gets the lock: swap, look at the session, the first guard of a budgeted one, its prompt cut to fit |
| `Prefill`, `Sample`, `Forward`, `Finish`, `Close` | `generate_completion` and its variants: the second guard and the reuse of the cache; the flag, pruning, one token; the callback, push and decode; the last look at the flag; what the caller makes of it |
| kinds of requests | `chat` (a stream to a client), `voice` (a turn's chat node), `look` (its vision node), `direct` (the actor's backend, tool selection, code repair), `decide` (`decide_single_pass`, which has no caller in production yet); `swap`, `apply`, `autoload` |
| `told`, `gone`, `spoiled` | histories: cancelled while it ran, left by its caller, layers set by hand or lost with a failed reload |

`CompletionStream` is the `chat` kind; a plan (`task_plan_chat`) is a chat whose client stays, and a chat without stream one that nobody leaves.

### `VoicePipeline` with `VoiceProofs`

One connection. A handler of the actor is a `Receive` and the steps left in `todo`, because it awaits
in between (the control channel, the canceller's mutex) while jobs and forwarder go on.
`Aborted` is a choice: an aborted task stops at its next await, and a synthesis in its
thread never does. The forwarder's biased select is `ForwardFlush`, `PollControl`,
`ForwardFrame`: control is looked at first, but a flush may arrive after the look.

### `Messaging`, extended by `Outbox`, with `DraftLife` and `OutboxProofs`

| Model | Code |
|---|---|
| `box`, `born`, `seq`, `last`, `cipher` | the rows of `message_outbox`, their `created_at`, their place in the AUTOINCREMENT order, the key each was encrypted with |
| `Stage`, `Take`, `Cancel`, `Pending` | the closures of `outbox.rs`; each is one transaction on the writer thread, so it is one action |
| `StorageFails` | any error of SQLite or of the writer: the closure's transaction leaves nothing |
| `Deliver`, `Delivered` | `gui_telegram`: Telegram may accept the message and still fail to say so |
| `chat`, `compose` | the conversation the browser's tab shows, the drafts whose text is in its compose box |
| `Open`, `Clear`, `Insert`, `PressEnter`, `ClickSend`, `Look` | `messenger::send`, command by command: navigate unless the tab is there already, delete what is in the box, insert the text, Enter, a click on the send button if text remains, and Ok if the box then reads empty, is gone or cannot be read |
| `SendFails` | every early return of both: the draft stays consumed, the text stays in the box |
| `PageChanges` | the page reloads, or the user leaves the conversation |
| `astray`, `disturbed` | histories: drafts that left in another's chat or message; requests whose stay at the tab somebody else, the page or a query without an answer has disturbed |
| `Tick` | the wall clock, which may go back |
| `Crash` | the process ends anywhere and may start with another encryption key |

Requests name a draft or create one; each is made once, a repeated confirmation being another
request. What each may ask, and where each draft goes, is chosen from `Op` and `Routes`. The requests share the one tab: nothing in the code keeps two confirmations apart
(the writer thread is left before the send), so their commands to the browser interleave. Ok of a Messenger draft therefore does not mean that it was delivered, and `SentMeansItLeft` does not say so: it
says that Telegram has accepted the message, and that a text for Messenger left the box once, alone and in its own conversation if the request was not `disturbed`. `DraftLife` is the life of a draft as a user understands it: unborn, waiting, then either
gone or leaving and sent, never back. A text that a failed attempt has left in the compose box counts as leaving, because it may still go with the next one.

### `KillSwitch`, `CuaEngine`, `CuaPlan`, `CuaRouter`, composed in `CuaDesk`, with `CuaProofs`

| Model | Code |
|---|---|
| `flag`, `token`, `status`, `escape` | `halt_signal`, the `CancellationToken`, `KillSwitchState`, a synthesised Escape that the poller sees |
| `RaiseFlag`, `CancelToken`, `MarkHalted`; `LowerFlag`, `ResetToken`, `MarkArmed` | `trigger_halt` and `reset`, store by store, by any command thread and by the poller |
| `EngineHalts`, `EngineRefuses`, `Dispatch`, `Cancelled`, `Dispatched` | `execute_action`: stop seen, policy or window refuse, the action sent in pieces under a `select!` with the token, and one audit record (`owed`) on every way out |
| `NextStep` … `Verify`, `HealInput`, `Healed` | the orchestrator: Flash believes the driver, Pro looks at the screen and lets the recovery engine restore windows, press Escape or raise the delivery |
| `MacroStep` … `NothingChanged`, `report` | the router: precheck, background, then foreground, then a defect report for the planner |
| `left`, `late`, `sent` | pieces not yet sent; histories of what reached the device after a stop, and how often |

`CuaEngine` is extended by both executors and knows neither: it returns to `back`. `CuaDesk` runs
one of them against the switch; the executor and the threads that stop it interleave at every step.

### `McpClient` with `McpProofs`

One configured server. A `Life` is one child process with its pipes, reader task and map of pending
requests (`client[l]`); the registry holds at most one (`servers`) and connects under `lock`. A call is
`Begin` (its number), `Insert` (into the map), `Write`, and then whatever comes first: `Return` (the answer the
reader handed over in `ReadReply`), `Timeout` with `GiveUp`, or `Abort` of the voice turn it belongs to, at any await. The child
answers, answers twice, without an id, not at all, stops reading its standard input, or exits (`Answer`, `StopsReading`, `Exit`); `Close` is the reader's
last act. Only the wait for an answer has a timeout: a call that writes to a child that is `deaf` may be `Stuck` there, with the mutex of the pipe, and while it connects with the
registry's lock. A listing asks page after page.

## 3. The runs

| Run | Module, configuration | What it shows |
|---|---|---|
| `dbactor_writer` | `MCDbActor`, `DbActor_writer.cfg` | answers are honest, order and barriers hold, the graph shows committed rows and loses none, `AckStore` is implemented, everybody is answered and the thread ends after its last handle |
| `dbactor_event` | `MCDbActor`, `DbActor_event.cfg` | finding: an acknowledged event is rolled back |
| `session_life` | `MCSessionActor`, `SessionActor_life.cfg` | all queue modes, stop and shutdown, over two lives of the actor or with a checkpointer that fails: one turn at a time without collect, in order, none lost, idle means settled, everybody is answered and the actor settles |
| `session_collect` | `MCSessionActor`, `SessionActor_collect.cfg` | finding: two turns at a time |
| `llm_queue` | `MCLlmActor`, `LlmActor_queue.cfg` | preemption for a reason only, order, every caller answered and every shutdown effective |
| `llm_engine` | `MCLlmEngine`, `LlmEngine.cfg` | every token is sampled from its conversation, a cancellation is heard by whom it was meant for, what is believed of the loaded model is true |
| `voice_turns` | `VoicePipeline`, `VoicePipeline_turns.cfg` | no stale or mixed audio, a state that fits the turn, every turn ends and every flush arrives |
| `voice_interrupt` | `VoicePipeline`, `VoicePipeline_interrupt.cfg` | finding: interrupt and synthesis wait for each other |
| `outbox_drafts` | `MCOutbox`, `Outbox_drafts.cfg` | at most one send, final cancellations, an Ok that is true of an undisturbed tab, the limit, `DraftLife` |
| `cua_halt` | `MCCuaDesk`, `CuaDesk_halt.cfg` | what reaches the device after a stop, what is on record, what a report may claim, that plans end |
| `clients_trail` | `MCWriterClients`, `WriterClients_trail.cfg` | active recall asks what was true, the trail is faithful, rows of a turn agree, retention spares the active, work drains |
| `mcp_calls` | `MCMcpClient`, `McpClient_calls.cfg` | answers find their call, pending requests have owners, one child at a time, every call returns unless a write to a child that no longer reads holds it or the registry |

The type invariant of a module is a conjunct of one of its properties (`ReportsAreEarned`, `FreshMeansFresh`, `TrailIsFaithful`, `LineageHolds`,
`PendingIsOwned`, `IdleIsSettled`,
`StateFitsTheTurn`, `PreemptedForAReason`, `CancelIsHeard`, `AnswersAreTrue`, `AnswersMatchTheWire`); a theorem `TypeCorrect` of each proof module (`ActorTypeCorrect` for the LLM actor) proves it for every instance.

### Bounds, and why they are enough

* **Writer.** A channel of 2 with up to four commands makes callers wait,
  batches of at most 2 reach their limit, leave commands behind and are cut by flush and closure, and one
  crash may fall between any two steps. Commands of a kind differ only in identity; `OneCast` lets a behaviour call
  the commands of one of four casts, which between them put each kind beside each kind it can disturb (the two publishers of the
  graph, a deletion, a barrier, a silent write, a command outside transactions). Nothing forces a caller to call, so these are whole behaviours,
  for the liveness property too.
* **Session.** A backlog of 1 overflows with the second follow-up; a mailbox of 2 makes callers wait;
  `MaxLives` 2 lets the manager replace an actor once, which is the only step between two lives. `OneCast` lets a behaviour send the
  messages of one of four casts: two without collect, over two lives with a checkpointer that works, two with collect, guidance and a
  shutdown, in one life with saves and loads that fail (a second life starts from the same state with fewer messages). Nobody is forced to send.
  The properties about order and sequence speak of behaviours without a collected message, because `session_collect` shows what such a message breaks.
* **LLM actor.** Two commands of equal priority (for order), one higher (for preemption) and one shutdown,
  through a channel of 2. Each has a token of its own; that the property holds when commands share tokens is proved.
* **LLM engine.** Two requests beside the first load: whatever one leaves in cache, flag, role or format meets the next one. A
  context of 5 tokens with a window of 1 is pruned once or twice within an answer of 4; prompts of 2, 3 and 4 tokens are prefixes of each other, and the longest
  does not fit. `MaxTroubles` 1 is one cancellation, departure, failed load or decode, or game, anywhere: two that
  meet are left out, and one that meets everything else is in.
* **Voice.** Two inputs of any kind make two turns and, with the cancellations they imply, up to five epochs;
  channels of 1 or 2 fill, and a reply of 2 clauses can be cut between them. `Kinds` names the events
  the outside sends. `EveryTurnEnds` speaks of behaviours in which the actor's channel never fills, since a full channel drops
  events (`try_send`) and an utterance whose end is dropped is never answered; what
  happens when it does fill is `voice_interrupt`.
* **Outbox.** Three drafts in a table of two force one eviction; two clock readings with a TTL of 1
  expire a draft and, going back, revive the comparison; two keys and one crash lock every draft of the previous process (nothing else tells the keys apart, which `AnyKey` uses as a
  symmetry). The first two drafts go both to one person by Messenger, or one to each platform: in the first case each finds the tab where it wants it and the other's text in the box, and in the second
  it is disturbed by the page alone. The first draft is confirmed, and confirmed again or cancelled, while the second is confirmed or the outbox listed: two requests at the tab are enough to mix two
  messages, and a third draft to evict. Over a million states.
* **Computer use.** One command thread beside the poller and two calls suffice for a trigger and a reset that interleave. A typed text
  has 2 pieces, so a stop can fall between them; 2 retries, as in the code, exhaust the budget, raise the delivery
  and escalate. The plans and macro plans listed in `MCCuaDesk` contain each kind of step, and the configurations each combination of
  profile, verifier and recovery that takes another branch. `HaltBites` bounds what may still be sent: the piece under way, or the rest of a recovery.
* **Writer's clients.** `OneCast` names what one behaviour shows. Recall turns, audit events and remembered turns do not meet: they share the writer's
  connection and nothing else. One change of the facts meets the events; two changes meet two turns and two facts; a third turn, which starts when the first
  is over, or a crash meets one change. Three events over two days overflow a ring, a channel and a batch of 2 and a bridge of 1, rotate the file once and leave
  it open over a restart; one kind of fault happens in a behaviour, or an error of the file before a crash. Two remembered turns in two conversations with a
  batch of 1 show one blocking the other; 3 retries are the code's; one projection is overwritten, or the process ends.
* **MCP.** Two children, so that one replaces the other; two pages of tools; at most two unread answers of a child. Three calls meet on one child when one of them is over
  with one answer on its way; two calls see a second page or a second child, or the first child stops reading.

`CHECK_DEADLOCK FALSE` appears in all of them because each instance has finitely many commands, inputs
or requests and stops legitimately when they are used up.

### Fairness

* `DbActor`: weak fairness of the thread's next step. It is an OS thread of its own and each SQLite
  call returns (`busy_timeout`). Callers, the closing of handles, crashes and restarts are not forced.
* `SessionActor`: weak fairness of the actor's task, its debounce timer and the turns' tasks taken together: each message is handled
  once and each turn reports once, so fairness to all of them exhausts each, in whatever order the `select!` polls its branches. The
  idle timeout is not forced.
* `LlmActor`: weak fairness of the actor's task; the worker is a thread, so it gets rid of the token it
  holds (weak), and its generation ends after a bounded number of tokens (strong fairness of `WorkerDone`:
  it is enabled again after each token). `FairConsumerSpec` adds consumers that read what they asked to be
  streamed; without it a generation may hang, which is one of the deviations below.
* `VoicePipeline`: weak fairness of actor, forwarder and of the jobs taken together: each turn's jobs
  have finitely many steps, so fairness to all of them exhausts each. Nothing forces an input or the abort of a job.
* `CuaDesk`: weak fairness of the executor (its task is scheduled, the calls of driver and verifier return) and of the threads
  that have begun a trigger or a reset. Nobody is forced to trigger, nor to reset.
* `WriterClients`: weak fairness of the audit worker, of the bridge and the writer behind it, of the end of a change of the facts, and of
  the consolidation, which is a loop of its own and tries again after an error. Turns, events, deletions and sweeps are not forced.
* `McpClient`: weak fairness of each call's next step: tasks are scheduled, timers fire, the registry's lock is handed on, and a write
  returns, with or without an error, if the child reads or is gone. Nothing is asked of a write to a child that lives and does not read (`Stuck`), since `write_line` has no timeout; nor of the
  reader, nor of the child.

`Outbox` has safety properties only: its requests wait for the platforms alone, whose calls are external. So has `LlmEngine`: a generation ends with its model's end of
turn, which is external, or at its limits, which `MaxAnswer` stands for.

## 4. The proofs

The proof modules hold for every value of the constants under the assumptions named in the modules they extend; `tlapm` checks every leaf. The assumptions:

* `DbActorAssumption`, `OutboxAssumption`, `MessagingAssumption`, `SessionAssumption`, `LlmAssumption`, `VoiceAssumption`, `SwitchAssumption`, `RouterAssumption`, `DeskAssumption`, `McpConstants`,
  `RecallAssumption`, `MemoryAssumption`, `AuditAssumption`: capacities, limits and budgets are natural numbers, most of them positive; functions on the
  identities are total; the values that stand for "none" are not identities (`NoneIsNothing`, `NowhereIsNoRow` and `NoneIsNoReply` say so of records).
* `AuditAssumption`: the events of a trail are finitely many: `Cardinality(Event)` stands for "no number yet", and numbers are of 64 bits in the code.
* `OutboxAssumption`: ids of drafts are not reused (they are random UUIDs in the code), in a finite set.
* `ContextAssumption`, `EngineAssumption`: the reserve and the window are positive, the reserve leaves room for a prompt and two windows are less than the context (the window is an
  eighth of it), every conversation has a token, and the persona and a question about a picture fit (a longer persona is not warmed up, which is left out).

None of the properties is inductive as it stands. Each proof module begins with the invariant that is, in named parts (`IInv`, or `ActorInv` and one for each theorem of the engine), TLC checked it
on the run's instance first, and the module proves that it holds at the start, that every step keeps it, and that it implies the properties.

### `DbActorProofs`

Any number of commands, any capacity, batch length and number of crashes.

| Theorem | States |
|---|---|
| `TypeCorrect` | `Spec => []TypeOK` |
| `AnswersStayTrue` | `Spec => []AnswersAreTrue`: Ok means stored, an error means not stored now or ever, an answered flush left no older command waiting |
| `GraphStaysHonest` | `Spec => []GraphIsHonest`: the snapshot shows committed rows only, and what was acknowledged |
| `CommitOrder`, `GraphNeverRegresses` | the action properties `CommitsFollowTheQueue` and `NoLostGraphUpdate` |
| `NobodyIsForgotten` | a thread that is idle or has ended owes no answer |
| `WriterImplementsStore` | the refinement `ImplementsStore` |

* `TicketInv`: a command has a ticket from its acceptance on, and only once;
* `OrderInv`: database, transaction, batch and channel are consecutive segments of the ticket order. This is
  why commits follow the queue and why a flush, which sits in that order, is a barrier;
* `PhaseInv`: what is committed at each phase, hence when an "ok" may be sent;
* `ReplyInv`: a command still waited for was not answered (session events excepted, which are answered
  early), so each answer is the only one, and one taken but unanswered is still in flight, so nobody is forgotten;
* `GraphInv`: builder and snapshot contain committed rows only; after a resynchronisation they agree; and a
  committed graph row that still exists is published, or about to be.

The refinement rests on two lemmas, `AnswerIsTell` and `CommitIsPersist`: answering is telling when the answer is honest,
and committing unanswered commands is persisting.

### `OutboxProofs`

`TypeCorrect`, `LimitKept` (`NeverOverfull`), `AnswersMatch` (`AnswersMatchTheWire`, of which `AtMostOnce`, `CancellationIsFinal` and `OkMeansItLeft` are the parts) and `OutboxImplementsLife`
(`ImplementsLife`) for any number of drafts, requests, conversations and crashes, and every way the page may behave.

* `RowInv`: a draft in the table was never sent, is in nobody's hand and not in the compose box.
* `SendInv`: a consumed draft has one request that sends it; it has not been sent while that request is before its `Deliver`, or its `Insert`.
* `BoxInv`: what is in the compose box has not left, and what has not left is not astray. With `SendInv`, by which nobody types a text that is in the box, this is why a text that was left behind leaves at
  most once.
* `TabInv`: a request at the tab that is not disturbed is there alone, in its own conversation, and the box holds its text and no other (`Filled`, `Alone`), or has released it. This is what Ok rests on.
* `CancelInv`: a cancelled draft was never sent and nobody has it in hand.

The steps at the tab have a lemma each (`TypingStep`, `LeavingStep`, `EndingStep` ...), those of the writer's closures share `ClosureStep`. `LimitKept` uses the arithmetic of cardinalities from the
library's theorems on finite sets.

### `SessionProofs`

`TypeCorrect`, `Sequential` (`TurnsAreSequential`), `Settled` (`IdleIsSettled`), `Kept` (`CompletedTurnsAreKept`) and `InOrder` (the action property `TurnsStartInOrder`), for any set of
messages and modes, every capacity, any number of lives and every fault of the checkpointer. As those properties, most of the invariant speaks of behaviours in which nothing is collected, since
finding 2 breaks it otherwise; its types, and `WaitInv`, hold always, and so does `NobodyStranded` (`NobodyIsStranded`, a part of `IdleIsSettled`): who is owed an answer is exactly who waits in the
mailbox, in a queue or with a running turn. It is the safety half of `EveryoneAnswered`: what is left to the fairness is that those places empty.

* `MailInv`, `QueueInv`: tickets rise along the mailbox, what is queued is older than the mailbox, and what was started older than both. `InOrder` follows, as a step starts the head of the one or the other.
* `TurnInv`: the active turn is the only one of this life that runs or has still to report. It is what makes a completion belong to the active turn, and an idle actor settled.
* `KeepInv`: as long as no save or load has failed, what was taken back is in the checkpoint, in the state, and in the copy the running turn works on, so that no turn overwrites it with
  less.
* `WaitInv`: mailbox, backlog, buffer and the turns' callers share nobody, and a message is in each at most once. Without that a turn could start over the record of another that still has callers
  (`LeaveForTurn` is where both meet), and taking the head would not take it away.
* `FiniteInboxes`: the bound of a turn's steering channel speaks of a cardinality.

### `LlmProofs`

Its first part is about the actor: `ActorTypeCorrect`, `Preemption` (`PreemptedForAReason`) and `Fifo` (`FifoWithinPriority`) for any number of commands and every capacity, also when commands share a token.
`ActorInv` has tickets that rise along the channel (`MailInv`) and along each queue, the queues being older than the channel (`QueuesInv`); what runs is older than the channel, so what overrides it came later (`RunInv`);
and a token that is set has a reason that does not go away (`ReasonInv`).
`GenerationsHeld` is the safety half of the actor's `EveryoneAnswered`: who is owed an answer is exactly who is in the channel, in a queue or running, and an actor that has ended has nothing.
Its `HeldInv` needs what runs to be alone, which the tickets give: what is taken from a queue is older than the rest of it.

Its last part is about the engine: `TypeCorrect`, `Contexts` (`ContextIsThePrompt`), `Cancellation` (`CancelIsHeard`) and `Beliefs` (`BeliefsAreTrue`) for any number of requests,
models, cancellations and failures, conversations of any length and every size of the context and of the window. Each theorem has its invariant over `Types`, of which
the most used part says that only the holder of the lock is between its first step and its last, so that nobody else's step touches what it works with:

* `ContextInv`: `last_tokens` is empty or says what the cache holds, unless a decode has failed on it; while a generation samples, the cache holds the view of prompt and answer;
  and between a token and its decode it holds a sequence that every next view extends by one token. That middle state is what is missing in `ContextIsThePrompt`: pruning happens there.
* `CancelInv`: in each phase, who has been told and what the flag is. The flag stays up until the generation that heard it has ended, since nobody else is inside to clear it.
* `BeliefInv`: path, layers and format are the engine's as long as there is one; the layers are those the loop has latched unless a reload failed; a generation that may still succeed
  knows the engine it works with.

The arithmetic is between the two, as lemmas about the operators of `LlmContext` alone: the prefix found is a prefix (`CommonIsShared`, by the cardinality of a set of numbers without
gaps, since an induction over the sequence is out of the prover's reach), a prefill leaves the cells of the prompt however much of it was reused (`ReuseIsExact`), what is discarded from a long
conversation is a multiple of the window and the only one that makes it fit (`RoundedUp`, `OneMultiple`, `DiscardedFacts`), and hence one token more either extends the view or cuts one
window of it, which is what pruning does to the cells (`ViewGrows`, `CellsOfCut`, `PrunedContext`).

### `VoiceProofs`

`TypeCorrect`, `NothingStale` (`NoStaleAudio`), `Ordered` (`TurnsInOrder`) and `StateFits` (`StateFitsTheTurn`) for every capacity of the three channels, any number of inputs and clauses.

* `BoundInv`: epoch and queued inputs together stay below two for each input, strictly while the turn can still fail by itself. The type of the epoch rests on it: a failure costs the second epoch of an input.
* `PastInv`: nothing belongs to an epoch to come, so nothing of it is there when it begins.
* `TurnInv`: the current turn is in one place (transcribed, synthesised, or its final report on the way, once), and nowhere while a handler has still to start or end it. `FitInv` is `StateFitsTheTurn` in the
  middle of handlers.
* `OrderInv`: who sends a frame holds the canceller's lock, the frames in the speaker channel are sorted by turn, and a reserved place is behind frames that are no younger.
* `GateInv`: the forwarder's gate is not behind the flush, and what was heard since not behind the gate.

### `CuaProofs`

`TypeCorrect`, `StopAgrees` (`SwitchAgrees`), `HaltIsBounded` (`HaltBites`), `AllRecorded` (`NothingOffTheRecord`), `Earned` (`ReportsAreEarned`) and `Final` (the action property `StopsAreFinal`) for any number
of threads, every plan and every budget.

* `SwitchInv`: as long as no trigger has overlapped a reset, the calls under way are of one kind (`OneKind`), and what each thread has passed is as its kind leaves it, whatever others of that kind still do
  (`Traced`).
* `CallInv`, `OwedInv`: the engine returns where it was called from, and it owes a record exactly while it is called, the recovery exactly while it sends.
* `InputInv`, `LateInv`: how much may still be sent at each point: inputs since the stop leave room for the action already past the engine's test and for a recovery after it, three in all.
* `StepInv`, `RetryInv`, `SentInv`: steps, results, attempts and deliveries count together, and an action is sent at most once for each attempt and at least once when its driver said so.

### `ClientsProofs`

`TypeCorrect`, `CopyIsTheTable` (`FreshMeansFresh`), `JudgedOnce` (`ChallengesAreHonest`), `Faithful` (`TrailIsFaithful`), `Lineage` (`LineageHolds`) and `Spared`
(`RetentionSparesTheActive`) for any facts, sessions, turns, events, conversations, sizes of ring, channel and batch,
retries and crashes, the three clients side by side on one writer. `IInv` is the conjunction of an invariant for each; first that of active recall:

* `HadInv`: every value anybody holds (table, copy, rows in a turn's hand, challenges) is one the fact has had.
* `OnceInv`: a challenge is in one place, with its session, with the turn that judges it, or judged; the turn that asked is over by then.
* `CopyInv`: who refreshes alone has the table in its hand, and the version that goes with it; a copy that is exact while a change is open does not carry the version the change will commit.
* `CountInv`: updates of the statistics are no more than turns that are over, the bound of their type.

That of the audit trail, `AuditInv`. It speaks of sequences by what they contain and by the order `Earlier`, never by flattening the list of files, so that one lemma per way of growing
(`OrderedJoin`, `OrderedParts`, `FileRotates`, `StoreHanded` ...) serves every action.

* `RecordInv`: numbers are given out once and in order, so two recorders whose numbers are less than a ring apart never share a slot (`OneSlot`, the one lemma about `%`);
  an overtaken recorder is in `faults`. An event is accepted once, and its recorder is then done.
* `ChannelInv`: the batch precedes the channel, and is empty exactly when the worker waits.
* `FileInv`: rotated files, active file, buffered lines, batch and channel are consecutive segments of the order of acceptance: why no restart or failed write can reorder a file.
* `StoreInv`: the same for the ledger, the rows being inserted, the bridge, batch and channel. A batch stays in the worker's hand while it is written, so the two chains overlap in it and part only at `HandOver`.
* `AllInv`: without a fault everything accepted is filed or on its way there, and in the ledger or on its way there.
* `NameInv`: a logger that knows its day has that day on its first line. After a restart it does not, and the property holds because the day is then read from the file.

And that of the remembered turns, `MemoryInv`:

* `EventInv`: remembered turns arrive one after the other, and what a row of an event says goes with its status.
* `SweepInv`: nothing the sweeper saw as recent is, or comes to be, in a conversation it chose. A projection can be overwritten under its event, so this is about the event's own conversation.

### `McpProofs`

`TypeCorrect`, `PendingOwned` (`PendingIsOwned`), `Answers` (`AnswersAreTheirOwn`) and `Single` (`OneServer`) for any number of calls, children, pages and unread answers.

* `HoldInv`: a call under way holds a client that is alive; an aborted one leaves its numbers behind.
* `NumberInv`: a child's numbers are given out once; what waits in the map or travels has one of them, and no two calls under way have the same.
* `PendingInv`: a request in the map has a call on its way to take it out, or an aborted one; who was answered has left the map.
* `AnswerInv`: what bears the number of a call that asks was asked by it, for this page.
* `LockInv`: the registry's lock goes with the handshake, and an open child is the registry's or that of the handshake.

### Only model-checked

Every liveness property (`EveryoneAnswered`, `EveryTurnEnds`, `PlanEnds`, `WorkDrains`, `EveryCallReturns`), since the prover does neither fairness nor ENABLED; and the findings and the
statements of section 5, which are counterexamples. Every invariant and every action property of the passing runs is a theorem.

## 5. Where code and documentation disagree

Three runs are expected to fail (`findings` in `PROJECT.json` quotes the lines):

1. `dbactor_event`: `AppendSessionEvent` answers with a row id inside the transaction; a later failure of the batch removes the row.
2. `session_collect`: a collect buffer that expires while a follow-up runs starts a second turn of the session; the completion
   handled last overwrites the other's state.
3. `voice_interrupt`: the synthesis holds the echo canceller's mutex while it waits for room in the actor's channel; the handler of
   an interrupt waits for that mutex.

The modules state other sentences of the documentation that the code does not keep. They are
definitions of the MC modules, under a heading of their own; a configuration that names one finds the counterexample.

`MCDbActor`:

* `FlushMeansCommitted`: `flush` promises that all previously queued writes are committed (`db_actor.rs:1091`);
  it is a barrier, but a fire-and-forget write before it may have been rolled back with its batch, which nobody is told.
* `ProjectedIsVisible`: the consolidation re-synchronizes the graph in memory after its commit, and ignores an error of the reload
  (`memory_consolidation.rs:41`).
* `ForgottenIsInvisible`: deleting a subject (`db/deletion.rs:600`, `commands/memory.rs:379`) does not touch the graph in memory,
  which shows the deleted rows until something else replaces it.

`MCSessionActor`:

* `AcceptedSteeringIsRead`: a steering message that is accepted after the turn has read its last one is lost (`session_actor.rs:345`).
* `ShutdownKeepsTheTurn`: a shutdown while a turn runs loses the turn's state although its caller is answered (`session_actor.rs:279`).
* `CheckpointNeverForgets`: an error while loading a checkpoint counts as "no checkpoint", and the next turn overwrites it (`session_actor.rs:752`).

`MCLlmActor`:

* `ShutdownCancels`: a shutdown that is drained just before a generation starts does not cancel that generation
  (`actor.rs:218`; docs/02-crates/03-liva-llm.md:44).
* `CancelledGenerationEnds`: a worker that waits for room in its consumer's channel does not look at the cancel flag (`boot.rs:335`).

`MCLlmEngine`:

* `AnswersFollowThePrompt`: the cache is trusted as far as `last_tokens` tells, but a token is pushed before a decode that may fail, and a failed
  prefill leaves cells which the same prompt does not clear (`engine.rs:1150`, `engine.rs:1069`).
* `CancelIsNotTakenBack`: the second guard of a budgeted generation wipes a cancellation that came after the first (`engine.rs:151`), which the
  command answered with "cancellation_requested" (`commands/llm.rs:236`).
* `LatchedMeansAtTarget`: "only when the model has really come to that number of layers" (`boot.rs:517`, `lib.rs:535`): a reload that fails returns true as well
  (`lib.rs:572`), and the engine is gone.
* `RoleIsTheModel`: neither the command nor the configuration's loader tells the governor which model it loaded (`expert_governor.rs:107`).
* `ModelComesBack`: a load that fails costs the model there was, until someone loads (`engine.rs:402`).
* `AppliedMeansLoaded`: an older application that waited for the lock loads what it had read before (`lib.rs:460`, `lib.rs:478`).
* `LooksAreAttributed`: the record of a question about the screen names the model of before the lock (`agent/graph/pipeline.rs:614`).

`MCOutbox`:

* `NothingClaimedUnsent`: "no case reports sent that was not sent" (`integrations/messenger.rs:597`): the last look takes a box that is gone, or a query without an answer, for an empty one
  (`messenger.rs:642`, `messenger.rs:646`), as it does a text that never reached the box. The comment above that look (`messenger.rs:635`) claims less: a sign that the message has left, and that only
  Facebook's server knows whether it was received.
* `SentAsApproved`: the box is cleared so that what is sent is what was approved (`messenger.rs:463`): but between clearing, typing and Enter nobody looks at box or conversation again, and
  two confirmations share the tab: one text may leave as part of the other's message, or in the other's conversation.

`MCWriterClients`:

* `VersionTells`: the version does not tell whether the copy is current, since rows are read before it and it is raised before the commit (`active_recall.rs:252`, `db_actor.rs:407`).
* `DeletedIsForgotten`: a look-up that hits does not compare versions: a deleted fact may still be asked for (`active_recall.rs:445`).
* `BatchIsATransaction`: the rows of an audit batch are inserted one by one (`audit.rs:270`).
* `RingHoldsTheNewest`: a recorder overtaken by a whole ring writes an old event over a newer one (`audit.rs:749`).
* `RetentionSparesTheLate`: a turn that arrives after the sweeper has chosen its conversation is deleted with it
  (docs/01-kien-truc/05-persistence.md:251).
* `ForgottenMeansForgotten`: the triples of a deleted conversation stay (`db/deletion.rs:90`, persistence.md:249).
* `GraphForgets`: nothing replaces the graph in memory after a deletion.

Beside these, the same document speaks of a writer pool of size 1 (persistence.md:241), while the sweeper takes a second connection of a pool of two beside the writer
thread (`memory_retention.rs:143`); SQLite's own lock keeps their transactions apart, which is what the model relies on.

`MCCuaDesk`:

* `NothingAfterHalt`: "all actions halted" allows for the input under way, and for the rest of a recovery (`execution/healing.rs:100`).
* `HaltHasACause`: the Escape that dismisses a popup is the key the poller watches: the program stops itself (`kill_switch.rs:423`).
* `SuccessMeansEverySeen`: a wait for a change that never comes counts as a step, and the plan as a success.
* `StatusIsTheFlag`: a trigger and a reset that interleave may leave the status at odds with the flag (`kill_switch.rs:465`).
* `TokenIsTheFlag`: in the order "lower the flag, raise it, cancel the token, reset the token" a stop ends half done: the flag that every action tests is up, the token that typing and waiting test is not
  (`kill_switch.rs:465`, `kill_switch.rs:511`).
* `SentOnce`: a popup the action itself opened is dismissed, and the action sent again (`execution/orchestrator.rs:902`).
* `RetriesWereMade`: raising the delivery counts as a retry even when the budget is spent (`router.rs:501`). The field `abort_on_error` beside it
  (`router.rs:527`) is never read.

`MCMcpClient`:

* `OrphansAreTheirs`: an error without an id goes to the only waiting request, which need not have caused it (`client.rs:609`).
* `ClosedTellsEveryone`: a request inserted after the map was emptied waits for its timeout (`client.rs:314`).
* `PendingIsWaiting`: the entry of an aborted call stays in the map until the child ends (`client.rs:297`).
* `CallsAreTimed`: the time limit of a request (`client.rs:69`) is that of its answer; `write_line` (`client.rs:356`) has none, and is also the handshake's `notify` (`client.rs:285`), so a child that stops
  reading holds the call, the pipe's mutex and, during a connect, everybody who waits for the registry.

## 6. What is not modelled

The inventory's remaining rows. Mostly they are sequential: one transaction, a computation, or calls to external programs (`components`
gives the reason for each). `cognitive/memory.rs`, `deterministic_writer.rs`, `markdown_sync.rs`, `IdempotencyManager` and the actor of `liva-storage`
have no caller in production; a model of them would describe their tests. Of the modelled parts the following is left out: the text of rows, prompts and messages; recall statistics'
retry inside one operation, and how well a fact is known; the trimming of history; `GetSnapshot`; contacts and name resolution before a draft is staged; `peek`; of the Messenger tab the wait until
the page is ready, the probe of the keyboard and the search for the window, which only fail, a command to the browser that takes effect after its timeout, drafts that the page itself restores, a user who presses Enter
on a text left in the box, and Facebook's server; the
audio itself and the detection of speech; the widths of counters (the epoch is 64 bits in the core and 32 on the wire); the geometry of windows and targets; the guarded
variants of the engine's call; the queries of the audit trail; other owners and the legacy domain of remembered turns; the formats of MCP ids and answers; sampling, output filters, `vocab_only`, the size of a swapped context, the path of the vision projector and the `is_generating` flag of the LLM engine.

## 7. Plan

Done, in this order: the writer with its abstract store and proofs; the session actor; the LLM actor; the voice pipeline; the outbox with its
life and proofs; computer use (emergency stop, engine, orchestrator, router); the writer's clients (active recall, audit trail, remembered turns); the MCP client; the LLM engine and its
proofs; the proofs of session actor, computer use, MCP client, voice pipeline, LLM actor, active recall, remembered turns and audit trail.

Next, by importance:

1. An abstract specification of a session (`TurnLog`: turns accepted, run one at a time, kept) that `SessionActor` implements as long as nothing is collected, and one of the
   speaker side of the voice pipeline.
2. `LocalSpeech` (`tts/audio.rs`, `commands/voice.rs`, `tts/mod.rs`): two players that share an output device and have a stop counter each: `tts_speak` compares the counter of
   one with a number taken from the other (`commands/voice.rs:218`), and a fade of one is not displaced by the other's next speech.
3. `ConfigFile` (`paths.rs`, `commands/config.rs`): read-modify-write of the configuration under a lock that the skill toggles take too late (`commands/config.rs:582`): a lost update.
4. `TurnAudio` (`webrtc/session.rs`): the buffer of one utterance, its cut at 20 s and `force_end`.
5. `Governor`, `ConsentStore` and the proposals' audit chain as small modules of pure control.
6. Compositions: session actor over LLM actor (a turn that is cancelled by preemption), LLM actor over engine, outbox and session checkpoints over `AckStore`
    in place of a writer that never lies.
