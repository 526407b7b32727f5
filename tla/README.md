# Hermes on GCP: a verification project

TLA+ models of the Hermes agent gateway (`src/gateway`, `src/agents`,
`src/memory`, `src/connectors`, `src/tools`, `src/ui`) and of the wizards that
set its project up, the TLC runs that check them on small instances, and
theorems about them that TLAPS proves for every value of their constants.
`PROJECT.json` lists the components, runs, mutants, source map, findings,
hazards and theorems; this file says how they fit together.

## 1. The system

Hermes is a FastAPI gateway on Cloud Run in front of an ADK agent runner. A
browser, three chat platforms and Cloud Scheduler send it messages; it runs
agents, streams their answers, runs long tasks in the background, learns skills
and memories from finished turns, and screens prompts and answers. Two wizards
create and delete the cloud resources all this needs.

| Component | State it keeps | Operations | Talks to |
|---|---|---|---|
| Task store, `gateway/tasks.py` | per-process dicts `_tasks`, `_asyncio_handles`; documents in Firestore | submit, background run, cancel, poll, list | agent runner, thread pool, Firestore, `/tasks` endpoints |
| Agent lifecycle, `agents/agent_lifecycle.py` | `_nodes`, `_active_count` under one lock | spawn, complete, fail, get_tree | synthesizer; `GET /tasks/{id}/agents` |
| Skill corpus, `memory/skill_*.py` | files in a RAG corpus | search, extract, upsert | learner tasks started after a turn |
| Gateway app, `gateway/main.py` | `_runner`, `_policy_engine`, `_bq_analytics` | chat stream, tasks, memories, sessions, webhooks, trigger | all of the others |
| Chat page, `ui/src/app/chat/page.tsx`, `ui/src/lib/api.ts` | `isStreaming`, `sessionId`, `messages` | send, callbacks, New Chat | `POST /chat` |
| Memory bank, `memory/memory_bank.py`, `user_profile.py` | memories in Agent Engine, a profile per user in Firestore | generate, create, fetch, purge, delete, update | the callback after each turn, `/memories` endpoints |
| Task metadata, `agents/task_metadata.py` | `_in_process` mirror, Firestore sub-collection | record, mark, get, list | synthesizer |
| Auth, `gateway/auth.py` | token cache | verify | Google's tokeninfo |
| Connectors, `connectors/*.py` | JWKS cache | webhook, run agent, post the reply | Slack, Telegram, Teams |
| Scheduler tool, `tools/scheduler_tool.py` | jobs in Cloud Scheduler | create or update, delete, list | `POST /scheduler/trigger` |
| Synthesizer, `agents/synthesizer.py`, `task_agent.py` | none between calls | score, search, build, merge, fall back | registry, skill corpus |
| Scoped instructions, `agents/scoped_instructions.py` | none | read, filter, merge, override | agents at construction |
| Context assembly, `memory/context_budget.py`, `cross_corpus.py` | none | query corpora at once, merge, fill a budget | agents |
| Wizards, `setup_wizard.py`, `teardown_wizard.py` | `.env`; the project itself | ordered steps, each idempotent or not | a person; `scripts/deploy.py` |
| Demo data, `scripts/demo/seed_bigquery.py` | BigQuery tables | drop, create, insert, table by table | the setup wizard |
| Governance, evaluation, observability, agent definitions, other tools | none that the program reads back | | section 6 |

What is hard here:

* **Concurrency.** One event loop per instance with cancellation and timeouts
  delivered at awaits, a bounded pool of threads that outlive cancelled awaits,
  several instances behind one address, learners and SDK calls started and
  forgotten, browser callbacks that outlive the conversation they belong to,
  overlapping refreshes of one cache.
* **Failure.** Almost every external call is wrapped in `except Exception` and
  only logged, so state in memory and state in a service part silently;
  processes are replaced at any time; a wizard is cut short by Ctrl-C or a
  failed command between creating a resource and writing down its name.
* **Ordering and staleness.** Reads from a mirror or a cache, searches of a
  corpus that others write, callbacks applied after a reset, `.env` against the
  project.
* **Timeouts and retries.** The one-hour deadline of a task, deliveries the
  platforms repeat while the first one still runs, repeated triggers of a job.

What makes each component correct is stated as its module's properties. The
hazards, each at its line with the properties that would catch it, are in
`PROJECT.json`.

## 2. Modules

| Module | Models | Composes or refines |
|---|---|---|
| `TaskLifecycle` | what the task API promises of one task: submitted, started, ended once; the stored record never ahead, never falling back | abstract |
| `TaskStore` | `gateway/tasks.py` and the `/tasks` endpoints | implements `TaskLifecycle` |
| `AgentLifecycle` | `agents/agent_lifecycle.py` | |
| `SkillStore` | `memory/skill_store.py`, `skill_models.py`, `skill_extractor.py` and the learner of `skill_learning.py` | |
| `ChatStream` | `POST /chat`, `_stream_agent`, the page's `handleSend` and `streamChat` | gateway and browser in one module, one FIFO connection per turn |
| `MemoryBank` | `memory/memory_bank.py`, `user_profile.py`, the callback of `skill_learning.py`, the `/memories` endpoints | |
| `TaskMetadata` | `agents/task_metadata.py` | |
| `Credentials` | the token cache of `gateway/auth.py`, the key cache of `connectors/teams.py` | |
| `Mirrors` | copies of a truth kept elsewhere | composes `TaskMetadata`, `Credentials` |
| `Webhooks` | `connectors/telegram.py`, `teams.py`, `slack.py`, `runner.py` | |
| `SchedulerJobs` | `tools/scheduler_tool.py`, `POST /scheduler/trigger`, the teardown's `delete_scheduler_jobs` | |
| `Inbound` | what reaches the agent from outside the web chat | composes `Webhooks`, `SchedulerJobs` |
| `Synthesis` | `agents/synthesizer.py` as `task_agent.py` uses it | |
| `Instructions` | `agents/scoped_instructions.py` | |
| `Recall` | `memory/cross_corpus.py`, `context_budget.py` | |
| `Selection` | what a model gets to see | composes `Synthesis`, `Instructions`, `Recall` |
| `CloudProject` | one project, `.env`, the wizard that runs | shared state of the next four |
| `SetupWizard`, `TeardownWizard` | the two wizards, `scripts/deploy.py`, `create_memory_bank` | extend `CloudProject` |
| `DemoData` | `scripts/demo/seed_bigquery.py` | extends `SetupWizard` |
| `CloudSetup` | the life of a project under both wizards | composes all of these |
| `Listing` | the list handling of Python the selections are made of: a filtered list, what is new, sort, sum, a slice | extended by `AgentLifecycle`, `Synthesis`, `Instructions`, `Recall` |
| `MC...` | instances for TLC: symmetry, model values, functions | |
| `TaskStoreProofs`, `ChatStreamProofs`, `MirrorsProofs`, `InboundProofs`, `CloudSetupProofs` | theorems about the module they are named after | |
| `AgentsProofs` | theorems about `AgentLifecycle`, `Synthesis` and `Instructions` | |
| `MemoryProofs` | theorems about `MemoryBank`, `SkillStore` and `Recall` | |
| `ListingProofs` | lemmas about the operators of `Listing` | |

Three of the compositions are sums: `Mirrors`, `Inbound` and `Selection` put
components side by side that share no state in the code, and a variable (`part`,
`door`, `subject`) says which of them a behaviour is about. Their interleavings
would only multiply states; one run then asks one kind of question of all.
`CloudSetup` is a real composition: both wizards and the seeding act on one
project and one `.env`.

In the component modules an operator whose comment starts with "Mutant" or
"Fault" is a plausible bug in place of the definition below it. It is in no
specification; section 3 says what it is for.

### TaskStore

`pc[t]` names the await at which the coroutine of task `t` is suspended; an
action is what runs from one await to the next, so it is atomic exactly where
the event loop makes it atomic. The record (`rec`), the handle (`handle`), the
pending exceptions (`throw`), the awaited thread (`job`), the writes in flight
(`sent`) and the document (`fs`) are the code's `_tasks`, `_asyncio_handles`,
the task's cancel and timer state, `asyncio.to_thread` and Firestore. `owner`
is the instance that accepted the task. `accepted`, `dropped` and `seen` are
history: an accepted cancellation, a swallowed failure, the client's last
answer.

Facts of the platform that the model fixes: Python 3.12 (`Dockerfile.gateway`),
where a cancellation wins over a deadline met in the same pause; a cancelled
`to_thread` withdraws a queued call and lets a started one go on; the
executor has a bounded number of threads; the loop is FIFO, so a submitted
coroutine has taken its first step before the client can know its id; the agent
runtime lets `CancelledError` pass. `build_task_agent` is called with one
argument too few, so every run falls back to the orchestrator: one kind of run
is modelled.

### AgentLifecycle

Each method holds the lock, so each is one action. What nobody orders is who
calls what when: agents end on their own, a report may be repeated, a name may
be spawned again, a parent may be unknown. `FreshNames` and `KnownParents` say
whether callers keep a naming discipline; the properties that need it are
checked with it and the others without. `spawned`, `birth` and `working` are
history: who was really started and who is really at work. `Depth` is the number
of agents `_depth_of_locked` climbs over, the least set of known agents that is
closed under `parent`, so that it is defined on a circle of parents too, where
the code stops at a name it has seen. `get_tree` is `Walk(rounds)`, its loop
after so many rounds: a stack of nodes and what has been listed.

### SkillStore

A learner (one per finished turn) extracts a skill, searches the corpus (a
blocking call: nothing of its process runs in between), archives the version it
found and uploads the next, one await per upload. Files carry no metadata when
uploaded, so the `is_current` filter passes all of them; files of one skill are
equally near, so a search returns any of them. With `SearchFinds = FALSE` a
search may also miss, as an embedding index does.

### ChatStream

`pc[k]` is how far turn `k` is: posted, open, drained (the gateway has sent its
last event or the connection broke), closed (the read loop of `streamChat` has
ended). `wire[k]` is its connection, `bubble[k]` the texts in its message on the
page. Callbacks act on the page's `streaming` and `session` as the closures of
`handleSend` do, so they can run after "New Chat". `framed` chooses the wire:
the one `docs/API.md` describes, or the one `_sse` and the SSE library produce
together, on which the client can parse nothing. `analytics` chooses whether BQ
analytics is configured. A message is a number of texts; its wording is left
out. The list of sessions on the page is always empty (the page asks by e-mail,
the gateway compares with the token's `sub`), so selecting one is not modelled.

### MemoryBank

Every operation is a blocking SDK call in a thread of its own, so a call is
three steps: it starts (`phase` "running"), its effect happens or not, it
returns normally (`ok`) or its exception is swallowed. Calls of one user overlap
in any order. A purge is two requests: it counts, then it purges. Memories are
told apart by the call that wrote them and by the turns their texts come from
(`said`, `replied`). `events[s]` is a session as the callback sees it: which of
its turns have a final text; `LastFinal` is the backward walk of
`skill_learning.py`. Profile updates of Firestore merge a field at a time.
`gone`, `before` and `earlier` are history: what was purged or deleted, and what
had returned when a call was made.

### TaskMetadata and Credentials

`mirror[p][a]` is the dict of a process, `doc[a]` the document, `sent[a]` the
request its driver waits for, `late[a]` requests whose process died. An update
of a document that does not exist fails, as Firestore's does. Any process may
read at any time; `Get` and `Listed` are the two reads. `reached` is history:
the records an assignment really had.

In `Credentials` time is a coarse clock. An answer is fixed when the remote
service forms it (`asked`, `fetching`) and lands up to `Timeout` later, and
requests for one token or for the keys overlap, since nothing makes one wait for
another. The key set takes two requests, the OpenID document and the keys.
`httpx` bounds each operation of a request; the model bounds the request.

### Webhooks and SchedulerJobs

`view[m]` is what the platform knows of its last delivery of `m`, and
`handler[m][k]` where the handler of the k-th delivery is: received (its body
and signature are not read yet), running the agent, posting, done, dead. A
platform may hang up at any time, also before the request was read, and deliver
again; the handler does not notice. Slack is answered when its request was
accepted, before the agent runs. A post can be refused (Telegram, Teams: nobody
looks at the status), or raise before or after the platform took the part. A
Teams activity in `Unaddressed`, without `serviceUrl` or conversation id, has a
reply of no parts. An instance can go with all its handlers.

A scheduled job is a resource name with the call that made it. Creation cuts
and defaults the name an agent invents, deletion does neither, so names are
modelled by a stem, a tail beyond the cut, and the blank name. An update that
fails for any reason is followed by a creation; each request can fail or lose
its answer; a deletion that raises is an error, or "not_found" when the text of
the exception reads like it (`Failed`); calls overlap with each other, with
triggers and with the teardown.

### Selection

`Synthesis` runs the two passes of one task: scores and ranks the registry,
cuts, builds (a template or skill may be one that cannot be built), asks the
skill corpus, merges, falls back. Names are pairs of a base name and the pass,
which is all that `unique_agent_name` tells apart for one task.
`Instructions` reads one `AGENTS.md` after the other as sequences of marked
lines, at most `MaxLines[n]` of them at layer `n`; every file of the bound is
tried at every layer. A text is told apart by the layer and the line it was
written at; `Bare` is the empty "## " line that an override leaves for the text
before the first heading, the one line that can stand in a merge more than once
and belongs to no layer. `Recall` lets corpora answer in any order, merges, and
fills the budget item by item. What these three compute is written with
`Listing`: recursive functions and choices in place of the folds of the
community modules, so that it can be proved about.

### CloudSetup

A resource with a fixed name exists or not; corpora, bank and engine get a
generated name, a number, at each creation. `held` is a name between its
creation and `write_env`; `env` is the file. `After` and `AfterDelete` are the
orders of the steps in the two `main`s. Any call may fail and any run may be cut
short at any step, which costs one of `faults`. The memory bank has its own
chain: find one by its display name, create one, fall back to a corpus, go on
without. Two more steps may be left out: the roles of the engine's own service
account when they are refused, image and service when there is no docker.
`warned` is what the run has gone on without. A teardown deletes the memory bank
by a way that may leave it without saying so, and skips both corpora when it
runs without the SDK; `spared` are the names it has passed over like that.
`knows[i]` is the environment engine `i` was deployed with. `DemoData` gives the
seeding its table-by-table steps within the same run.

## 3. Runs

| Run | Instance | States | Properties |
|---|---|---|---|
| `task_store` | 2 tasks, an instance with a runner and one without, 1 thread each, crashes | 1,113,311 | `EndedMeansStored`, `CancelledIsNeverDone`, `OnlyCancelEndsOpen`, `SeenOutcomeIsTrue`, `StoreNeverRegresses`, `ImplementsLifecycle` |
| `task_live` | 2 tasks, 1 thread, fairness | 301,297 | `EveryTaskEnds` |
| `agents_fresh` | 4 names, 3 slots, 3 levels, disciplined callers | 1,978 | `ExactSlots`, `DepthWithinLimit`, `DepthIsStable`, `TreeIsComplete` |
| `agents_reuse` | 3 names, 4 spawns, no discipline | 54,195 | `SlotPerRunningNode`, `LinksFollowBirth` |
| `skill_corpus` | 4 learners, 2 skills, missing searches, failing uploads | 2,398 | `ReplacedIsArchived`, `NoVersionGap`, `LearnedIsStored` |
| `chat_turns` | 3 turns of 2 texts, both wires, with and without analytics | 2,845,796 | `OneOpenTurn`, `AnsweredInFull`, `ConversationStays` |
| `memory_bank` | 2 users with a session of 2 turns each, 3 overlapping calls, 2 profile fields | 1,628,597 | `ClearedStaysGone`, `ToldIsTrue`, `ProfileIsFresh` |
| `mirrors` | 2 agents, 2 processes, 2 attempts, 1 lost or late request; 2 tokens, 3 keys, 7 units of time, 2 requests at once | 1,547,029 | `AnswersAreTrue`, `OutcomeIsReadable`, `ExpiredTokensFade`, `KeysFollowRotation` |
| `inbound` | a message of each platform and an activity without an address, 2 deliveries, 2 parts, 2 troubles; 3 tool calls on short, long and blank names; fairness | 177,231 | `RepliesAreWhole`, `AnswerComes`, `ScheduledRuns`, `DeletedIsGone` |
| `selection` | up to 4 of 7 templates, 2 skills per search; 3 layers with files of 2, 3 and 2 lines; 2 corpora of 2 chunks, budget 3 | 1,010,311 | `NamesAreDistinct`, `BestAgentsWin`, `LayersAreExact`, `RecallIsBest` |
| `cloud_setup` | 4 runs of either wizard, 2 failures, 2 tables | 2,888,335 | `EnvIsTrue`, `SetupComplete`, `LeftoversAreFaults`, `SeedDamageIsBounded` |
| `chat_framed` | 1 turn on the wire the code produces | | refutes `CompletedIsReported` |

Several properties are conjunctions of named parts that say one thing together
(`RepliesAreWhole`, `KeysFollowRotation`, `EnvIsTrue`, `LeftoversAreFaults`,
`BestAgentsWin`, `LayersAreExact`, `RecallIsBest`, ...); the parts have their
own comments in the modules.

`chat_framed` is the one run that refutes a sentence of the repository:
`docs/API.md` describes the events of a turn, and on the wire that `_sse`
(`gateway/main.py:280`) and the SSE library make together the page never learns
that a turn was completed. The finding quotes the sentence.

Every property of a passing run has a mutant in `PROJECT.json`: a definition of
the model and the plausible bug that takes its place, which TLC catches under
the same configuration. The type invariants and the inductive invariants are
proved (section 4) and not run again.

Bounds and why they suffice.

* Tasks interact only through the thread pool, so two tasks and one thread show
  every waiting relation; one progress note gives a write between the first and
  the last; two instances cover own and foreign answers, and one without a
  runner the error that is raised before any run.
* Four agents on three levels reach the slot limit, the depth limit and a reuse.
* Four learners of two skills let two pairs overlap on one skill and reach
  version 4.
* Three chat turns give a late turn, a current one and the next; two texts
  separate "some" from "all".
* Three memory calls are a writer, a purge and a third that overlaps both; two
  turns let a final text be missing before, after or between.
* Two processes and two attempts let a second process take an agent over while
  a request of the first is late. Seven units of time are more than an expiry,
  both cache lives and two timeouts in a row; three keys allow two rotations
  within one cache life.
* Two deliveries overlap; two parts have an order and a gap; two troubles let a
  crash meet a broken post. Three tool calls allow a creation, its replacement
  under a colliding name, and a deletion.
* Four templates against a limit of two agents make the cut bite and leave a
  template behind it that could be built where those before it cannot; seven
  kinds of them cover ties, templates that cannot be built and core ones that
  match nothing. Three lines hold a marker, a heading and its text; the layers
  before and after with two lines each give it a section to override and are
  themselves overridden, as many layers as `resolve_instructions` has.
* Four runs of the wizards are a broken one, a whole one, a teardown and a new
  setup, in any order; thirteen names are as many as they can use.

None of these bounds is needed by the proofs, which hold for any value.
`CHECK_DEADLOCK FALSE` is set where ids, calls or runs of the bound are used up
and the model may stop.

Fairness. In `task_live`: `LoopStep`, asyncio runs every ready callback;
`ThreadStarts`, the executor's queue is served; `WriteStep`, a Firestore call
returns or raises, by its own deadline; `DeadlineExpires`, `wait_for`'s timer
fires. Nothing is assumed of the agent, clients, or crashes, nor of
`create_session`: it is awaited before the deadline runs (`tasks.py:149`), and
`EveryTaskEnds` leaves out a task that hangs there. A process that receives no
CPU outside requests would weaken this, and `EveryTaskEnds` then holds only
while it is scheduled. Two tasks on one thread depend on each other,
but weak fairness is enough: a thread is free again after one write, and a
queued write can only be passed by the finitely many writes of the other task.
In `inbound`: `HookFairness`, per message, that a handler whose platform still
waits for it, and whose agent run is over, goes on: the instance has a processor
while a request is open, and a post that is not answered raises after ten
seconds. Nothing is assumed of `run_agent`, which no timeout limits, of the rest
of a handler after the platform has hung up, or of Slack's background task after
the response: Cloud Run may take the processor away. Platforms, failures and
crashes are free. For the chat page no liveness is claimed: neither
the page nor the gateway has a timeout for a turn.

## 4. Proofs

Eight modules hold theorems. For each component they prove an inductive
invariant from the named `ASSUME`s of the modules alone, with one lemma per
action, and derive type correctness and the properties from it. Every safety and
every action property of a passing run is proved, for every value of the
constants.

* **TaskStoreProofs.** `TypeOK` and the properties are not inductive: that "done"
  is never overwritten needs that at most one write is in flight, that it
  carries the current record, and that none is left when the record can change
  (`OneCurrentWrite`); that an accepted cancellation is never followed by "done"
  needs that it stays pending until it is met (`CancelIsPending`). The other
  parts tie the status to the await (`StatusFollowsAwait`) and the store and the
  client's answer to the record (`StoreFollowsRecord`). `Refinement` proves that
  every step is a step of `TaskLifecycle` or a stutter.
* **ListingProofs.** What `Kept`, `Unique`, `InOrder`, `SumTo`, `FirstOf` and
  `FlattenSeq` return for every argument: which elements, how often, in which
  order. These are facts by induction over data. No prover here can instantiate
  an induction theorem that takes an operator, so the induction is done on a
  set instead: `Least` gives every set of naturals that is not empty a least
  element, from the library's well-foundedness of `<`; from it come `Induction`
  (a set that holds 0 and is closed under successor holds every number up to a
  bound), `UpTo` and `Iteration`, that a function defined by recursion over
  `0 .. n` exists and obeys its equation.
* **AgentsProofs, the tracker.** The slot counter bounds the running nodes because
  the history and the tree name the same agents (`HistoryMatchesTree`) and, with
  fresh names, a node runs exactly when its spawn is at work (`FreshHistory`).
  The depth and the tree have an invariant of their own, `TreeInv`, under the
  hypotheses `FreshNames /\ KnownParents` of their theorems: the parent of every
  agent is known and older, an agent is among the children of its parent, once,
  and of nobody else, and nobody is deeper than the limit. A spawn adds a
  leaf, so the set above every other agent is unchanged (`SpawnKeepsAbove`) and
  that of the new one is its parent and what is above that (`SpawnDepth`). The
  walk of `get_tree` keeps stack and list apart, without repetition, and parents
  ahead (`VisitKeeps`). As every round lists another agent, the stack is empty
  after as many rounds as there are agents, and of the agents that were not
  listed then the oldest would have a listed parent and so stand on the stack
  (`WalkEnds`). Without the two hypotheses both are false, see
  section 5.
* **AgentsProofs, the synthesis.** `SynInv` says of a pass that has run that it is
  sound (`PassIsSound`), which `SynthesisedIsSound` proves of what is computed
  from any registry, task and search. A template's place among the candidates
  is its rank (`RankedByPlace`, from `InOrderSorts`), the cut keeps the first
  `MaxAgents` places, and the merge keeps every skill and the templates that
  come first (`MergeKeepsBetter`). `BestTemplatesWin` speaks of templates within
  the first `MaxAgents` places: the code cuts before it builds, so one behind
  the cut is not used although one before it cannot be built.
* **AgentsProofs, the instructions.** An override joins sections; `Sections` says
  where each begins, and `SectionFound` that parsing the merged text again finds
  the heading there, with exactly the body that was written, which needs that a
  heading begins one section only (`Unique`) and does not occur before the
  marker of the child. `Sources` gives every text of a merge a place of its own
  in one of its two texts, none in a replaced section of the parent
  (`OverrideSources`). The invariant `InstrInv` is that every text of the merged
  layers was read in one of them and stands there once; then a text of a
  replaced section cannot come back by another way. `Bare` is excepted, since
  repeated overrides do repeat it. `LayersExact` holds for any number of layers
  and files of any length.
* **ChatStreamProofs.** Only the last turn sent can call back (`SentInOrder`),
  the page waits for it (`PageWaits`), its wire and its bubble add up to what the
  gateway produced (`TextsInv`), a terminal event is last (`WireInv`).
* **MemoryProofs, the bank.** A purge clears what was written before it because a
  writer that has returned will not write again and every stored memory names
  its call. A value of a profile was set by an update that has returned, and
  nothing that was asked for before then counts it as earlier, so no update puts
  an older value in the place of a newer one (`FieldSet`). That pairs keep their
  types needs that `LastFinal`, a `CHOOSE`, has a value: the last final turn
  exists by `Least`.
* **MemoryProofs, the skills.** Files are never removed, so what a learner read is
  still true when it writes (`LearnerInv`); versions without gaps and archives
  before replacements follow.
* **MemoryProofs, the recall.** The context is a function of what the corpora
  returned, and that function is shown to give the best chunks: sorted by score
  and place, the first chunk of a text is its best (`Firsts` keeps the earliest),
  and the cut drops no better text for a worse one. `BudgetInv` says of the loop
  that what is taken, what is left and where it stands agree with a sum over the
  costs, and that the item it stopped at costs more than what is left.
* **MirrorsProofs.** For the records: a request in flight carries what its
  driver has in its mirror, a late one what an attempt once had, and without
  faults the document lags by at most that request. For the caches: every
  answer under way was formed at most `Timeout` ago, every entry at most that
  before it came, and none is newer than the clock.
* **InboundProofs.** `DeliveryInv` says of each delivery that the parts in the
  chat are those that were put there, up to one whose post broke, and that the
  parts that are missing are no more than the troubles so far; a 200 to Telegram
  or Teams belongs to a handler that is done (`AnsweredIsDone`). For the jobs: each job
  runs the task of a call that scheduled it under that name (`JobsAreCalls`).
* **CloudSetupProofs.** `StepsDone` lists what each position of a setup has
  behind it; a held name exists and is for an empty place (`HeldInv`); after a
  teardown `.env` is empty or was kept (`TornIsEmpty`). That leftovers never
  outnumber failures needs to count, during a teardown, what it has already
  passed without deleting together with what nothing refers to (`LeftInv`), the
  names in `spared` apart.

The theorems about `Synthesis`, `Instructions` and `Recall` are about `SynSpec`,
`InstrSpec` and `RecallSpec`; a behaviour of `Selection` is one of these and
leaves the other two components where they start.

Only model-checked: the liveness properties `EveryTaskEnds` and `AnswerComes`, for
the prover has no rule for fairness and `ENABLED`; the refutation of
`CompletedIsReported`, a counterexample; and that the instances of the `MC`
modules satisfy the assumptions, which TLC evaluates in every run.

## 5. Divergences

Where a doc, a comment or a message of the repository says more than the code
does. The first has a run; the others were met while modelling and are read off
the lines named. Where a property covers the same ground, it states what the
code does, and its comment says so.

* `docs/API.md` on the events of `POST /chat`: see `chat_framed`.
* `docs/API.md:410`: a task that is cancelled before its run has begun keeps the
  status "running" or "submitted", not "cancelled" (`gateway/tasks.py:136`).
* `docs/API.md:393` gives 404 only to an unknown task; without Firestore, or
  before the first write, another instance answers 404 for an existing one
  (`gateway/main.py:426`).
* `docs/API.md:424`, `gateway/main.py:487`: the list holds the answering
  instance's own tasks only (`gateway/tasks.py:265`).
* `gateway/tasks.py:9` lets `submit` create the stored record; only the
  coroutine's first write does (`gateway/tasks.py:236`).
* `README.md:543`: a result can be seen in memory before its last write, and a
  restart in between loses it (`gateway/tasks.py:202`).
* `gateway/main.py:414`: "running" is also answered for a task whose process is
  gone or whose cancellation was not stored (`gateway/main.py:424`).
* `gateway/tasks.py:149`: a `create_session` that never answers leaves its task
  "running" for ever; the deadline of one hour starts after it.
* `agents/agent_lifecycle.py:105`: a reused name and a late report free one slot
  twice, and more agents run than the cap; `:173`: the slot of a running name
  that is spawned again is never released; `:106`: a parent spawned after its
  child pushes the child below the depth limit; `:189`: a node whose parent is
  unknown is in no tree; `:197`: an agent spawned as its own child makes the walk
  of `get_tree` endless.
* `README.md:554`, `memory/skill_store.py:7`: `is_current` is never set to false
  on a stored file, and a search returns archived copies too.
  `memory/skill_models.py:28`: two learners that read one version write the same
  next version.
* `gateway/main.py:263` uses `asyncio` without importing it: with analytics
  configured every turn ends with an error event after its text.
* `ui/src/lib/api.ts:6`: a broken connection ends the turn without `onError`;
  `ui/src/app/chat/page.tsx:67`: a turn that ends after "New Chat" brings the old
  session back.
* `memory/memory_bank.py:71` asks for `settings.gcp_region`, which `config.py`
  does not define, so the bank is always in `us-central1`; a purge that fails is a 204 (`gateway/main.py:319`).
* `memory/skill_learning.py:10`, "Persist the conversation turn", and `:119`,
  "Write this conversation turn": the agent's text is the last final one of the
  whole session (`:97`), so after a turn without one the user's text is stored
  beside the reply to an older question.
* `docs/API.md:36`, "expired [...] tokens are rejected with HTTP 401", and
  `gateway/auth.py:48`: a token found in the cache is accepted whatever its
  expiry, for one cache life and one request at most (`ExpiredTokensFade`).
* `agents/task_metadata.py:125`: a list is partial when the mirror of the process
  is not empty.
* `agent_registry.yaml:15` calls priority 1 "core, always considered";
  only templates with a score of at least one are
  (`agents/synthesizer.py:166`). When the second synthesis finds nothing, the
  parallel agent has no sub-agents.
* `agents/synthesizer.py:12`, `:280` and `docs/multi-agent-collaboration.md:74`: a
  skill should take the place of a template of its domain; only equal names are
  dropped, which the two never have, so both are used (`BestAgentsWin`).
* `memory/context_budget.py:12`, "always included": a profile that costs more
  than the budget is left out (`:66`, `SummaryFillsBudget`).
* `agents/scoped_instructions.py:195`: an override also replaces the parent's
  text before its first heading, by an empty "## " section.
* `tools/scheduler_tool.py:143`: an update that took effect and lost its answer
  is reported as an error, for the creation then finds the job; `:173`: deletion
  neither cuts the name nor knows the default; `:187`: "not_found" is also
  answered for a job that is there, when the call failed with a text that has
  "not found" or "404" in it; a trigger that is delivered twice
  submits two tasks. The teardown's filter matches the whole resource name, so a
  project or region with "hermes" in its name loses other jobs too.
* `connectors/runner.py:30` cuts user ids.
* `connectors/teams.py:138`: an activity without `serviceUrl` or conversation id
  runs the agent, is answered 200, and gets no reply.
* `setup_wizard.py:639` and `:685`, "all steps are idempotent": a run that ends
  between a creation and `write_env` leaves a resource behind, and the next one
  makes another. "Setup complete!" is also printed without the roles of the
  engine's service account (`:335`), without a memory bank (`:519`) and, when
  there is no docker, without the Cloud Run service that was asked for (`:526`),
  each after a warning (`SetupComplete`).
* `teardown_wizard.py:450`, "No idle resources remain": the demo dataset and the
  role bindings have no step, the corpora are skipped without the SDK (`:193`),
  and a memory bank may stay behind a "deleted" whose exit status nobody read
  (`:175`).
* `eval/optimize.py`: the score of a candidate does not depend on the
  instruction that is optimised.

## 6. Not modelled

Agent definitions (prompts for a model), stateless calls of Google APIs
(`tools/*`), verdicts of the policy engine and of Model Armor (inputs of
`ChatStream`), metrics, traces and analytics rows, infrastructure declarations,
evaluation scores computed from texts, the optimiser's sequential search, the
skill loader (one upload per file at start-up) and the one-shot deployment
scripts the wizard has replaced: they keep no state that the program reads back,
or no behaviour of their own. `gateway/agent_gateway.py` has no caller.

Within the modelled components: a Firestore call of the task store that times
out at the client and is applied later, graceful shutdown (treated as a crash),
eviction (`_tasks` has none), a learner task collected because nothing refers to
it, page reloads, selecting a listed session, signature checks of the connectors
(inputs), sessions that coincide after ids were cut, `list_scheduled_tasks` and
the session list (reads only), the uploads of `seed_knowledge_base.py`.

What would come next: a refinement of `MemoryBank` and `TaskMetadata` to an
abstract store per user and per assignment; the restart of an instance in the
middle of `Selection`.
