# Sera: models, checks and proofs

This directory is the verification project kept beside Sera, an autonomous
agent that runs on its user's machine. TLA+ modules translate the control of the
program's core from `src/sera`, TLC checks them on small instances, and TLAPS
proves the results that hold for every size. `PROJECT.json` lists, definition by
definition, the source lines a module stands for.

## 1. The system

| Part | State it keeps | Operations | Hard behaviour |
|---|---|---|---|
| Agent loop (`agent/`, `tools/delegate.py`, `tools/dispatcher.py`) | shared iteration budget, grace flag, interrupt token, pending tool calls | `run_turn`, `delegate_task`, `execute` | recursion on one shared budget, Ctrl+C at any await, exceptions half-way through the calls of a reply |
| Session store (`memory/session.py`) | rows of each session, usage, `last_status`, frozen prompt | `append`, `load`, `create`, crash scan, `search` | a process killed between two rows; two processes on one database |
| CLI (`cli/main.py`) | the REPL's session, one budget and token per turn | `_repl`, `sera sessions`, admin commands | exceptions end a turn but not the session |
| LLM layer (`llm/`) | provider chain, call statistics, bandit posteriors, spend, distillation cache, frozen prompt | `FailoverChain.stream`, `BudgetEnforcer.check/add`, `DistillCache.get/put`, `freeze_system_prompt` | a provider that fails after half an answer; spend checked before and added after a call |
| Context (`context/`) | the buffer of the stream scrubber; else functions over the history | `compact_session`, `StreamingContextScrubber.feed/flush`, TokenJuice | cutting a history without orphaning tool results; tags cut by chunk borders |
| Device sync (`sync/`) | one CRDT document per device and one at the relay | `LWWRegister`, `ORSet`, `CRDTDocument.merge`, relay handler, `RelayClient.sync` | concurrent edits, lost connections, a relay that restarts empty |
| Supervisor (`rpc/supervisor.py`) | child process, restart history, state | `run`, `decide`, `stop`, signal handlers | a signal between two statements of the loop; restart storms |
| Sidecar (`rpc/server.py`, `rpc/http_api.py`) | PID lock, signing key, HTTP bridge futures, counters, streams, ingest | `acquire_pid_lock`, `boot_sidecar`, `make_async_bridge`, the request handlers | two sidecars starting at once; a timeout racing a late answer |
| Gateway (`gateway/`) | identities, platform links, channel sessions, mailbox cursor, senders, pollers | `GatewayRouter.dispatch`, `IdentityStore.link/merge`, `get_or_create_session`, the polls | two messages of one user at once; a merge racing a message; a poll that fails half-way |
| Skills (`skills/`, `profile_learning.py`) | a row, a pin and counters of each skill, a git history, suggestions, `PROFILE.md` | `sweep`, `touch`, `pin`, `archive`, `revive`, A/B verdicts, `commit_skill_change`, `apply` | the nightly sweep reads, decides and writes while skills are used |
| Plugins, MCP, packs (`plugins/`, `tools/mcp.py`, `marketplace/`) | registered tools, pending calls, the catalog | load, unload, `call_tool`, pack, publish, install | a load that fails half-way; a late answer; a file that changes behind its verification |
| Safety (`safety/`, `os_hooks/consent.py`) | encrypted vault, remembered approvals, consent, hash-chained audit log | `VaultApprovalGate.request`, `EncryptedVault.*`, `AuditLog.append/verify` | load-modify-save without a lock; two writers on one chain; a crash in a key rotation |
| Memory (`memory/`) | tree of chunks, embeddings, graph, migrations, Obsidian vault | ingest, dedup, backfill, search, migrate, synchronise | partial failure of a migration; a check and a write in two transactions |
| Curation, tools it writes, dreams (`curator/`, `tools/genesis.py`, `dream/`) | the queue of sessions, reports, tool files, entries by date, the exported corpus | `enqueue`, `wait_idle`, `genesis`, `promote_tool`, `dream`, `export` | stops racing the queue; awaits between a check and what it lets through; a night that is re-run |
| Council (`council/`) | labels, answers and rankings of one run | `run_council`, `_collect_rankings`, `compute_confidence`, `run_chairman` | members, rankings and the synthesis fail one by one |
| Federation, eval, install, hooks, notifications, voice, shells | small stores of their own | see `PROJECT.json` | mostly sequential or I/O |

How they interact: the CLI, the HTTP bridge and the gateway call `run_turn`; the
loop calls the LLM layer and the tool dispatcher and appends to the session store; a
tool may be `delegate_task`, which calls `run_turn` again on the same budget; the
approval gate calls the vault; a turn hands its session to the curator's queue; the
supervisor keeps the sidecar alive, whose PID lock is meant to keep it single; the
relay broadcasts merged documents to the devices. Several processes (a REPL, a
sidecar, a gateway, a setup command) share the SQLite files and the vault.

For each component, what makes it correct:

- *Agent loop:* a turn and all its subagents stay within one budget and end; the
  grace call is the last one; after Ctrl+C almost nothing more is started; what is
  stored is a history that a provider accepts; a process that died in a turn is
  noticed.
- *Device sync:* no edit is lost while a device lives, nothing is taken back, and
  devices that stay connected end with one document.
- *Supervisor and sidecar:* one child, a bounded rate of restarts, an end after a
  stop, no process left behind, one server at a time.
- *Skills:* quarantined content never reaches a turn, trust is earned by a replay
  of what is on the disk, and a runtime catches up with the disk.
- *Gateway:* a message is dispatched once, turns of one user do not mix, spend is
  bounded although checks and charges are apart, and whoever waits is answered.
  Each conversation of each platform goes on in its own session, and its answer
  goes where it was asked.
- *Identities:* strangers never share a session; one person has one.
- *Vault, approvals, audit:* no stored decision is lost, a denial holds for its
  cooldown, and verifying the chain names what was edited.
- *Context:* a compacted history has no orphan tool rows; how a stream is cut into
  chunks does not matter to what is scrubbed from it.
- *Memory, migrations, notes:* it is known where a chunk came from, nothing private is
  shown without consent, a database is at a version, and files and chunks agree
  after a synchronisation.
- *Services:* answers reach their calls, tools belong to what registered them, what
  is installed was verified, and what is counted happened.

## 2. Modules

| Module | Models | Proofs |
|---|---|---|
| `BoundedTurn` | abstract: a turn makes at most `Limit` requests to its model and ends | |
| `AgentTurn`, `MCAgentTurn` | one agent process, its turns and its session | `AgentTurnProofs` |
| `Crdt` | the registers, sets and documents of `sync/crdt.py` as operators | |
| `RelaySync` | devices, relay and sockets, on top of `Crdt` | `RelaySyncProofs` |
| `Sidecar` | processes that boot, lock, bind, serve and shut down | |
| `Supervisor` | `sera serve --supervised`, composed with `Sidecar` | `SupervisorProofs` |
| `SkillWorkshop`, `MCSkillWorkshop` | commands on skills and the runtimes that load them | `SkillWorkshopProofs` |
| `Gateway`, `MCGateway` | webhooks, poller, API threads, dispatch, spend caps | `GatewayProofs` |
| nine stores, `MCStores` | what is kept beside the agent, a module each | `StoreProofs`, `MemoryProofs` |
| eighteen services, `MCServices` | what works beside the agent, in fifteen modules | `ServiceProofs`; of the nights, the scrubber and the chunks `SupervisorProofs` |

A comment `(mutant)` marks an operator that no specification uses: it is a wrong
version of the definition below it, and `PROJECT.json` says which property fails
when it takes the place of the right one. Each property of a passing run has one.

### AgentTurn

A turn is a stack of frames, `run_turn` of the user at the bottom and one more for
each `delegate_task`; `pc[d]` is the place in `loop.py` where frame `d` is. An
action is what happens up to the next await or call: `Consume`, `TakeGrace` and
`Exhausted` are the three ways through lines 213–228; `CostAllows`, `Summarised` and
`Overflow` open a stream of the model each (`Request`), for an answer or, where the
history has to be compacted first, for its summary; `Reply` stores the assistant row,
`RunTool`, `Deny` and `ApprovalFails` are the three ends of a call, `Delegate` and
`FinishSubagent` the recursion. An exception of a subagent becomes the error
result of its parent's call (`Raise`), one of the root ends the turn. `CtrlC` may
come at any step, and so may `Crash`, which keeps the rows that are committed;
`Restart` and `OtherScan` run the crash scan. Rows are reduced to their role, the
number of calls and the call they answer; texts to none, some text and the
sentinel of an exhausted budget.

The budget counts iterations, not requests: an iteration makes up to four, since
`_build_view` may ask for a summary (lines 234 and 273) and the answer is asked for
again, once, after an overflow (line 281). `asked` counts every one of them.
`RequestCap` says both halves, that there are at most `Total + 1` iterations and that
no request is made that one of them does not pay for, and `KeepsContract` instantiates
`BoundedTurn` with `left <- 4 * (Total + 1) - asked`. What tools ask of other models is
not of this budget: a skill that goes to the council (line 382) asks each of its models
at most twice and one of them for the synthesis, which `CouncilVote` has.

### Crdt and RelaySync

`Crdt` translates `merge`, `set`, `add` and `remove`; a uid stands for a uuid. In
`RelaySync` a step is what asyncio runs between two awaits. `up` and `down` are
the two directions of a WebSocket: ordered, and gone with the connection or with
the relay. `Edit` reads any clock value that `FineClock` allows; `Sync` and
`SyncEnds` are the two ends of `sync()`, with the event that any inbound frame
sets. `CallbackFails` is the `on_update` hook raising in the receive loop.

### Sidecar and Supervisor

`stage[p]` follows a process through `acquire_pid_lock` (check, then write),
`bind`, `serve` and its shutdown; pids are reused once reaped, and `rivals` are
sidecars that somebody else starts on any port. `Supervisor` EXTENDS it: its
`Spawn` makes a process and `Assign` stores it in `_child`, because the signal
handler (`Signal`, then `ChildStops` or `KillChild`) may run in between. Time is in
ticks; the restart times are ages, and `Tick` ages them.

### SkillWorkshop

`job[w]` is a command and the step it is at: each file operation and each
transaction is one action, and `Die` may end it between two. `Discover` and
`Register` are the two halves of a reload, since the mtime of a manifest is
read in the second. `mixed` and `raced` are history variables which record where a
guarantee is excused: two commands on one skill, or a rewrite in the middle of
a reload.

### Gateway

Everything that awaits a dispatch is a lane: the consumer of the webhook queue,
the poller and each request of the API. `at[l]` is the await where its dispatch is.
`Webhook` parses (`Parse` and its six cases) and answers 202 or 422; `Poll` moves
the cursor; `Serve`, `NextText` and `Request` call `Dispatch`. `Step(l)` has the rest
of `dispatch` and of the turn: the early returns (`Refuse`, `NoModel`), `Resolve`
and `Begin` with the session, `NextCall` with the check of the caps, `Count` with the
charge behind the call, `CallFails`, `Reply`. `StreamNext` and `Timeout` are the HTTP
thread of a request. `Outage` makes the table of the day's spend unreadable for a
while, in which it counts as 0. Turns are reduced to their iterations, each a call of
the model that is charged once, with the usage of its last stream (line 308):
`AgentTurn` has the rest of them.

The two models meet in the iteration of a turn. `AgentTurn` shows that their
number is bounded (`RequestCap`), which is what `MaxCalls` in `Gateway` stands for;
`Gateway` shows what a lane may spend with them.

### The stores (`MCStores`)

Nine components keep something that several processes or tasks change at once.
They share no state with each other, so that `MCStores` EXTENDS them all and its
initial state chooses the one that a behaviour is about. A step is one
transaction, one file operation, or what a task does between two awaits; a death
may come between any two.

| Module | Code | What its property says |
|---|---|---|
| `Identities` | `gateway/identity.py` | strangers share no identity and no session; one person has one of each |
| `VaultStore` | `safety/vault.py`, `safety/approval.py`, `os_hooks/consent.py` | a denial, an approval, a secret and a consent hold until they expire or are taken back (`PromisesAreKept`) |
| `AuditChain` | `safety/audit.py` | `verify` raises only where a writer died in the middle of a line; when it answers, it has read all that was appended and names exactly the entries whose payload was edited (`VerifyIsExact`) |
| `Migrations` | `memory/migrations/` | the schema is at a version, and what is remembered is never ahead of it |
| `MemoryTree` | `memory/tree.py`, `graph.py`, `search.py` | where a chunk came from and its edges are what happened; nobody is shown private text without consent |
| `VaultMirror` | `memory/vault.py` | after an undisturbed synchronisation every file has the id of a chunk with its body |
| `ContextView` | `context/compressor.py` | compaction makes an accepted history of an accepted one |
| `CuratorQueue` | `curator/loop.py` | a session has one report, and has it when the event is set |
| `ToolGenesis` | `tools/genesis.py`, `eval/tool_eval.py` | the file of a promotion is one that passed its cases |

### The services (`MCServices`)

Eighteen more, of the same form; three that keep records of skills share a module, two
that a night works on another. `Installs` puts `PluginLoads` and `PackMarket` together,
the two ways in which code comes to a running agent.

| Module | Code | What its property says |
|---|---|---|
| `Surfaces` | `gateway/platforms/` | an event continues the conversation of its user, and the answer goes where it was asked (`EachInItsConversation`) |
| `Mailbox` | `gateway/platforms/email.py` | a mail is an event once, one marked as seen is or will be, and a reply names its thread (`MailsAreAnsweredInTheirThread`) |
| `SessionRows` | `memory/session.py` | rows of several processes are all there but those the database refused, in order, indexed, and their usage adds up (`SessionRowsAreExact`) |
| `Routing` | `llm/failover.py`, `bandit.py`, `router_stats.py` | arms hold the turns of their profile; chunks come from the providers in order, of a next one only when the one before has failed, and its event says so (`RoutingIsBooked`) |
| `ApiServer` | `rpc/http_api.py` | a reply tells of a turn that ended well, behind all its events; only accepted requests run turns; the counts are those of the answers (`ApiAnswersAreTrue`) |
| `McpClient` | `tools/mcp.py` | a call gets its own answer or none; the reader serves the others until the server is gone or sends what it cannot take; `stop` leaves no tool (`AnswersReachTheirCalls`) |
| `PluginLoads` | `plugins/manifest.py`, `tools/registry.py` | a tool is of the plugin its name says, from a load nobody took back; `sys.path` has the directories of the loaded plugins; another plugin's file runs in named cases only (`InstallsHold`) |
| `PackMarket` | `marketplace/`, `skills/pack.py`, `redteam/pack.py` | what is in place was verified with the key of the caller or of the catalog row; a skill fits the manifest it came with, if that names it (`InstallsHold`) |
| `SkillShelf` | `skills/lifecycle.py`, `ab.py` | an archived skill stays so, a sweep archives only what is stale and unpinned, a match never archives the better one (`SkillRecordsHold`) |
| `SkillRecords` | `skills/scoring.py` | only failing demotes a skill, and a thumb never works against its direction (`SkillRecordsHold`) |
| | `skills/git.py` | what is staged reaches the log, under its author, and versions only go up (`SkillRecordsHold`) |
| | `curator/meta.py` | no window has more proposals than the limit (`SkillRecordsHold`) |
| `ProfileReview` | `profile_learning.py`, `profile.py` | what was applied and has no escape stands in the file until it is taken out, and so does the user's text; nothing else gets into the block (`AppliedIsKept`) |
| `Chunker` | `memory/chunker.py`, `context/tokens.py` | chunks cover the document in order, under its headings; one repeats the end of the one before, a line or within the overlap, and is over the limit by no more than that (`ChunksAreTheDocument`) |
| `StreamScrubber` | `context/scrubber.py` | every cut of a text into chunks gives the text without its spans (`SpansAreStripped`) |
| `CouncilVote` | `council/`, `skills/manifest.py` | winner and disagreement follow from the rankings (`VotesAreCounted`) |
| `DreamJournal` | `dream/`, `curator/discovery.py` | the corpus on disk has of the pairs of the entries its export began with the first of every digest (`NightsAreKept`) |
| | `dream/capability_log.py` | the first sight of a capability is kept, and reported as new once (`NightsAreKept`) |

Most of these properties hold but for named cases: two processes of which one
loses its change, a crash in between, two calls of one name. A history variable
(`mixed`, `clashed`, `hasty`, `disturbed`, `overtaken`, ...) records that such a case has
occurred, the property excuses what follows from it and nothing else, and section 5
lists it. Where a property is a conjunction over several components, each conjunct has
a mutant of its own. `Unspanned` in `StreamScrubber` and `Consensus` in `CouncilVote` are
reference definitions: the first looks at the whole text and the second at pairs of
labels, where the code goes chunk by chunk and ranking by ranking. The counters of
the HTTP server are added to without a lock; the model takes an increment as one
step because CPython changes threads only at calls and at backward jumps.

## 3. Runs

| Run | Question |
|---|---|
| `agent_deep` | one turn, two iterations and the grace, two calls a reply, overflows and summaries, subagents as deep as the budget allows, interrupts and crashes anywhere: `TurnIsBounded`, `KeepsContract` |
| `agent_history` | two turns on one session with the distillation cache, crashes, restarts and scans by other processes: `StoredHistoryIsSound` |
| `agent_kill_mid_tool` (violation) | is a session that was killed in a tool flagged? |
| `relay_safe` | two devices, two edits, one fault, sockets of one frame: `NothingGoesMissing`, `Monotone`, `Converges` |
| `super_safe` | two pids, two ports, one crash, storms of two restarts in four ticks: `ChildIsLookedAfter`, `RestartsAreRateLimited`, `SingleInstanceWithoutOverlap`, `SupervisionGoesOn` |
| `skill_safe` | one skill name, three bodies, two commands at once, one death, one runtime: `ServedSkillsAreSound`, `CatchesUp` |
| `skill_gate` (violation) | do candidates stay out of a runtime until they are verified? |
| `gateway_safe` | two posts, two texts and a streamed request, with a restart, an expiry or an outage: `OverspendIsBounded`, `MessagesAreServedWhole`, `EndMeansAll`, `NobodyWaitsForever` |
| `gateway_silent` (violation) | is every dispatched message answered on its platform? |
| `stores_safe` | the nine stores, one to a behaviour: their types and ten properties |
| `vault_watcher` (violation) | is every change of a note that settles reported? |
| `services_safe` | the eighteen services, one to a behaviour: thirteen properties |

Why the bounds are enough:

- **agent_deep** `Total = 2` is the least budget in which a root and a subagent each get
  an iteration and the grace is left to either of them, or to a subagent of the
  subagent; two calls a reply give a first, a last and a pending call. **agent_history** has `Total = 1`,
  since depth adds nothing to the rows of the root, and two turns, so that the
  second one finds rows, a cache entry and a flag of the first.
- **relay_safe** Each property relates two documents, or one document and one
  frame; two edits are a concurrent add and remove or two writes of a key; one
  fault is a lost connection, a restart or a failing callback. `Cap = 1` keeps the
  state space finite; it is an artifact, and the fairness takes account of it.
- **super_safe** Two pids are a child and its successor or its rival. `Threshold` and
  `Window` are the smallest with a storm that ages out. `MaxPower = 2` brings the
  overflow of a float (1023 in the code) within reach.
- **skill_safe** Two commands are what it takes to overlap; the three bodies are one
  which passes its replay, one which does not and one which is risky. Names do
  not interact but through `mixed`, and the theorems hold for any number.
- **gateway_safe** The product of the bounds is too large to visit: `Cases` in
  `MCGateway` lists which messages stay away and how many restarts, expiries and
  outages are left, so that each pair of lanes meets, and each fault meets each
  lane. The theorems for all its safety invariants need no bound.

- **stores_safe** Two actors meet in every pair of their steps, which is what each
  of these properties is about; the vault has three turns in two processes, since
  what happens within a process differs from what happens between two. Three
  entries are a first, a middle and a last one of a chain; three versions and four
  runs let a migration stop, be repeated and be overtaken; seven messages, of which
  compaction keeps three or fewer, put every border between a reply and its results.
- **services_safe** Three mails are a thread with a reply in it; two providers a first
  and a last one; three loads of two plugins a load, an upgrade and a rival. Two
  tools are what a load needs to fail at its second one, two entry points what two plugins
  need to share a name and to differ. A pack is
  signed with one key or not at all, written twice and listed twice, with a manifest that
  names its contents or without. One suggested bullet becomes another at its next rendering
  and an error at the one behind, one stays as it is. Lines
  of three lengths are below, at and above what a chunk takes; the overlap of three tokens out
  of four leaves too little room for the paragraph it is carried for. Of three pairs of a
  dream's corpus two share a digest. Texts of three pieces
  out of eight, cut in every way, contain both tags, nested, unfinished and stray.
  Three seats are the fewest with a majority; the rosters have no model, a model listed
  twice and one model more than there are labels; all orders and failures are tried, and
  the labels are dealt in one way to three models, which differ by name only. A
  window of two ticks is passed three times. What one service may choose at its
  start is pinned while another one runs, which only removes copies. The run visits 2.6
  million states.

`CHECK_DEADLOCK FALSE` is set where the system may stop for good: no more messages
come, or no more commands. Elsewhere there is always a step, an edit or a tick.

**Fairness.** In `AgentTurn` the event loop runs the agent, models and tools end or
fail; nobody has to interrupt. In `RelaySync` ready tasks run, and an application
pushes what it changed; strong fairness for `Handle` and `Push`, because `Cap` may
disable them again and again where the code would only wait. In `Supervisor`
processes which can run do, `run()`, the handler and the time go on; nothing has to
crash or to be signalled. In `SkillWorkshop` commands and turns get to their ends. In
`Gateway` the loop serves its queues, a thread of the API stops waiting, and
the turns of posts and texts end because the client of a provider gives up in the
end; those of requests may hang for ever.

## 4. Proofs

TLAPS proves, for every value of the constants that satisfies the named
assumptions, with no bound on the length of a behaviour:

- **AgentTurnProofs** `TypeOK`, `RequestCap`, `DelegationDepth`, `GraceIsLast`,
  `OneLateTool`, and that every step of the agent is one of `BoundedTurn` or a
  stutter. The invariant is `TypeOK /\ Stack /\ Books /\ Paid /\ Late`. The cap alone
  is not inductive: `Books` says that the iterations consumed have paid for what was
  asked and for what the top frame's iteration may still ask (`PaidFor`), `Paid`
  counts the frames below the top, each of which has paid for one iteration, and
  `Stack` says that a frame below the top waits for the one above, so that a grace
  call can only be at the top. `HistoryIsSound` is about the rows of a session, by
  `HInv`: every result has its call at its distance above it (`Accepted`), what is
  still open are the last calls of the last assistant row (`OpenFrom`), and whatever
  a returned turn has stored is answered unless the root took the grace call
  (`Answers`).
  The council that a turn may ask has its proof here: `VoteInv` only says that the
  verdict is the one its rankings call for, and the rest is arithmetic of finite
  sums, which `SumsAre` to `SumSwaps` establish of the library's fold. A label's points
  are the votes it wins against the others (`ScoreIs`), what all win is what all lose
  (`WonIsLost`), so one wins no less than it loses; one that every other label beats wins
  less (`BeatenLoses`) and cannot have the most points. The sum of the taus is that of the
  margins, by exchanging the sum over pairs of rankings with that over pairs of labels
  (`TauIsConsensus`).
- **RelaySyncProofs** `TypeOK`; and, of a clock that does not repeat (`FineClock`),
  `NodesHoldEverything`, `TombstonesFollowAdds`, `BroadcastsReach`, `Monotone` and
  `MergeIsCommutative` of the documents that meet. `Provenance` says that every
  document, wherever it is, holds only recorded edits, and `UniqueStamps` that
  no two writes of a key are stamped alike, from which the merge is a join. Without
  the assumption it is not: see the first departure under *Sync*.
- **SupervisorProofs** `OneChild`, `OrphanOnlyFromSpawn` and
  `SingleInstanceWithoutOverlap`. `Handles` says where a child can be when `run()`
  is at each place, `Signalled` what is known while a stop is under way, `Locked`
  whose pid is in the file when nobody boots at the same time as another.
  `RestartsStayLimited` needs `Rated`: the restarts within a window are the last ones
  of what the supervisor has in its list, which is shorter than the threshold while
  it sleeps. The list is pruned by a loop; `FreshFacts` says where the loop stops.
  The module holds the proofs of three services as well, since the fold of the
  supervisor's list and theirs rest on the same lemmas:
  - `NightInv`, for `NightsAreKept`: an export has written what is left of it says, the first pair
    of every digest in the list up to the k-th (`WrittenUpTo`), and the corpus on disk
    is that of a whole list. `Distilled`, a fold, is taken apart by `FoldIsThere` and
    `FoldIsUnique`. `SightInv` adds only types to `FirstsAreKept`, whose count of new
    capabilities is carried from snapshot to snapshot by cardinalities.
  - `ScrubInv`, for `SpansAreStripped`, that is, for every text and every way to cut it:
    what the scrubber still owes of a text, whatever pieces follow, is what the
    definition on whole texts gives from what it holds back on (`Owing`);
    between two chunks it holds back no more than could be the start of a mark (`Waits`).
  - `ChunkInv`, for `ChunksAreTheDocument`: behind every turn of the loop the chunks and the
    builder have what the property says of chunks, up to the line the loop is at
    (`Filled`), and the builder's lines have no heading behind them, so that the headings
    over them are those in force. The stack may be wrong where levels are skipped; what holds
    always is that of levels that are all there it has the headings at their places, and
    that it is no longer than the headings are deep (`StackOk`). What a chunk weighs over
    `max_tokens` is what the overlap it begins with weighs, which a paragraph that is added to
    it cannot change (`AddsTo`). `PiecesAre` and `SplitIs` go through the two folds over a
    paragraph that is too large.
- **SkillWorkshopProofs** `TypeOK`, `QuarantineHolds`, `StaleOnlyFromRace`,
  `TrustNeedsReplay`, for any predicate `Passes`. `Clean` follows a body from the
  proposal through the command and the disk to the registry; `Tracked` says what an
  mtime tells; `Alone` that an undisturbed command is the only one on its skill.
- **GatewayProofs** `TypeOK`, `OverspendIsBounded`, `EndMeansAll`, `EachMessageOnce`,
  `PostedTurnsStayWhole`, each with an invariant of its own on top of `TypeOK`.
  `Charged`: what is spent and what the calls in flight may cost is below the cap
  and one call for each lane. `Streamed`: tokens sent are tokens seen or in the
  queue, and the end is last. `Posted` and `Texted`: a message is in exactly one
  place between its arrival and its dispatch. `InTurn`, `Behind`, `Whole`: the rows
  of posts in a session follow the order of the answers 202, up to the post at
  work, up to the queue.
- **StoreProofs** The properties of five stores.
  - `MigrationInv`: a run has all changes below the one it makes, and the version it
    books is of a change that is made.
  - `AuditInv`: each line carries the hash of its number, its payload as it was
    written and the hash before it (`Chained`), and whoever is to append has the last
    hash (`Appending`), as long as no two appends overlap. That `verify` names the
    edited lines, and none else, follows line by line. A last line without its end is of a
    writer that died, and an entry that is no line of its own leaves a broken line behind,
    at which `verify` raises.
  - `ExactInv` for identities. `person` says who is who by what was linked and merged,
    and `Declared` that tables, calls and sessions follow it, which separates
    strangers whatever races; `ExactWith` adds what one call that is alone is about
    to change, so that a person has one identity when it is done.
  - `VaultInv`: as long as no changes overlap, what is on disk is what was promised, a
    saving task is to write this with its own change, and every process has the key
    of the ring (`Alone`).
  - `CuratorInv`: a session is in one place (a caller's hands, the queue, a worker's
    hands), a report is the last of it, and each accepted one is on its way, reported
    or lost (`InOnePlace`, `OnceReported`, `Accounted`).
- **MemoryProofs** The other four, and `StoresKeepTypes`: the type invariant of all
  stores together, `MCTypes`, from the invariants of both modules and of the records
  that only the types need.
  - `MemoryInv`: whoever merges into an undisturbed chunk has its list of sources, and a
    chunk is in the hands of one backfill, which has the edges not yet stored, or of
    none and has all or nothing (`Provenance`, `GraphOk`).
  - `MirrorInv`: while nobody disturbs a walk, the files behind it agree with their rows
    and the one at hand is what the walk has read (`WalkInv`).
  - `ViewInv` says little more than that a view is a compacted history; what matters is
    the lemma `CompactionIsAccepted`: of an accepted history of any length, cut where
    `compressor.py` cuts it, head, summary and tail are an accepted one but for the two
    named exceptions.
  - `GenesisInv`: while tasks do not overlap, the file in quarantine has passed the
    checks its task has behind it, and the registered tool is the file (`TidyInv`).
- **ServiceProofs** The properties of ten services; the two of `PluginLoads` and
  `PackMarket` make `InstallsHold`, the four of the skills' records `SkillRecordsHold`.
  - `McpInv`: an id that is pending is of a call that waits, was cancelled, or was not
    written because the server was gone (`PendingWaits`); only ids the server has used
    itself may come back as requests (`PipeIsAsked`). A call that waits is pending as long as
    the reader has not ended (`WaitingArePending`), and it ends only for a server that is gone
    or for something it cannot take (`ReaderGoesOn`).
  - `PluginInv`: each tool is of a load that was not taken back, which may have failed behind
    it (`ToolsAreOwned`); each load that is held has its tools or a later one has
    (`HeldHasTools`); the path has the directories of what was loaded, once each
    (`PathIsLoaded`, `Once`); and a module of another plugin was imported under its name
    before, or found in front (`ModulesCameWithLoads`). `PackInv`: what an install saw fits
    the signature, and a red pack's the digest, from its verification on; what is put in
    place is digested again only if its manifest names it (`PlaceHolds`).
  - `ProfileInv`: while the file is not disturbed, at most one reviewer is between its
    read and its write, with a text that has all that was applied and has no escape
    (`FileIsKept`). What is in the block comes of what was applied, rendering by rendering
    (`BlockIsExplained`); `IsFormOf` is the least set closed under rendering, which avoids a
    recursive definition.
  - `RoutingInv`: a call that is at its n-th provider has n - 1 failures behind it, in
    order; an arm has its turns and its seeds.
  - `ApiInv`: what each phase of a request tells of its turn; the requests that count as
    successes are finitely many, and `stats["ok"]` is their number, though the set of
    requests may be infinite.
  - `SurfaceInv`: a sender's row is of their last event or old enough to be gone
    (`RowsAreOfLast`); an event and the one before it share a session if and only if
    the row was there in time (`EventsGoOn`).
  - `MailInv`: what a poll has to fetch or to hand on was given to nobody, and references
    name earlier mails only, so that none is appended twice.
  - `RowsInv`: the list of a process is what it loaded and then its own rows; the stored
    rows of a process are the ones it appended and the database did not refuse, in order
    (`LinesHold`).
  - `ShelfInv`: what the user archived is so in its row, and a sweep that holds it was
    overtaken (`ArchivedStays`); its two cutoffs are those of the day it began. `HistoryInv`:
    versions fall from the file to the index
    to the log and climb along it (`VersionsFollow`, `VersionsClimb`); what is staged is
    in the hands of the call that staged it (`StagedIsHeld`), unless calls overlapped.
    `LimitInv`: the accepted proposals of the window that ends now are the last ones,
    all are remembered, and they are counted before one more is taken. The scores need
    no invariant but their ranges; the signs of products carry the proof.

What these proofs assume of the constants are the named assumptions: bounds are
natural numbers, the marks for "nothing" (`NoFile`, `NoFileYet`, `NoRow`, `Nobody`,
`NoSkillRow`) are none of the values they stand beside; a curator's limit and its window
are positive, as its constructor demands (`LimitAssumption`); pieces of text are
sequences (`TextAssumption`); the models of a council are a sequence, which may be empty
(`CouncilAssumption`). Properties that except a case keep their
exception, no theorem adds one, and several hold of more than the code can do: any
number of processes, of requests, of writers.

Each of these modules ends a part with a theorem that states what a run checks:
`TurnsAreBounded`, `HistoryIsSound`, `SyncIsSafe`, `ChildrenAreLookedAfter`,
`RestartsStayLimited`, `RuntimesServeSoundSkills`, `MessagesAreWhole`, and one for each
property of the stores and services above.

Only model-checked: every liveness property (the promise of `KeepsContract` that a
turn ends, `Converges`, `SupervisionGoesOn`, `CatchesUp`, `NobodyWaitsForever`), since the
prover has no rules for fairness here; and the numeric part of Supervisor's `TypeOK`,
which is about the exponentiation of the backoff. Every other invariant that a run
checks has its theorem.
The induction theorems of the library cannot be used, but an induction over positions
can: a set of numbers that has 0 and with each its successor has no least number
missing (`LeastNumber`, `StepByStep`), and a family of sets that has the empty one and
with each set those of one element more has every finite set (`Gathers`). In this way
what a fold or a recursive function computes is established for the nights, the
scrubber, the chunks and the votes, one function at a time.

## 5. Departures of the code from its documentation

Four have a run, listed in `PROJECT.json` under "findings": a kill in the middle
of a tool is not flagged; runtimes register unverified skills; refused messages are
not answered; the watcher of the notes does not report an edit. Others were met
while modelling. The models include them or, as said, leave them out:

*Agent.*
- The calls of a grace reply are stored and never answered (`loop.py:347-348`), which
  is why `ReturnedTurnsAnswerCalls` excepts it.
- A denied call does not check the token (`loop.py:377`), so the loop may start one
  more tool after Ctrl+C than `interrupt.py:4-5` suggests.
- A turn ends with "[max iterations reached]" when a subagent took the grace call
  (`loop.py:224-226`, `budget.py:6-8`), and this answer may be cached for a day
  (`loop.py:398-401`).
- A scan by another process flags a turn in progress (`session.py:183`, `208`), and
  nothing clears the flag (`cli/main.py:138-140`).
- A turn that is answered from the cache stores no assistant row (`loop.py:199-205`)
  and looks like a crash to the scan.

*Sync.*
- Two writes of a key by one device within one tick of its clock are stamped alike,
  and which one stays depends on the order of the merge (`crdt.py:43`), where
  `crdt.py:12` promises a commutative one. The theorems assume `FineClock`.
- `sync()` returns on any inbound frame, the seed of its connection included
  (`relay.py:181-184`).
- A failing `on_update` ends the receive loop of a connection that stays open
  (`relay.py:167`).
- The mobile client posts to `/v1/sync`, which `http_api.py` does not serve.

*Supervisor and sidecar.*
- A signal between the spawn of a child and its assignment leaves the child running
  (`supervisor.py:187`, `316-317`); `OrphanOnlyFromSpawn` excepts it.
- `delay_for` takes the power before the minimum, which overflows after 1025 deaths
  (`supervisor.py:109`) and ends `run()`.
- The storm window is pruned when a restart is recorded only
  (`supervisor.py:194`): restarts from long ago may open the circuit.
- The PID file is read, then written (`server.py:64-78`): two sidecars that start at
  once both pass the "single-instance guarantee". A failed bind leaves the file
  overwritten. `mark_healthy` has no caller.

*Skills.*
- The unique index on content and status makes `update_status` raise for a content
  that was applied before (`workshop.py:288`, `43-44`): the skill is installed, its
  proposal stays pending. `reject()` does not look at the status.
- Between the write of a manifest and `mark_candidate` the new content is
  trusted; a writer that dies leaves an empty manifest, which fails every turn
  (`router.py:212`) and ends `Router.serve`.
- An A/B match whose variants have one name verifies it, then archives it; a winner
  that passed only some of the cases is verified (`ab.py:150-154`, `verify.py:8`).
  `scaffold --force` keeps a verified skill verified.

*Gateway.*
- `whatsapp.py` says that messages to oneself are dropped; the parser does not.
- Slack's `url_verification` and Discord's PING are answered 422.
- The cursor of the iMessage poller starts at 0 after a restart: old texts are
  answered again. Edited Telegram messages are new turns; no platform's
  redelivery is recognised.
- Two API requests of one user interleave in one session: its lock covers a commit.
  A request that timed out goes on, and its retry is a second turn.
- When `record_call` raises, neither spend is counted (`loop.py:296-313`); when the
  statistics cannot be read the day's spend is 0 (`budget.py:231-232`). The check
  within a turn ignores the task kind (`loop.py:229`). `_day_start` takes the
  timestamp of a naive UTC time (`budget.py:219-224`). The first two are modelled.
- `build_references` looks at `References` only and drops the thread of a mail that has
  `In-Reply-To` alone (`email.py:64-85`); a poll loses the mails it has parsed, and
  marked as seen, when a later fetch raises.
- The CLI wires no adapter's sender, store or poller but the iMessage poller. There is
  one `on_response` hook for all platforms, reply hooks ignore a failed post, and
  Discord's interaction callback is sent after the whole turn.

*Identities.*
- The first message of a user, racing an explicit link of the handle, overrides it;
  two first messages create two identities, of which one stays without links.
- A lookup in flight during a merge writes a session row of the identity that is
  gone; a link in flight behind a merge links to it.

*Vault, approvals, audit.*
- Of two processes that change the vault at once one loses its change
  (`vault.py:198`). `rotate_key` does not tell the keychain: after a restart the vault
  cannot be opened. Two first openings mint two keys.
- Two writers of the audit log put two entries behind one. A line half written by a
  process that died makes every later `append` and `verify` raise, so that no edit is named
  any more; behind one that lacks its end only, the next entry is lost the same way. Entries deleted at
  the end are not noticed. Gate, vault and log have no callers outside tests.

*Memory.*
- An update of a chunk keeps its old embedding and its edges; `merged_into` is never
  written; of two processes that merge into one chunk one loses its source; a
  summary is not redacted; old rows without `pii_tags` are never redacted.
- A backfill of the graph that is repeated after a failure, or that overlaps another
  one, stores edges twice, despite "Idempotent across runs". A delete leaves the
  relations.
- Version 1 of the migrations makes another schema than `MemoryTree` does. Of two
  runners one may fail with an IntegrityError. `idx_chunks_extracted_at` is made on
  legacy databases only.
- A synchronisation rewrites a note and so reverts what the user saved while its
  embedding was computed; an exported file and a note may share an id; a file that
  is removed, or whose frontmatter is malformed, ends the whole walk.

*Context.*
- Compaction strips the calls of an assistant row of which not all are answered, and
  leaves the results that there are as orphans; the tail used for want of another,
  `body[-3:]` (`compressor.py:133`), may begin with one. `ViewIsAccepted` excepts both.
- After an overflow in the middle of a stream the sink gets a second answer behind
  the first. An overflow at the summary itself ends the turn: only the answer's
  stream is inside the `try` (`loop.py:269-281`). Neither the first stream nor the
  summaries are charged.

*Routing.*
- `FailoverChain` starts again behind the chunks it has passed on, where it says
  "transparent to run_turn", and the statistics credit its first provider.
- `router_stats.py:3` says "Records every LLM call": only successes are
  (`loop.py:298-306`), as "tool" or "chat". Seeding a bandit twice counts twice. The
  statistics of tools miss unknown tools and count a cancelled call as a success.

*Curation, tools, dreams, council.*
- `enqueue` clears the event before it puts the session, so that `wait_idle` may return
  with a session queued; a stop that timed out leaves two workers; a store that
  fails twice ends the worker, which should "never kill the worker".
- A tool is registered before any case was run; promotion evaluates the registered
  tool and moves whatever file has its name; overlapping calls overwrite and unlink
  each other's files; nothing imports the tools in the auto directory after a restart.
- A dream repeated for a date replaces its entry as a whole, so that calls which
  fail lose what an earlier one had. Pairs are told apart by eight hex digits of a
  digest (`dataset.py:39-40`), and of two that share them the later is dropped. Two exports
  share one `.tmp`, despite "Writes atomically". The triggers known at a dream's start may be stale at its end. The
  window of `MetaCurator`, which nothing outside tests builds, is right as long as the
  clock does not go back.
- With a failed member the prompt of the rankings still asks for every label: a model
  that ranks what it was shown counts as incomplete. Failed members are asked too
  ("Only models with successful answers participate"). When no ranking is complete
  the first label wins, even without an answer ("returns the first successful
  answer"). A council of no models raises ("never raises"), and so does
  one whose synthesis model cannot be made (`manifest.py:117`), which ends without a verdict. An exception without a
  message counts as an answer. The result of `compute_confidence` is dropped, and the
  CLI runs a council dry only.

*Sessions, API, plugins, packs, MCP.*
- Two processes that add the same missing column: one fails with "duplicate column".
  The list a process holds misses the rows of the others, and keeps a row that the
  database refused (`session.py:419-442`): the turn goes on with what a restart will not find.
- The document of the API "never drifts", yet the 500 of `/v1/turn` and the 403 and 500
  of the ingest are not in it. Failed ingests are not counted; streams that time out
  or fail count as "ok"; a malformed Content-Length drops the connection; a ValueError
  or TimeoutError raised inside a turn is answered as 400 or 504.
- A load that fails half-way leaves the tools it had registered (only `sys.path` is
  rolled back, "so a bad plugin can't pollute"); a reload gets the module imported
  before; an unload by name takes the tools of a later load; the signature covers the
  manifest only. A directory that is on the path already is not moved to its front
  (`manifest.py:324-325`), so that a file of the same name of another plugin may be imported.
- The file of a pack is opened again between verification and extraction, and the digests
  are checked of the files its manifest names (`pack.py:189-196`): a pack whose manifest leaves
  out `SKILL.md` is installed unhashed, and its signature, which is of the manifest, says
  nothing of the skill.
- A request of an MCP server with the id of a pending call is taken for its answer;
  when the server exits, pending calls wait for their time-out. The reader ends with the
  server up (`mcp.py:260`) at the late answer of a cancelled call, at a line that is longer than
  its limit, not UTF-8 or no object, and at an error that is no object; every call behind
  it waits out its 30 seconds. `stop()` unregisters names another client may own.

*Skill records, profile, chunker.*
- A sweep that selected before an archive un-archives ("archive is sticky until
  revive"). An exact tie of an A/B match archives its second argument, so that the two
  orders archive both.
- One commit takes what another caller has staged, under its own author; the other
  one fails with "nothing to commit".
- The unique index refuses a second applied or rejected row after the bullet was
  written; the suggestion stays pending. The block is the replacement of
  a pattern (`profile.py:103`), whose escapes are done at every rendering once the file
  has a block: a bullet with a backslash before a letter that makes no escape
  with it raises in every later apply; one with `\n`, `\t` or a doubled backslash is changed
  without a word, and what is left of a doubled one may raise the next time. `\g<0>` would
  put the old block into the new one and is left out. `sera profile init` resets the
  managed blocks without `--force`, and with it drops the user's text
  (`main.py:189-190`). Of two appliers, or of an applier and an editor, one loses its
  change.
- `_update_path` keeps a sibling as parent when levels are skipped (`chunker.py:66-67`);
  chunks may exceed `max_tokens` (`chunker.py:3`, `186`); `start_line` lies behind the
  lines that are repeated.


## 6. What is left

- Gateway's turns as an implementation of `BoundedTurn`.
- Liveness of the stores and services: every session handed over is reviewed, every
  mail becomes an event. The code schedules them by threads and pollers that the
  models let stop.
- The ranking of memory search, over rationals in place of floats.

## 7. Not modelled

- *Text:* the regular expressions of redaction and of injection scores, TokenJuice,
  prompts and rendering. Where a property is about text, it is made of pieces
  (`StreamScrubber`, `Chunker`).
- *Cryptography:* a key or a digest is an identity. Federation is left out for this
  reason: it answers one signed request in one call, without state.
- *Real numbers:* embeddings, freshness, the ranking of hits, samples of the bandit.
- *I/O:* HTTP clients and model adapters, the sandbox, the hooks on screen and voice,
  installers, integrations.
- *Offline work:* evaluation, red team scores, telemetry, training.
- The desktop, mobile and browser front ends and the Rust crate.

The component list in `PROJECT.json` gives the reason for each.
