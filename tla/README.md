# TLA+ models of toolcase-gateway

TLA+ specifications of the gateway, the TLC configurations that model-check
them on small instances, and TLAPS proofs of theorems about them. Paths below
are relative to the repository root, so `src/lib.rs` is the crate's root
module; line numbers are those of the modelled commit. `PROJECT.json` maps every
definition to the lines it stands for.

## 1. The system

toolcase-gateway is one process. A listener thread accepts connections and gives
each to a worker thread; a clean-up thread runs beside them. All share one
`ConfigStore` (configuration, Jev account pool, module registry, admission
controller, storage), whose parts are each under a lock of their own. What must
outlive the process is in a SQLite database, in `gateway_config.json`, in one
JSON file per video job, image job and chat thread, and in one directory per
installed module.

| component | code | state it keeps | operations | what is hard | what makes it correct |
|---|---|---|---|---|---|
| Accept loop, admission | `lib.rs`, `runtime/admission.rs`, `http/mod.rs`, `routes/mod.rs` | two atomic counters; guards owned by workers | accept, admit/refuse, reserve bytes, grow, release | lock-free races, early returns half way through a body, slow clients | limits never passed, nothing leaked, nobody refused without cause, backlog served |
| Personal module lifecycle | `features/dashboard/modules/`, `gateway/installer/` | registry, upgrade slots, module directories | install, set state, upgrade, remove, rescan | four copies of the state, no lock across them, crashes, TTL of a slot | acknowledged changes durable, removal final, module data kept, upgrades exclude each other |
| Storage and migration | `storage/` | tables `modules`, `uninstalled_modules`, accounts, settings | save, set enabled, remove, import of legacy files | two statements per call, an import at every start | as above |
| Module registry | `modules/registry.rs`, `modules/validation.rs`, `modules/manifest.rs` | descriptors, manifests, uninstalled ids | register, upgrade, unregister, set status, match a path | read by every request, written by few, overlapping namespaces | enablement kept by upgrades, namespaces apart |
| Configuration and its file | `config/`, `features/dashboard/service.rs` | `Config` under a `RwLock`, `gateway_config.json` | update, save, load | image assembled under three locks, one temporary name, crash during a write | the file parses at all times, a saved setting is in force after a restart |
| Muse video jobs | `modules/builtins/museai/lifecycle.rs`, `museai/video/` | a record file per job, `job_update_lock` | create, revise, poll, edit the prompt, complete, clean up | locked and unlocked writers, retries with a key, time-outs, clean-up over the network | one prompt per key at a time, no record lost under a running prompt, no revision lost |
| Muse threads, clean-up worker | `museai/threads.rs`, `museai/threads/`, `museai/transport/threads.rs` | tracked threads in memory and in files, the flag of a cycle | register, sync, expire, purge the VM, delete | file and list changed one after the other, one cycle at a time, crash between file and deletion | a registered thread is not forgotten before its deletion is asked for; idle sessions are reclaimed |
| Muse images | `museai/image/` | a record file per job | reserve, update, find | as video jobs | as video jobs |
| Muse approval | `museai/approval/` | the decisions of one coordinator | list, evaluate, decide, verify | a list that is old when the decision is sent, others who decide | a stream passes only what the Sentinel granted |
| Muse chat | `museai/chat/` | the stream state of one request | post, subscribe, parse, wait for an artifact | a thread replayed from its first event, events that come late | the answer is the whole of its own turn and nothing else |
| Muse sessions, transport | `museai/session/`, `museai/transport.rs`, `noise.rs` | a cached session, a WebSocket | connect, send | key exchange, broken connections | |
| Jev accounts and fail-over | `modules/builtins/jev/`, `http_provider.rs` | account pool, round-robin index, exhaustion marks | next account, mark, clear, attempt targets | marks of concurrent requests, cool-down | exhausted accounts skipped while another can serve, attempts bounded |
| Proxy and candidates | `features/proxy/`, `gateway/candidates.rs`, `policy.rs`, `retry.rs`, `http/response.rs` | round-robin counter | plan candidates, attempt, judge, stream or rewrite | which failures retry, which answer, bodies that break off | all candidates tried before a refusal, never retried after the answer began, an ended answer is whole |
| Routing | `routes/`, `features/*/routes` | none | match, dispatch | overlapping paths, a descriptor copied before the module is asked | only modules enabled when matched serve |
| Module runtime | `modules/personal/`, `features/dashboard/modules/testing.rs` | child processes, three pipes and threads per call | call over stdio or HTTP, probe | full pipes, exits, time limits, descendants that keep a pipe | a call ends |
| MCP | `api/mcp/`, `features/mcp/` | `SSE_SESSIONS`, a bounded queue per session | open a stream, post, call a tool | a sender used after the map is unlocked, full queues, clients that leave | acknowledged replies arrive in order, no session without a reader, posts end |
| HAR import, logger, dashboard views, codecs, catalogue, stub video feature | the rest | files, none | parse, rotate, render | | |

**How they interact.** A worker calls `route_request`, which reads the request
under the admission controller's byte budget and dispatches to dashboard, MCP
and module routes; a path nobody owns triggers a rescan of the addons. A
dashboard request changes the registry under its write lock, then the database,
then calls `save_to_persistent_file`, which reads configuration, accounts and
registry under their own locks and replaces the JSON file. The proxy asks one
candidate after another, Muse among them. A chat drives the coordinator of
approvals from inside its stream and ends by registering its thread; a video
request reserves a record, calls the chat component (minutes of network), and
updates the record. The clean-up thread, and requests that ask for a cycle, list
threads and video records and delete the expired ones. A tool called over MCP is
a call of the module runtime, as is a request routed to a personal module.

## 2. Modules

| module | models | kind |
|---|---|---|
| `AdmissionLimits` | what admission promises: a house with `MaxConnections` places and a budget of bytes | abstract specification |
| `Admission` | the accept loop, both counters, guards, body reader, exits; the mapping to `AdmissionLimits` | component |
| `AdmissionProofs` | theorems about `Admission` | proofs |
| `ModuleLifecycle` | one personal module across registry, database, JSON file, directories and crashes | component |
| `ModuleProofs` | theorems about `ModuleLifecycle` | proofs |
| `ConfigCell` | what the configuration file is meant to be: an atomic cell | abstract specification |
| `ConfigPersist` | `save_to_persistent_file` and `write_atomic_0600` down to inodes, and the load at start | component |
| `ConfigProofs` | theorems about `ConfigPersist` with one saver, the refinement of `ConfigCell` among them | proofs |
| `VideoJobs` | record files of video jobs, their request threads and the clean-up | component |
| `MCVideoJobs` | the symmetry of an instance of `VideoJobs` | MC |
| `Failover` | the Jev account pool, the plan of candidates drawn from it, the attempts | component |
| `MCFailover` | the lists of an instance of `Failover` | MC |
| `Routing` | the registry of modules and the way of a request through the routes | component |
| `MCRouting` | manifests and requests of an instance of `Routing` | MC |
| `RoutingProofs` | theorems about `Routing` and `Failover` | proofs |
| `Proxy` | planning, attempts and answers of the proxy | component |
| `MCProxy` | names and configurations of an instance of `Proxy` | MC |
| `ProxyProofs` | theorems about `Proxy` | proofs |
| `ModuleRuntime` | one call of a module: process, descendants, pipes, threads, limits | component |
| `McpServer` | event streams, sessions and posts; extends `ModuleRuntime`, whose calls a posted tool call makes | composition |
| `McpProofs` | theorems about `McpServer` | proofs |
| `MuseThreads` | the registry of threads, its files, clean-up cycles and the VM | component |
| `ThreadProofs` | a theorem about `MuseThreads` | proofs |
| `MuseChat` | the turns of a thread, the stream parser and the coordinator of approvals | component |
| `MCMuseChat` | which prompts match in an instance of `MuseChat` | MC |
| `MuseProofs` | theorems about `MuseChat` and `VideoJobs` | proofs |

Operators whose comment begins with "Mutant:" are single wrong versions of the
operator after them. No specification uses them; putting one in place of the
right one makes a run fail, which shows that its property depends on that code.

### Admission

`active` and `inFlight` are `active_connections` and `in_flight_bytes` of
`AdmissionController`; `listener` is the accept loop's position with the value
its compare-exchange expects; `pc`, `seen`, `want`, `held`, `chunked` and `reply`
are the locals of each worker (`held` is `ByteGuard.amount`). One step is one
access to a shared atomic with the thread-local work after it, so each of the
two compare-exchange loops is a load step followed by attempts
(`AdmitLoad`/`AdmitCas`, `ReserveLoad`/`ReserveCas`); a failed attempt goes on
with the value it read. A guard's drop is a step of its own, `fetch_sub` wraps
modulo 2^w. Parsing a head is abstracted to its outcomes (sized, chunked,
malformed, broken off); the buffer of the chunked reader is modelled by its
length, because the limit is compared with it. Relaxed ordering has no effect on
the values of a single atomic, and nothing else is published through these two.

### ModuleLifecycle

`reg` and `uninstalled` are the registry's, `row` and `tombstone` the two tables',
`file` what the JSON file says of the module, `dir` the directories it can be in,
`litter` the staging and backup directories left over, which scans read like any
other. `task[h]` holds the locals of a handler (the manifest, the image it read
to save, its staging and backup directory). A step is what happens under one
lock or in one call that changes the file system; crashes fall between any two
steps and between the two statements of one database call. `Unregistrable` are
the versions whose manifest `register_personal_module` refuses though the
installer has accepted and written it (an unsupported protocol, a stdio
entrypoint that is not absolute, a local-http endpoint that is not loopback);
with `NamespaceCollides` it refuses any. An install that is refused
(`InstallUnregistered`) deletes the module's directories, its data with them
(`features/dashboard/modules/mod.rs:147`). `expect`, `removed` and `saved` are
ghosts: what was acknowledged last, that a removal was, and that the module has
data which no removal and no refused install has deleted since.

Bounds: `MaxOps` requests, `MaxCrashes` crashes. Three requests by two handlers
are the shortest run in which an upgrade outlives its slot and another takes it;
three requests and two crashes by one handler, with three versions one of which
the registry refuses, cover install, upgrade and remove in every order, a
refusal before or after them, and a crash during and after each.

### ConfigPersist

Two names (`tmp`, `file`) lead to inodes; an open file keeps its inode through
a rename. `ReadPart` reads settings, accounts and registry one lock at a time;
`OpenTmp`, `WriteTmp` and `Rename` are `std::fs::write` and `rename`. A start
that cannot parse the file takes the environment's values (`Restored`). A setting
that is off is stored as absent and returns as the default (`Stored`), which the
abstract cell states too.

The abstract cell is implemented, and proved to be, by one saver at a time; with
two, `ConfigTorn.cfg` shows a file that does not parse.

### VideoJobs

`files` are the record files, `lock` is `job_update_lock`, `req` the request
threads with the copy they loaded. A locked update is a load and a save; the
unlocked write-back of a stale record by a poll (`LateSave`) falls anywhere
between. Ids, keys and statuses are small sets; prompts and URLs are left out.
The id of a new job is any: the gateway's own, or what the client sent
(`museai/video/request.rs:281-287`), which may be in use or have been. A clean-up
cycle has one of `Limits`: the configured retention, or the limit that a
`POST /muse-ai/v1/threads/cleanup` asks for, down to none at all
(`museai/handlers.rs:133-159`). Time is counted in ticks that pass only while a
thread waits for the network.

`used`, `twice` and `reaped` are history: the keys an id was reserved with, the
ids reserved more than once, and those whose record a cycle with a limit of at
most `RunLimit` deleted while the job was being created. They name the two ways
in which a retry can send a second prompt, and `SingleFlight` and
`RecordOutlivesPrompt` except these and nothing else. The second is real: a poll
marks a running submission unknown, the requested cycle deletes the record, and
the key is free (`VideoReaped.cfg`).

### Failover

State: `pool`, a `JevAccountPool` per owner: the shared one of the configuration
store, and one for each request that finds it empty and brings keys of its own
(`handle_jev_ai`). A pool has its accounts, its marks (`exhausted_accounts`, a
mark being cooling or, once its expiry is past, lapsed) and four counters, kept
modulo `Lap`, a multiple of every list's length: `rotation % len` is the same.
A request plans in the steps at which the code takes its locks: `Begin` prunes
lapsed marks, `SplitDirect` splits the direct accounts under one read of the
map, `TakeOr` takes the OpenRouter list, `Classify` reads the mark of one of its
accounts at a time, `Assemble` draws the remaining turns and builds the tiers,
`Inject` puts a key of the request itself in front. `Attempt` is one pass of
`execute_http_failover_with_callback` with the callback that marks and clears.
`Catalog`, `AddAccount`, `AddOr` and `Lapse` run beside them. Added accounts
never leave the pool, as in the code. In the model marks may lapse in any order;
in the code they do so in the order of their last 402, which is among those.

`owed`, `steady` and `led` are history: what a request must still try, which
accounts kept their mark or its absence since the plan began, and how often
each account went first for one list. Bounds: two requests (a catalogue request
counts) are enough for one to plan from what the other marked, for both to plan
while the other attempts, and for turns to come round to two accounts; the
number of fallback models matters to no property, so there is one.

Three things the model shows and the properties therefore do not claim. A mark
may go before its cool-down is over: a 200 clears it, also one that answers an
attempt older than the 402, or a fallback model asked with the key whose
configured model was refused. The order of the fallback models moves with every
plan that has a healthy key, and twice with an inbound key, not only when
Step 3 is reached. And when the body of an accepted reply cannot be read the
client is sent a 502 while the handler reports the accepted status, with other
accounts unasked.

### Routing

`reg` is the registry's map, `uninstalled` its set; `conn[c]` is where a
connection stands in `route_request`, with the copy of the descriptor that
`match_module_route` returns. `SystemRoute`, `MuseRoute`, `JevRoute` and
`OmniRoute` are the dispatchers in the order of the code, as functions from a
request to who answers, or with which refusal. A path is the sequence of its
segments, so a path prefix is `IsPrefix`. Registrations, upgrades, removals and
changes of status happen under the write lock at any moment; a rescan holds it
from `RescanBegins` to `RescanEnds` and registers one module at a time. `lived`
is history: what was enabled at some moment since the request arrived.

The model shows, and claims nothing about, that a namespace such as
`/tiktok-config` or below `/modules` is accepted although the dashboard answers
its pages first. `set_sub_provider_status` is called by nobody and left out.

### Proxy

`counter` is `RR_COUNTER`; `req[r]` has the plan and the candidate being asked,
`source[r]` what the upstream of the current attempt sends, `wire[r]` what the
client has been written. `PlanOf` is the planning of `gateway/candidates.rs` and
`policy.rs` as a pure operator: rotation, normalisation with effort suffixes,
repetitions dropped, and the model one of the four routing modes puts in front.
`RefusedAfterAll` compares what it yields with the configuration. Bodies are
counted in pieces, with their framing, the break of a connection at any piece,
the tail held back so that a tool name can be repaired, and both size limits.
Retry delays are left out (they sleep, and decide nothing).

Seen while modelling, and part of the model: a body with a Content-Length that is
cut short by an orderly close is passed on as complete (`http/response.rs:76`;
`EndMeansWhole` is about chunked bodies); an informational status is taken for a
final answer; `gpt-4o-mini` is recognised as `gpt-4o`, the look-up comparing
prefixes; every known model supports tools, so the first branch of the shadow
decision is never taken; `muse-high` is not the built-in Muse and goes upstream.
The tail of `features/proxy/service.rs` (234-249) is unreachable, since the last
candidate always returns.

### ModuleRuntime and McpServer

`call[h]` is a call: its caller, the child, a process the child may leave behind
(`heir`), and which of the three threads run. The caller kills the child and, except after a
probe or its time limit, joins the threads, each of which ends when its pipe has lost its other end.
Full pipes are `InputTaken`, `OutputRead` and `ErrorsFull` never happening.
`McpServer` extends the module: a connection serves a post, whose tool call is a
call of the runtime, or drives the runtime directly as a routed request or probe.
`registered` is `SSE_SESSIONS`; `stream[s]` the thread of an event stream with
its queue; `post[p].holds` says the thread has a copy of the sender, taken under
the lock and used after it. `accepted` is history.

### MuseThreads

`disk` and `memory` are the two halves of the registry, `running` the flag of
`cleanup_cycle_with_config`, `cleaner[c]` a cycle or the deletion endpoint,
`chat` a chat that will register or dismiss its thread, `upstream` the sessions
of the VM. A time stamp is its age in ticks, up to `Retention`. Each change of
the file, each change of the list, and each call of the VM is a step; a crash
falls between any two. `owed` is history: registered and not yet asked to be
deleted; `lost` is what a crash cut out because the cycle removes the file before
it asks (`museai/threads.rs:92`), which is why `NoneForgotten` makes this one
exception and `Reclaimed` needs the purge of the VM.

One chat at a time. A record reloaded from disk has `Config::default()`, thus no
credentials, and its deletion may fail more often: `Asks` allows failure always.
A chat that fails after the thread was made leaves it untracked, and the purge
deletes sessions made in the browser too; both are in the model. `spawn_muse_thread`
is called by nobody.

### MuseChat

`history` is what the VM recorded of the thread, `serving` the turn it is at,
`sentinel` the status of each approval, `chat` the request with the state of
`MuseChatStream` and of its coordinator. `Receive` takes the next event or any
that came before: a subscription replays the thread, and a late delivery is
again one of these. `UserMessage`, `Applicable`, `Content` and `Snapshot` are the
parser's handlers; `List`, `Decide`, `Verify` the coordinator's three requests,
between which others decide (`DecidedElsewhere`) and the mode is switched off
(`RollBack`). A text is the set of turns it was taken from. `Alike` are turns
whose prompts match in `matches_user_prompt`.

Assumed of the VM: turns are taken one after the other. The model shows two more
things it claims nothing about: the wait for an artifact begins with an empty
list of approved ids, so a snapshot that still has one fails the finished chat;
and a snapshot with an approved and a new id is refused, as it has two.

## 3. Runs

| run | instance | shows |
|---|---|---|
| `admission` | 3 clients, 2 connections, 5 bytes of budget, request limit 4 | limits, exact counts, rejections hold nothing, served bodies bounded, backlog served, exits release, refinement of `AdmissionLimits` |
| `modules_sequential` | 1 handler, 3 versions of which the registry refuses 1, 3 requests, 2 crashes | durable acknowledgements, final removals, data kept until a removal or a refused install |
| `modules_concurrent` | 2 handlers, 2 versions of which the registry refuses 1, collisions, failing statements, 3 requests | upgrade exclusion, no orphaned slot, only installs bring a module back, upgrades keep enablement |
| `config_persist` | 1 saver, 4 updates, 3 crashes | file always parses, saved settings in force, refinement of `ConfigCell` |
| `failover` | 2 threads, 2 direct accounts, 1 OpenRouter key, 1 browser session, 1 fallback model, 2 requests | no account left unasked before a refusal, marked accounts last, even turns |
| `video_jobs` | 2 threads, 2 jobs, 1 key, 4 requests of all kinds, cycles with limits of 0, 2 (the longest run) and 3 ticks, 4 ticks of clock, 1 crash | one prompt per key and the record outlives its prompt, up to the exceptions above; revisions kept |
| `routing` | 1 connection, 15 requests, 10 manifests of 5 modules, 3 changes and a rescan | namespaces apart, no disabled module or provider reached |
| `mcp` | 2 posts, one of which may call a module, 1 session with a queue of 1 | replies in order, no session without a reader, posts and calls end |
| `proxy` | 1 request, 4 names, 6 configurations, 4 turns, bodies of up to 3 pieces against limits of 2 | refused only after all, committed once, ended means whole |
| `muse_threads` | 2 sessions (one primary), worker and one request, retention 2, 1 crash | no thread forgotten, sessions reclaimed |
| `threads_active` | as `muse_threads`, no crash | **violation**: a thread in the middle of a chat is deleted, by its creation time |
| `muse_chat` | 3 approvals, 2 turns, 5 events, 1 decision per job | the answer is of this turn, only granted approvals are passed |

Why the bounds are enough: the races of admission need two contenders for each
limit and a third client to be refused; the budget of five against bodies of
two and chunks of one or two makes requests fit exactly, by one too many, and
after a retry. Upgrade slots need an owner, a usurper and the owner's late
drop. A crash is interesting between two writes of one request, and once more
during the recovery's next request, hence two. Two record files and one key
let a retry meet the record of another id; the clock is long enough for a record
to become stale and, separately, to expire by the longest limit. Limits below,
at and above the longest run are all there. Threads are alike, and so are jobs:
`MCVideoJobs` lets TLC permute them, no liveness being checked.
Routing: a request copies one descriptor, and disabling, upgrading and removing
its module in turn are three changes; each manifest breaks another rule of the
validation, and two modules have a nested and a disjoint pair of namespaces.
MCP: a queue of one overflows with the second post, and a session has one reader.
Proxy: lists of up to three models and four turns rotate past their end; a body
one piece longer than the limits meets each of them.
Threads: one thread is enough for file, list, cycles and VM to disagree about it;
the races are between cleaners and the chat. Chat: two turns give a replay something
to confuse, five events are a prompt and an end of each turn and one more; two
scoped approvals, one of them not eligible, and one of another thread.

`CHECK_DEADLOCK FALSE` stands where the bounded number of requests lets the
system come to rest; `admission`, `routing`, `muse_threads` and `threads_active`
check deadlock.

**Fairness.** The listener and a worker's exits are scheduled by the operating
system and wait for nobody (the drain of a rejected client ends after 64 KB or a
50 ms read timeout), hence weak fairness; the kernel's accept queue is first in,
first out, hence strong fairness of `Accept` per client. The
clean-up worker starts a cycle at every interval and a cycle waits for the
network with a limit (weak fairness of `Tick`, `BeginCycle(Worker)` and
`CycleStep`); that the VM can be reached and deletes a session every so often is
an assumption about the VM (strong fairness of `PurgeLists` and `PurgeDeletes`),
without which no gateway could keep the promise. In `McpServer` the threads of
streams, posts and calls run, the 15 s timer of a stream and the caller's 30 s
limit expire, and a thread notices that its pipe was closed; nothing makes a
module's processes move. Nothing is assumed of clients, of handlers, of who wins
a contended exchange, nor that a poll ever happens.

### Counterexamples kept beside the runs

These configurations are not among the runs: each checks one property the code
does not have, and TLC answers with a behaviour. They say where a property above
has its exception, and are there for whoever changes that code.

| configuration (module) | property | what the code does, and what says otherwise |
|---|---|---|
| `AdmissionChunked.cfg` (`Admission`) | `RefusedOnlyForPayload` | a chunked body within `MAX_REQUEST_BYTES` is refused with 413, because the limit is compared with the raw buffer; `docs/CONFIGURATION.md:187`: "Maximum allowed byte length for HTTP request body payloads" |
| `ModulesResurrected.cfg` (`ModuleLifecycle`) | `RemovalIsPermanent` | a scan stores what it found after it dropped the lock, and undoes a removal in the table; `docs/MODULES.md:61`: "permanently removed from disk" |
| `ModulesSwapCrash.cfg` (`ModuleLifecycle`) | `UserDataReachable` | a crash between the two renames of the swap leaves the module's data in a backup no start looks for; `gateway/installer/upgrade.rs:15-16`: "atomic filesystem replacement with automated rollback" |
| `ModulesRefused.cfg` (`ModuleLifecycle`) | `InstallsSpareData` | a module found in `addons` by a rescan is running and has data; an install from source under its id passes the installer, is refused by the registry, and the handler deletes the directories of the module that was there (`features/dashboard/modules/mod.rs:144-148`); no document speaks of it |
| `ConfigTorn.cfg` (`ConfigPersist`) | `FileParses` | two savers share one temporary name: one renames what the other has truncated; `docs/CONFIGURATION.md:175` |
| `VideoCleanup.cfg` (`VideoJobs`) | `CleanupSparesActive` | the clean-up deletes a record that was made active, or reserved anew, since it was listed; `museai/lifecycle.rs:239`: "Respect active/pending/in-flight states" |
| `VideoReaped.cfg` (`VideoJobs`) | `NeverTwoPrompts` | a cycle requested with a short limit deletes the record of a running prompt that a poll has marked unknown, and a retry with its key sends a second prompt; `museai/lifecycle.rs:239`, and `docs/SECURITY_MODEL.md:169` |
| `VideoDuplicate.cfg` (`VideoJobs`) | `NoDuplicatePrompt` | a revision ignores the submission key it carries; `docs/SECURITY_MODEL.md:169` |
| `RoutingAlias.cfg` (`MCRouting`) | `OneOwner` | a namespace may equal a fixed path of another module, and the hash map decides who answers; `docs/superpowers/specs/2026-10-28-platform-gateway-modules-design.md:32-34` |
| `ModuleHang.cfg` (`ModuleRuntime`) | `CallsEnd` | after a line came the caller joins threads that wait for a pipe a descendant holds, without a limit; `features/dashboard/modules/testing.rs:298`: "Do not join: a grandchild process can keep the stderr pipe open after `kill()`." |
| `ChatStale.cfg` (`MCMuseChat`) | `AnswersThisTurn` | with two prompts alike, the replayed answer of the first completes the second; `docs/muse-chat.md:14` |
| `ChatBudget.cfg` (`MCMuseChat`) | `DecisionsWithinJob` | the wait for an artifact has a coordinator of its own, whose count begins at zero; `docs/CONFIGURATION.md:85` |
| `ChatRollBack.cfg` (`MCMuseChat`) | `RollBackStops` | a request keeps the mode it began with; `docs/SECURITY_MODEL.md:171-175` |

Other places where a document and the code differ, met while reading and not worth
a run: `SYSTEM_DESIGN.md` (5.1, item 3) counts 400 among the statuses that fall
back; `docs/SECURITY_MODEL.md:72-74` says 256 MB where the code and
`CONFIGURATION.md` say 64 MB; `museai/threads.rs` speaks of threads "older than 2
hours" where the retention is configured; a dashboard request of the wrong type
is answered with 415 and logged as 403.

## 4. Theorems

All proofs are for every value of the constants that satisfies the named
assumption of the module. Some theorems have hypotheses beyond it; the table says
what each one is, and what TLC finds without it. They are the conditions of use
under which the code keeps the property, not conveniences of the proof. Where a
property has its exception in its own statement (`UserDataSafe` through `saved`,
`SingleFlight` and `RecordOutlivesPrompt` through `twice` and `reaped`), the
theorem has no hypothesis about it, and a counterexample configuration above
shows that the exception occurs.

| theorem | hypothesis | without it |
|---|---|---|
| `AcksSurvive`, `RemovedStaysRemoved` | one handler | `ModulesResurrected.cfg`: a scan stores what it found after it dropped the lock |
| | `~DbMayFail` | a statement that fails is only logged and the request acknowledged: TLC violates both properties under `MCModulesSequential.cfg` with `DbMayFail = TRUE` |
| `DataIsSafe` | one handler | an install between the two halves of a removal (`unregister_personal_module`, then the deletion of the directories) loses its new directory: TLC violates `UserDataSafe` with two handlers, three requests and no crash |
| `AnswersOwnTurn` | `PromptsApart`: no two prompts of the thread match | `ChatStale.cfg` |
| `TurnsAreEven` | `NoneTwice`: no account is configured twice | `new_with_all` keeps repetitions, and an account listed twice is asked twice as often |
| | `RotationsClose`: lengths divide `Lap` | none in the code: only then is a counter modulo `Lap` the same rotation as the counter itself |
| `ParsesAlways`, `AckedStays`, `SavesAreAtomic` | one saver | `ConfigTorn.cfg` |

**`AdmissionProofs`** (from `ParametersAssumption`): `CountIsExact`, `LimitsHold`, `RejectionsAreFree`, `ServedBodiesAreBounded`. The limits are not
inductive: that a compare-exchange keeps the byte counter within its budget says
nothing of the guards that will be subtracted from it. `IInv` adds that the
connection counter is the number of workers that own a guard
(`ConnectionsCounted`), that the byte counter is the sum of what the workers hold
(`BytesPartitioned`, stated with a witness of partial sums, so that a step that
changes one guard changes the sum by as much), that the listener's pending compare-exchange can only
write a value below the limit (`ListenerCoherent`), likewise each worker's
(`ExchangesWithinBudget`), and that only a worker reading or serving a body holds
bytes (`HeldOnlyForBody`). There is one lemma per action. That no
`fetch_sub` wraps is said by `CountIsExact` and `BudgetIsExact`: the counters
equal sums of what is held, and a wrapped one would not (it would still be of
its type, so that the type invariant says nothing of it).

`BudgetIsExact` is the same of the sum as `BytesCounted` writes it, with
`SumFunction`. `SumOfParts` equates the two: were they different for some set of
guards, take a smallest one, and remove an element of it. `LimitsAreAtomic`
(`ImplementsLimits`) is the refinement of `AdmissionLimits`, whose `standing` and
`asking` are read off the labels of the workers: the steps on an atomic that
succeed, or that give up, map to the one step of the abstract house, at a moment
when its guard holds because the counters are exact; everything else is a stutter.
It needs that the listener has one client at a time (`OneAccepted`).

**`ModuleProofs`** (from `LifecycleAssumption`): `UpgradesExclude`, `SlotsNotOrphaned`, and the action properties
`ReturnsOnlyByInstall` and `UpgradesKeepEnablement`, for any number of handlers,
versions, requests and crashes, whichever registrations are refused and whichever
statements fail. `IInv` adds to the type invariant that a request's label tells its
kind until the steps all requests share (`LabelsMatch`), that an upgrade about to
copy data has found a directory (without it `UpgradePreserve` would read outside
`dir`), and that a slot past its TTL belongs to an upgrade that knows to have
overrun it (`StaleOverrun`). The argument for exclusion: `UpgradeAcquire` is the
only step into the slot, and finds it free or stale; in the second case its
owner has overrun. `GuardDrop` frees nobody else's slot. Five lemmas (`MoveKeeps`,
`EndKeeps`, `StillKeeps`, `GotoKeeps`, `RefusalKeeps`) say this once for each shape
of step; each action is one of these shapes. For the action properties,
`RegistryChanges` and `RowChanges` list the steps that write the registry and the
table, and `UpgradeOnly` says which of them cannot belong to an upgrade.

Three theorems are about requests served one at a time, with crashes anywhere.
`AcksSurvive` and `RemovedStaysRemoved` rest on `SeqInv`: at each label, which of
registry, row, tombstone and file already agree (`Aligned`), and that nothing has
been acknowledged that the table does not have (`Settled`). The import at a start
is the delicate step: an acknowledged removal has cleared the JSON file and set
the tombstone, so that no start brings the row back, and after an import a module
without a row is not in the file either. `DataIsSafe` rests on `DataInv`: between the two renames of a swap the data is in both the staging directory and the backup,
before and after them in the module's own (or in a leftover of an upgrade cut
short, which scans find), and only a directory that has a version holds any. A
refused install takes the data and the promise of it in one step; what has to be
shown is that it does so in no step of an upgrade, and that data written after it
is safe again, also while leftovers are about. The theorem does not assume that
installs are accepted.

**`RoutingProofs`**: `NamespacesStayApart`. The invariant is inductive by itself:
a namespace is checked against all others under the write lock under which it is
written, and every other writer of a descriptor keeps its namespace. The relation
`Overlap` is symmetric, which is what makes it enough to check the newcomer;
testing one direction only would do for the newcomer and not for the others.
`RoutesFailClosed` (from `RoutingAssumption`) needs more, since a connection
answers from a copy and the registry moves on meanwhile. `IInv` says that all
that is enabled now was enabled since each waiting connection arrived (its `lived`
is never behind), that what a connection copied at the match owns the path and is
in `lived` where it is enabled (`Copied`), that the write lock is held by
a request in its rescan and by nobody else (`Scanning`), and that providers are
numbered (`Listed`). "The first match wins" is a choice of a least number, which
exists by well-foundedness of `<` on the naturals (`BelowWellFounded`, `Least`).

The same module proves `FailoverIsTyped`, `EveryAccountIsTried` and `MarkedGoLast`
of `Failover` (from `FailoverAssumption`). `FailoverInv` is a type invariant and, for
each thread, three facts. `Proper`: the label fits the locals. `Covered`: whoever a request owes an
attempt is, at each stage of the planning, in one of the lists the stage goes on with (the pool,
the locals, the plan), and after it in the part of the plan still ahead; so at a
refusal, where nothing is ahead, nothing is owed. `Divided`: an account that kept
its mark since the planning began is in no list of unmarked ones, and the other
way round; other threads may mark and clear between any two steps, and then the
account is not `steady` any more and nothing is claimed of it. `AmongGrows` and
`Gathered` say what the folds over the pool's lists keep. `TurnsAreEven` needs `EvenInv`: at every moment the accounts that went
first in the last *k* turns, for some *k* below the length of the list, have gone
first once more than the others (`Even`). "At most one apart", the property
itself, is not inductive: it does not say whose turn comes next.

**`ProxyProofs`** (from `ProxyAssumption`): `EndedIsWhole` and `CommitsOnce`. `IInv`
adds that nothing is written before the answer begins (`Unwritten`), that what was
read of a stream is written or held (`Streamed`), and that an attempt begins
without a source (`Unread`); from `Streamed` follows wholeness at the end, from
`Unwritten` that the states with a head written are just "stream" and "done",
which ask nobody. `RefusesAfterAll` adds `Planned`: what a request has asked is
its plan up to the index it is at (`Walk`), and who answered fits what was asked
(`Written`). What remains is a statement about `PlanOf` alone: the plan has
each configured fallback, and the model the client would have had, exactly once
(`PlanComplete`). Plans are built by folds; the provers have no induction, so
`FoldIs` unfolds `FoldLeft` into the lists it passes through and
`FirstFailure` takes the first index at which a property of them would fail.
`RotationHasAll` finds the index at which a rotated list has a given entry.

**`MuseProofs`** (from `ChatAssumption` and `VideoAssumption`). About `MuseChat`:
`PassesGrantedOnly`, where `IInv` adds that the approval at hand is one of the
thread (`AtScoped`). An id enters the list of approved ones in `Verify` only, and a
granted approval stays granted, whoever else decides. `AnswersOwnTurn`, with
`TurnInv`: events are recorded turn by turn and none of a turn to come
(`InTurns`); a stream takes part only in the first turn or past a prompt of its
own turn, what it has taken is of that turn, and a completed one has met the end
of that turn (`Reads`); and which labels can have a completed stream (`Staged`). The prompt
the stream waits for is the only one that matches, so nothing replayed before it
makes the stream active.

About `VideoJobs`: `PromptsFlyAlone`, `RecordsOutlivePrompts` and
`RevisionsAreKept`, for any ids and any limits, with `VideoInv`. Of an id that was
reserved twice or reaped (`Spoiled`), and of a key such an id was reserved with
(`Disturbed`), nothing is claimed. A create request that is upstream, or whose
outcome is being recorded, under any other id has a record with its key that has
not failed and that is active since the request began, and the request has run
no longer than `RunLimit`; hence a cycle with a longer limit does not list it, a
poll's late write-back has the same key, and no other create works for it
(`Owned`, `Fits`). A cycle may have listed the id earlier only with a limit of at most
`RunLimit`, and its deletion then makes the id a reaped one. Under an undisturbed
key there is one such request or one failed record, never both, nor a second of
either; a reservation that begins under the key takes the failed one away
(`OnePerKey`), which belongs to nobody (`OldIsDone`). A copy loaded under the
lock has at least the revisions of the file (`RevisionsCounted`). `Keeps(j)` then says
of each action what it does to the revisions of one file.

**`McpProofs`** (from `McpAssumption`): `RepliesInOrder` and `NoneLeftBehind`. `IInv`
says that what a stream was written is a prefix of what was acknowledged, and that
while its client reads the queue holds the rest (`Delivering`); that a post about
to send holds a sender of a session (`SendersHeld`); and that the loop of a stream
ends under a reading client only when it is unregistered, empty, and nobody holds
a sender (`Quiet`). The last is why a queue that overflows, and so loses its
session, still delivers what was accepted.

**`ThreadProofs`** (from `ThreadsAssumption`): `NothingForgotten`. `IInv` is stronger
than the property: a registered living thread keeps its *file*, or somebody is
between removing it and asking the VM (`Filed`); the list in memory does not
matter. It needs that whoever unregisters without asking has seen the session
deleted (`Proper`), and that a chat which dismisses its thread does not owe it
(`Chatting`). Two lemmas, `CleanerMoves` for steps of a cleaner
and `OthersMove` for all others, say what a step has to keep; each action is an
instance of one of them.

**`ConfigProofs`** (from `PersistAssumption` and one saver, `Savers = {s}`):
`ParsesAlways`, `AckedStays`, and `SavesAreAtomic`, the refinement of `ConfigCell`
by the mapping stated in `ConfigPersist`. `IInv`: the file is complete and not the one
being written (`FileWhole`), the image read so far equals memory (`ImageRead`), the
temporary file is the saver's (`TmpWritten`), nothing runs while the gateway is
down, and what was acknowledged is stored (`AckedStored`). The rename is the step
that saves; all others are stutters or the cell's own. One saver is a hypothesis
of the theorems because the code does not ensure it: see `ConfigTorn.cfg`.

Every invariant and every action property of the passing runs is stated by one
of these theorems, as are both refinements. **Only model-checked** is liveness
(`BacklogServed`, `ExitsRelease`, `Reclaimed`, `PostsEnd`), which
TLAPS cannot prove under fairness. `ActiveThreadsKept` is false of the code, and is
TLC's.

The instances of the runs satisfy the hypotheses of the theorems about their
properties, so for these the two agree.

## 5. Not modelled

- **Muse image jobs**: records under one lock with a submission key, a simpler
  relative of `VideoJobs` without revisions, expiry or clean-up. One thing a
  reader should know: the result of `reserve_image_job` is heeded only when the
  job it finds is completed (`museai/image/service.rs:187-191`); a retry with a key
  in flight sends the prompt again, under an id that has no record.
- **Muse sessions and transport**: key exchange, framing and credentials. Their
  failures are the outcomes `Breaks` of `MuseChat` and `PurgeSkipped` of
  `MuseThreads`.
- **Ingest and build of modules**: unpacking and compilers; outcomes in
  `ModuleLifecycle`.
- **HAR import, logger, codecs, catalogue, stub video feature, media**: parsing,
  formatting, rendering and plain output, without state another component reads.
- **Dashboard views and accounts**: reads of the state of other components; the
  accounts and settings tables.

In the modelled components: text of answers, logging, menu positions and
configuration of modules, sub-provider status, media files, retry delays, socket
time-outs of the listener, concurrent chats on one thread. `PROJECT.json` gives
the status of every component.

## 6. Plan

Done: admission, module lifecycle, configuration persistence, video jobs, Jev
fail-over, routing, the proxy, Muse threads, chat and approvals, the module
runtime and MCP; and, for all of them, a theorem for every safety property a run
checks.

What is left, in this order:

1. Proofs of refinement: an ordered channel that loses only its end, as what an
   event stream promises, implemented by `McpServer`; a record store with one
   submission per key, implemented by `VideoJobs`.
2. Image jobs, against the same store.
3. Two chats on one thread, with `MuseThreads` and `MuseChat` composed at `Retain`.
4. Log rotation against concurrent writers.
