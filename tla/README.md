# Formal models of Bailey's agent runtime

TLA+ models, TLC runs and TLAPS proofs for the parts of this repository whose
correctness depends on the order of things: the App Server that runs agent turns
for the desktop, the conversation it keeps on disk, the transcript of its agent
engine, its background jobs, the session directory that all Bailey processes
share, the routers that find out which protocol an upstream speaks, and the
desktop's native side, which starts and stops the App Server and records its runs.

All paths below are relative to the repository; `src/app_server/…` is the Rust
crate's source.

## 1. The system

| component | state | operations | interacts with |
| --- | --- | --- | --- |
| App Server loop (`app_server/mod.rs`) | loaded threads, id counter, outbound queue, pending interactions | `thread/start, resume, flush, delete, close`, `turn/start, cancel`, client responses, `shutdown`, end of input; one frame at a time | spawns turn tasks; calls the session store; writes to stdout |
| Turn task (`app_server/session.rs`, `ui.rs`) | `active` slot, `terminal` flag, engine mutex, conversation | route, engine, questions to the client, two saves, terminal event | aborted by the loop; blocks on client responses that only the loop reads |
| Conversation (`session.rs`, `services/atomic_write.rs`) | display history, exact transcript blob, both in one session file | persisted on `turn/start`, on completion, on cancel, on flush; restored by resume | the engine's transcript, the session store |
| Agent engine (`agent/engine.rs`, `compaction.rs`) | `messages`, `/rewind` checkpoints, plan, notes | `run_turn` loop, tools, compaction, overflow recovery, repair, restore, rewind | model through the serve router and its bridges |
| Session store (`services/code_session_store.rs`) | session files, `index.json`, `sessions.lock`, leases | save with eviction, delete, key removal, list, rebuild | every App Server, the terminal UI, one-shot commands, key commands |
| Usage statistics, config store | files behind a blocking `flock` | `record_selection`, `record_tokens` | turn tasks, router connection tasks |
| Background jobs (`agent/jobs.rs`) | job table: status, `notified`; one shell per job | spawn, check, kill, notices at a step's start, reaper, `kill_all` at exit | shared by an engine and its sub-agents; signals to process groups |
| Serve router, gemini and claude routers (`services/*_router.rs`, `protocol_fallback.rs`, `route_cache.rs`) | a slot per model: route, proven flag, failure streak; the native probe | cascade over candidate routes, learning, reset, storing the route with the key | a task per connection, which may outlive its turn; the next launch is seeded by the stored route |
| Desktop sidecar (`desktop/src-tauri/src/sidecar.rs`) | the child behind a mutex, one event task per generation | start, stop, kill by process id, confirmations with timeouts | the page's commands; the App Server's stdin and stdout |
| Record relay (`desktop/src-tauri/src/cloud_records.rs`) | bounded queue, active runs, cancel flag | observe a line, create, annotate, close, flush | fed by the sidecar's event task; Bailey Cloud |
| Desktop page (`desktop/src/App.tsx`, `bridge/appServer.ts`) | account state, one client per login | login, connect, logout, expiry, dispose | the two above; the credential entry of the OS |
| Cloud run records (`app_server/cloud_records.rs`) | bounded queue, degraded flag | create, append, finish or interrupt a remote run | fed by the turn task, unless the desktop disables it |
| Terminal UI, CLI, providers, plugins, sharing, OAuth | various | various | session store and routers |

What makes it hard:

* The process has one thread (`main.rs` builds a current-thread runtime).
  Tasks interleave at awaits only, but file writes run on blocking threads, and
  other processes work on the same directory at the same time.
* A turn can be dropped at any await: before its route is up, in a tool batch,
  in a compaction, between its two saves, inside a write.
* Locks on files are taken with a blocking `flock` and held across awaits.
* Every save is two or three writes, and the process may die between them.
* Requests of one tool run at the same time and move one shared slot between their
  awaits; what they learn outlives the process.
* The desktop has stops that somebody waits for and stops that nobody does, a start
  that takes seconds, timeouts at every wait, and a process that may exit at any
  point of all that.
* A job is told of by four callers, killed by two, and reaped by all of them.

What would make each part correct is stated as properties in the modules; the
list of hazards, each at its source line with the properties that speak of it,
is in `PROJECT.json`.

## 2. Modules

```
TurnContract         what a client is promised about turns
   ^ refined by
AppServer            stdin loop, turn tasks, interactions, file locks
   ^ proved about by AppServerProofs; instantiated by MCAppServer
Durability           one thread's conversation, transcript and session file
   ^ proved about by DurabilityProofs; extended by
OrphanWrite          … when a write outlives its task
EngineTranscript     messages and checkpoints of one AgentEngine
   ^ proved about by EngineTranscriptProofs
SessionStore         the shared session directory
   ^ proved about by SessionStoreProofs; instantiated by MCSessionStore
Jobs                 the table of background shells
   ^ proved about by JobsProofs; instantiated by MCJobs
RouteFallback        one model's route, learned by a router's requests
   ^ proved about by RouteFallbackProofs; instantiated by MCRouteFallback
Sidecar              page, start, stop and event tasks of the App Server process
CloudRelay           queue and worker of the record relay
   ^ composed by
Desktop              a sidecar whose runtimes each have a relay
   ^ proved about by DesktopProofs; instantiated by MCDesktop

DataLemmas           what the proofs need of numbers, sequences and finite sets
```

Definitions whose comment begins with "Mutant:" are not part of a model. Each is
a plausible bug of the definition that follows it, and stands there to show that
a property would notice it.

### AppServer

An action is the code between two awaits. `loop` says where the stdin loop is
suspended (`read`, or inside a request), `phase[t]` where the task of turn `t`
is. `active`, `terminal`, `engine` and `pending` are the fields of the same names
in `ThreadRuntime`, `ActiveTurn` and `PendingInteractions`; `said`, `finished`
and `cancelled` count what has been written to the client.

* `turn/start` is `TurnStart`, `UserSnapshotDone`, `Accept`, with
  `UserBlobFailed` and `MaintenanceDone` for the refusals. `next_id` hands out a
  number also to a refused turn.
* The task is `Begin`, `RouteReady` or `RouteFailed`, then `Speak`, `AskClient`
  and `Resume` while the engine runs, `EngineReturns`, `SaveSnapshot`,
  `SaveBlob`, `Finish`. `emit_terminal_once` and the emptying of the slot are one
  step, as there is no await between them.
* `prepare_cancel` and `abort()` are one step (`StopTurn`). `Joined` is the point
  at which `task.await` returns: the future has been dropped, with the mutex
  guard and the file lock it held. `Cancelled` is `CancelledTurn::emit`.
* The shutdown treats the threads one after the other. The model takes each out of
  `loaded` as it is stopped; the code clears the map at the end, which nobody can
  observe, as no request is read any more.
* `Block` is a task that calls `flock` for a lock a suspended task of the same
  process holds. The thread never runs again (`wedged`). The reads a save makes
  before it takes the lock belong to the step that takes it. The retry after a
  failed second save (`userUndo`) takes the lock in the step that lost it; in the
  code another thread's save could slip in between.

Left out: parsing, requests that only read, the background `model/list`
requests, cloud records (so `SilentAfterTerminal` says nothing of
`durability.updated`, which the cloud worker may emit late), and the contents of
events.

`TurnContract` is the abstract specification: a thread's turns are, for the
client, a strict sequence of accepted, messages, closed. `AppServer` implements it
under the mapping `thread <- owner`, `closed <- turns with a terminal event`,
`said <- said`.

### Durability and OrphanWrite

`disk` is the session file with its display history and its transcript blob; `job` is a
file being written, as a save reads, changes and rewrites the whole file. `conv` and
`eng` are the two copies in memory. Messages are records that name the turns whose text
they hold, so that merging two prompts (`push_text_turn`) can be told from keeping both;
`text[t]` lets two turns say the same, on which `recoverable_engine_messages` depends. A
save succeeds or fails, and it may fail after the file was replaced (it is read back,
and a snapshot's index comes second), so a failed save may have changed the disk. A
crash and a cancel leave the file either before or after the write under way.
`SeedHistory` and `LastUser` are written so that they can be reasoned about: the fold of
the display history as a recursive function over its length, the last user message by
its position. `HistoryKept` goes by position too: what is on disk up to an acknowledged
message is still there, in its place, after every step. `OrphanWrite` adds what
`spawn_blocking` permits: a write whose task is aborted lands later.

### EngineTranscript

`msgs` is the engine's `messages` without the system prompt. A message has its
role, what it is about (turns of a prompt, calls of an assistant, the call a
result answers) and the kind of its content. Token counts are not modelled: a
request may be over budget at any time, and `find_cut` may choose any user
message, which covers every estimate. Turn guards, hooks and the validator are
choices. `ran` records the calls whose tool was executed. `BridgeRole` and
`BridgeStart` are how `openai_anthropic_bridge` groups messages.
`InOrder` is the order in which a batch's results are appended, `Rebase` the pass of
`rebase_checkpoints` over the stack, as a recursive function.
`/compact`, steering and job notices are not modelled: the first is the terminal
UI's, the others append to an existing tool result.

### SessionStore

`files`, `index` and `rows` are the directory; `fileNewer` and `rowNewer` are the
`updated_at` order, as a strict order instead of times (a clock that steps back is not
modelled). `op` is the operation that holds `sessions.lock`, at the write it is about to
make, with the index it has read and will write. Leases are derived: those of loaded
runtimes, of staged evictions, of `thread/delete`. Taking the lock, or lock and lease,
is one step with the start of an operation. `Client` processes save and delete without a
lease, as the terminal UI and the one-shot commands do. `save_agent_messages` changes
neither files nor rows and is in `Durability`. The legacy migration is not modelled.
Damage to the index (`IndexLost`) comes from outside while no operation is under way and
no write outstanding.

A save in a turn's task may be aborted by `turn/cancel` (`Abort`; any save of an App
Server may be). Its future is dropped, and with it `sessions.lock` and the leases of
the evictions it has staged, but the file, the index or the removal that a blocking
thread is at still lands, or fails (`late`, `Land`): at most one write at a time is
outstanding. A write that lands is what the save would have written then; a file
gets the time of the aborted save, older than what was saved `since`. `overtaken`
records that such a write landed although an operation or a lease had begun since.
The code has no protection then, and `RowHasFile`, `SavedIsListed` and `LoadedIsKept`
are stated up to that point. Without the exception TLC finds each of them violated: a
save is aborted in its index write, a deletion drops a row, the late index brings it
back, and the deletion drops the file; the next `thread/start` of the same process
saves its session, and the older index loses its row; a session whose removal is under
way is loaded and then loses its file. It is the same defect as finding 2.
`EvictsOnlyOldest` and `UnreadableRemovesNothing` have no such exception.

### Jobs

`jobs` is the table, `leader[j]` the shell of job `j` as waiting for it would find
it. A critical section of the table has no await and is one step, with the
`reap_all`, `reap` or `prune_finished` it makes. `kill` is `KillBegins` (TERM), then
`GraceEnds` (the exit was seen, or not by the last poll), `Forces` (KILL, judged by a
table that is not reaped again), then `WaitEnds`; a cancelled turn drops it at either
wait (`Dropped`). A spawn may fail once the table was reaped and pruned, at its log
file or its process, and then starts nothing. `kill_all` is `KillAll`, `AllGraceEnds`,
`AllWaitEnds`; it runs at exit, when no engine is left to call the others. `forced`,
`signaled`, `told` and `announced` record the signals sent and what models were told.
A shell stands for its process group: a grandchild that survives its shell, which
`kill` does not look for once the shell has exited, is not modelled, nor are the log
files.

### RouteFallback

`slot` is a `RouteSlot` (route, `confirmed`, the failure streak, the seed it goes back
to, what was stored when it was made), `probe` the claude router's `ProbeState`,
`strict` the quirk learned of the upstream, `stored` the route kept with the key. A
request is `Begin`, for claude perhaps `NativeAnswers`, then one `AttemptSucceeds`,
`AttemptFails` or `AttemptLost` per attempt; requests interleave at their awaits, and
what a router does with an answer is one step. Answers are what
`classify_failed_attempt` tells apart. A route that is served may answer in any of these
ways, also with "missing" (402, 408, 413, a 400 without an error envelope) and with
"format", so that a cascade may fall through a working route; one that is not served
never succeeds and never answers as if it had parsed the request (an answer like "model
not found" counts as that of a served route, so that no upstream proves a route by
mistake and finding 5 needs one that really moves). The upstream may move at any time
until `UpstreamSettles`; from then on it stays, serves its routes and answers all others
with 404. Only of a request that began after that does `ExhaustedTriedAll` say that what
it tried was not served (`settled`); that it tried everything the router can send holds
of every request. `NoFanOut` speaks of the cascade: a 429 of claude's native probe is
followed by one. `Cascade` is what each router sends of the candidates: `serve_router`
one path per protocol, claude no native route. The filters are all `Only(s, S)`, a
recursive function, as the provers know nothing of `SelectSeq`. `Relaunch` ends the tool
with or without a crash, after `persist_runtime_discoveries`; `PersistAfterTurn` is
Bailey's own agent.

Abstractions: one model per router; the streamed and the buffered native attempt
are one; the Copilot and OpenRouter shortcuts of the serve router and the cascade of
`responses_to_chat_router` are left out. A request that a client drops is one that
never ends.

### Sidecar, CloudRelay and Desktop

`lock` is the mutex of `AppServerState`: a start keeps it from its first line to the
spawn, in two steps at which it awaits the credential bundle and the provisioning
of the key; everything else that takes it is one step. `child` is what it guards,
with the generation that tells runtimes apart, `reader[g]` the event task of
generation `g`, which first announces the exit, then drains the relay, then empties
the slot, then announces the completion. `stops[s]` is a call of `app_server_stop` at
its current wait. `client`, `logout` and `expire` are the page's.

`CloudRelay` is the relay of one runtime: `queue`, the worker at its current request,
the runs it holds (`active`). A request is answered, refused, applied with its
answer lost, or applied later (`late`, `AppliedLate`). `Desktop` puts a fresh one into
each runtime and ties them: the event task feeds it, cancels it at the exit, and
waits for it before it empties the slot.

`StopLeavesNothing` speaks of the newest runtime, as the relay of an earlier one, and
with it its queue, is gone when the next is spawned.

Assumptions: commands reach the mutex in the order the page invoked them. This is
stricter than the code: asynchronous Tauri commands are spawned as tasks, the tokio
mutex serves its waiters in the order in which these first poll it, and nothing in
`sidecar.rs` makes that the order of the invocations. `SignedOutMeansStopped` rests on
it. A login is one step: it stores the bundle (`account.rs:248`) and signs the page in
(`App.tsx:718-728`), so a start left over from an expired session that reads the new
bundle between the two is not seen. Further: the page is
not reloaded while a runtime lives; one `expireSession` runs at a time; a line of
stdout is read while its process lives; a kill by process id may fail. A turn sends
one tool event. `app_server_send`, the contents of the provisioned key and the
workspace commands are left out. `ShutdownCoversWorker` states with the code's
constants that the relay's 12 s abort comes after all its worker may still do
(two requests, then the flush), so the abort is no action.

## 3. Runs

| run | question | bounds |
| --- | --- | --- |
| `AppServer` | do turns keep the protocol whatever order requests, replies, failures and cancels come in? does the loop always come back? | 2 threads, 2 turns, 2 interactions, 2 messages; 268 211 states |
| `AppServerWedge` | can the runtime thread block for ever? (yes, finding 1) | 2 threads, 2 turns |
| `Durability` | what survives failing writes, cancels and crashes? | 3 turns, 2 texts, 2 engine messages; 187 132 states |
| `OrphanWrite` | … when writes outlive their task? (no, finding 2) | 2 turns, 1 late write |
| `EngineTranscript` | is every request well formed and every checkpoint right, for text prompts? | 3 turns, 2 steps, 3 calls, 2 per batch; 240 691 states |
| `EngineBridge` | … after the conversion for Anthropic? (no, finding 3) | same |
| `EngineCancel` | does the model hear of every tool that was executed? (no, finding 4) | 2 turns |
| `SessionStore` | does the directory stay consistent, and what is loaded stay, when saves fail, are aborted or die half way? | 3 sessions of 2 keys, caps 1 and 1, 1 server, 1 client, 1 outstanding write; 1 315 338 states |
| `RouteFallback` | do requests that share a slot stay off upstreams in trouble, try everything before they give up, and store only what was learned? | 2 requests, 3 routers, 2 protocols, 2 launches, limits 2 and 2; 3 665 887 states |
| `RouteFallbackStuck` | do requests succeed again once the upstream has settled? (no, finding 5) | gemini, 1 request, the code's limit of 5 |
| `Desktop` | does a sign-out leave nothing behind, and are runs recorded as they ended? | queue of 1; (2 logins, 1 ignored stop), (1 login, 1 ignored stop, 1 turn) or (1 login, 2 turns); 3.2 million states |
| `Jobs` | are labels and notices right, and is nothing left running? | 2 callers, 3 jobs, 2 running, 1 finished; 560 806 states |

Why the bounds are enough to be interesting. Two threads are needed for two
holders of one lock, two turns of one thread for a cancelled one and its
successor. Three turns in `Durability` give an exact transcript, an interrupted
turn after it and a resume after that; two texts let prompts repeat or differ. In
`EngineTranscript` three turns with a batch of two calls give a partly answered
batch, a compaction across it and a rewind beyond it. In `SessionStore` two
sessions of one scope exceed its cap, the third exceeds the total cap from another
scope and key, and one of each kind of process is every pair that matters, as the lock
makes operations of different processes follow one another and an aborted save leaves
the lock to its own process as well; a second App Server, larger caps and more
sessions are covered by the proofs. Sessions of one scope are interchangeable, which
`SYMMETRY Alike` uses. In `RouteFallback` the second request moves the slot
between two attempts of the first, the second launch starts from what the first one
stored, and the limits of 2 are reached in the middle of a cascade; a third protocol
lengthens the cascades only (the proofs have any order of any protocols). `Desktop` is
explored in three slices, as everything at once is too large: a second login meets
the stops of the first; a stop, ignored or not, meets the record of a turn; two turns
overflow the queue of one. In `Jobs` two callers can kill one job, and a third job
prunes a finished one.

Deadlock is not checked: the models end where the process exits, is wedged, or has
used up its bounded turns and messages.

Fairness. In `AppServer`: weak fairness of the stdin loop's own steps, of each
turn task's steps that wait only for the runtime or the disk, and of the end of
`record_tokens`. The runtime polls every ready task and file I/O completes.
Nothing is assumed of the client, the model, the tools or the network. `LoopReturns`
says the loop comes back unless the thread is wedged; its content is that a cancel
never waits for a reply that the loop itself would have to read. In
`RouteFallbackStuck`: clients go on sending requests, each attempt is answered, and
the upstream settles, after which it answers the routes it serves with 200 and all
others with 404; nothing weaker could make recovery fail to happen for a reason
other than the router's own.

## 4. What the violated runs show

1. `NeverWedged`: `ConfigLockGuard::acquire` blocks the only thread in `flock`
   (`services/session_store.rs:1241`) while a suspended task of the same process
   may hold that lock. Two threads that save at the same time stop the App Server.
2. `PromptsOnDisk` in `OrphanWrite`: a write continued after its task was aborted
   can land after the next prompt was acknowledged and take it off the disk
   (`services/atomic_write.rs:12`). The same write, of an index or a removal, is the
   exception in the properties of `SessionStore` (section 2).
3. `BridgeAlternates`: complete tool results at the end of a turn are not followed
   by an assistant message (`agent/engine.rs:1220`), so the next prompt makes two
   consecutive users for Anthropic.
4. `CompletedToolsRemembered`: results are recorded when the batch ends
   (`agent/engine.rs:2337`), so a cancel makes executed calls "[interrupted]".
5. `Recovers`: a streak of failures puts the seed back into the slot
   (`services/protocol_fallback.rs:84`) but leaves it `confirmed`, so later requests
   bail at their first attempt and never probe again, until the process ends.

Three more properties were tried and do not hold; no run is kept for them. After
`run_loop` has asked again in the user's name, a cancel stores no transcript and reports
`persisted: true` (`app_server/session.rs:857`), as the last user message of the engine
is then not the prompt; the prompts survive, the work does not. With `Content = {"text",
"parts"}` `NoTwoAlike` and `CheckpointsSplitTurns` fail: a text prompt is not merged
with a cancelled prompt that has images (`agent/engine.rs:1168`). And a missing
`index.json` is read as an empty one (`services/code_session_store.rs:239`), unlike the
comment on `all_chat_sessions`. All are hazards in `PROJECT.json`.

## 5. Proofs

Every safety property of every passing run is a theorem for all values of the
constants that meet the assumptions named below. The assumptions are on constants
only, and TLC evaluates them in the runs.

`AppServerProofs`, for every finite or infinite set of threads and every bound, from
`BoundsAssumption` (the bounds are naturals) and `NoThreadAssumption`. The
properties are not inductive: that the slot is free does not say that no task
runs, and that a flag is set does not say who set it. `TurnInv` strengthens them:

* `Numbered`, `LoopTurn`: turn numbers are handed out in order, and what the loop
  knows of the turn it is starting or stopping;
* `Slots`, `LiveTurns`: a live turn is in the slot of its thread or is the one
  being joined, and the slot holds nothing else;
* `Sent`: which terminal events were sent follows from the phase;
* `Asked`, `Engines`: pending interactions and held engines belong to live turns.

`Invariance` proves it with lemmas by kind of step: steps that move a live turn
(`LiveStep`), end one (`EndStep`), stop one (`StopStep`) and steps that touch none
(`QuietStep`). From it follow `TypeCorrect`, `AtMostOneTerminal`, `AtMostOneOpenTurn`,
`RepliesReachTheirTurn`, `EngineIsFree`, `ShutdownIsComplete`, the action property
`TerminalIsLast`, and `ImplementsContract`: every step of `AppServer` is an accept, a
message, a close or a stutter of `TurnContract`.

`SessionStoreProofs`, for any sets of sessions and processes and any scopes,
from `CapAssumption` (both caps are positive) and `ProcessAssumption` (no client is an
App Server). `DirInv` says where an operation may be (`Steps`), who holds leases
(`Leases`), that only saves work on an unreadable index (`Unreadable`), and, as long as
no late write was overtaken, what has been written at each point of an operation and
that the index on disk is the one it read (`Written`), and that an outstanding write
that nothing has begun behind does what its save would have done (`Harmless`). It
yields `DirTypes`, `NoStaleRow`, `SaveIsKept`,
`CorruptionRemovesNothing` and `LoadedSessionsAreKept`. That the session being saved is
never among the evicted (`SavedIsNoExcess`) is where the caps have to be positive:
it is newer than all others, and no set of newer ones is full.

`EvictsOnlyOldest` needs a second invariant. `OrderInv` says that "saved after" stays a
strict order of the files and of the rows, also across a deletion that may put its row
back and with the late write of an older save, that there are finitely many files, and
that what is staged is excess. Only
transitivity and irreflexivity of the order are used. `ExcessLeavesNewest` counts: of
the sessions newer than an evicted one, those with fewer than `ScopeCap` newer ones in
the scope (or `TotalCap` in what the scopes keep) are at least as many as the cap, and
they are never excess.

`JobsProofs`, for any callers and bounds, from `JobsAssumption`. `Inv` says that every
entry agrees with its shell, with the signals sent and with what was told (`Sound`),
that a job no longer in the table has ended or was sent KILL (`Left`), and what a kill
and the tear-down have done at each wait (`Kills`, `Down`). Each critical section is an
update that keeps entries sound under a condition that the place of the kill gives.
It yields `LabelsHold`, `TornDownHolds` and `AnnouncedOnceHolds`. `TypesHold` adds the
size of the table: a spawn is refused at `MaxRunning`, and its pruning keeps the last
`MaxFinished` finished entries, which `LastFew` counts; reaping and kills between two
spawns turn running entries into finished ones and never add any.

`RouteFallbackProofs`, for any requests, protocols, upstreams and limits, from
`ResetAssumption`, `OrderAssumption` (`FallbackOrder` is a sequence with `"openai"` in it,
to which claude pins a route), `RouteAssumption`, `ToolAssumption` and
`BoundsAssumption`. `Inv` ties the slot's proven flag to what was stored and answered
(`Proven`), and a request's course to the flag it started with (`Requests`): the flag
is never cleared within a launch. That gives `FailuresTeachNothingHolds`. `RouteInv`
adds the types (`Typed`) and how far each cascade has come (`Tries`): the candidates are
a nonempty sequence of routes with everything the router can send (`CascadeIs`, from
what the filters keep), one is tried per step but for the quirk retry, and what
a request that began after the upstream settled fell through is not served. It yields
`TypesHold`, `NoFanOutHolds` and `ExhaustedTriedAllHolds`.

`DesktopProofs`, for any numbers of logins, ignored stops and turns and any capacity,
from `LoginsAssumption`, `FloatAssumption` (an ignored stop is not the logout's or the
expiry's), `CapacityAssumption` and `LimitsAssumption`. For `NoLateKillHolds`: an event
task that has seen the exit of its process never reads again, because every spawn has a
new generation, and then a stop's first wait is over at once (`Generations`). For
`ClosedIsFinalHolds`: `RunOK` says, by what the worker holds of a turn, which status
requests on their way may still set; a turn starts once, so the run of a turn whose
close was sent is never created again.

`SignedOutHolds` rests on the order of the waiting commands. `PageOK` says that the slot
holds the one runtime whose event task has not ended (`SlotOK`), that every start waits
in front of the stop of a logout (`QueueOrdered`), and so that from the moment this stop
has the mutex nothing starts any more and only its own runtime may be alive (`LogoutOK`).
An expiry has no such order, as the page may connect behind it; there the bundle is
gone, so that a start fails before it spawns (`ExpireOK`), unless a logout has cancelled
the expiry.

`StopLeavesNothingHolds` rests on `AccountInv`: what the relay owes of each turn by which
of its events still wait, what the worker holds, and whether it flushes (`AccountOK`).
Events of a turn are queued in order (`EventsOrdered`), and an event that finds the queue
full is reported at once (`told`). A worker that has ended holds no run that was not
reported (`Tied`), so what is left is closed as it ended, or still queued.

`DurabilityProofs`, for any turns, texts and bounds, from `PromptAssumption` (a prompt is
not the nudge the engine sends in the user's name) and `BoundsAssumption`. `IInv` says
what the file holds, and what the file being written will hold, of what was acknowledged
(`FilesInv`, `JobInv`), when a turn is accepted (`AcceptedInv`), that the conversation has
every accepted prompt (`ConversationInv`), and that the engine has the last one unless
the conversation ends with it (`EngineInv`). The last clause is what makes
`recoverable_engine_messages` right although it compares texts only. It yields all
seven properties of the run; `AlternatesHolds` and `LatestPromptHolds` need what
`SeedHistory` computes for every history, which is proved by induction on its length.

`EngineTranscriptProofs`, for any turns, steps, calls and batches, from `ContentAssumption`
and `BoundsAssumption`. `Well` says that only the last message may call for results that
are not there and that no result is there unasked, `TailInv` how the transcript ends at
each place where the turn may be suspended, `Until` and `Marks` that checkpoints are at
user messages in the order of their turns, `Clean` where turns begin. Each way to change a
transcript (append, answer, repair, cut off the front, cut off the tail) keeps them, and
each action is one or two of these. `NoTwoAlikeHolds` and `CheckpointsSplit` assume
`TextOnly`, as the run does: with images both are false (section 4).

`DataLemmas` has what these proofs share. The library's induction theorems take an
operator, which the provers cannot instantiate; `LeastElement` and `SetInduction` say the
same of a set, so that a property of numbers is the set of those that have it. With
them the recursive functions of the model are shown to exist and to compute what they
should. The rest is the last element of a sequence, sets of elements, prefixes and the
counting of finite sets.

The inductive invariants were checked by TLC before they were proved; the runs check
the properties that follow from them.

Only model-checked: `LoopReturns`, a liveness property under fairness, which is beyond
the prover, and the counterexamples of section 4, which are about particular instances.

## 6. Not modelled

Each component that is left out is listed with its reason in `PROJECT.json`. The
crate has some 190 000 lines, and most of them are not state machines: the
conversion of payloads between providers' formats, tables of providers and models,
rendering and input of the terminal UI, React components, argument parsing,
downloads, credential flows over HTTP and the tests. Their correctness is a matter of
data for which tests are the better tool, so the models cover a small share of
the lines and a large one of the code that several actors share.

Left out although it has state worth modelling: MCP clients (matching, timeouts and
reconnects), the git snapshots of `/rewind`, the terminal UI's own turns, the live
sharing of sessions, and `app_server/cloud_records.rs`, which does for other clients
what the relay of the desktop does.

## 7. Plan

In the order of importance; 1 to 8 and 10 are done.

1. `AppServer` with `TurnContract` and its proofs.
2. `Durability`, `OrphanWrite`.
3. `EngineTranscript`.
4. `SessionStore` and its proofs.
5. `Sidecar`, `CloudRelay`, `Desktop` and their proofs.
6. `RouteFallback` and its proofs.
7. `Jobs` and its proofs.
8. Proofs about `Durability` and `EngineTranscript`, with `DataLemmas`; the types and
   the remaining safety properties of `Jobs`, `RouteFallback` and `SessionStore`.
9. `SessionStore` as the implementation of an abstract set of sessions with atomic
   save and delete, and the composition of `Durability` with the deletion of a
   session by another process.
10. Proofs of `SignedOutMeansStopped` and `StopLeavesNothing`, from an invariant of the
    order of the waiting commands.
11. `Mcp`: request ids, late answers and reconnects of one server process.
12. Pure modules: the frame reader at its limit, the decisions of
    `resolve_interaction_response` (an approval is never widened), the failure guard.
