# Verification of phoson

TLA+ models of the parts of phoson where order matters: the agent engine, the call to the
model with its retries and compactions, the turns of a session and the file they are kept
in, the message queue of the full-screen front end, what starts turns from outside
(monitors, background jobs, other windows), and what runs beside a turn (sub-agents, the
MCP connection they share, a swarm). TLC checks the models on small instances. TLAPS proves
every safety property that the runs check for every value of the constants (two components
without the faults that their theorems name), and that the full-screen queue, the wake queue
and the mailboxes implement their abstract specification.

`PROJECT.json` lists the components, the runs, the source lines behind each definition, the
hazards, and the theorems.

## How to run it

    tlc -workers 2 -config AgentRun_concurrent.cfg AgentRun.tla
    tlapm AgentRun_proof.tla

Each `.cfg` belongs to the module whose name it starts with; `MonitorWakes`, `PeerMail` and
`Swarm` are run through their `MC` modules, which only give values to constants. The longest
run takes two to three minutes on two workers.

## The system

phoson is a coding agent in Python. One window is one process with one asyncio event loop;
session saves run in worker threads. So control changes hands only at an `await` or a
`yield`, and that is the granularity of the models. Windows share files and nothing else.

    keys --> full-screen app --> session controller --> engine --> LLM call --> provider
             one operation,      one turn, the tree,    ReAct      compaction,
             queue, exit         the session file       loop       retries
                 |                 ^       |              |
                 |                 |       v              v
                 |                 |   JsonlStorage     tools, hooks, sub-agents --> MCP pool
                 |                 |   (threads)                  \--> swarm
                 |                 |
                 |       wake loop: monitors, background jobs, peers (files, tasks)
                 +--- protects saves from cancellation

### Inventory

| component | state | operations | what is hard | what makes it correct |
|---|---|---|---|---|
| agent engine (`phoson_agent/agent.py`, `_loop.py`, `_tool_runner.py`) | `_running`, `_history`, the locals of a suspended generator | `stream`, `run`, `replace_history` | two tasks on one engine; cancellation at any await; a consumer that leaves without closing the generator; hooks that raise | one run at a time; every `tool_use` answered once; cards closed; the history only grows; runs end |
| compaction (`plugins/summarizer.py`, `tools/compact.py`) | the message list it is given, queued compaction events | `wrap_llm_call`, emergency rescue, `compact_context` | rewrites a list the engine is using; the cut may split a call from its result | what is sent stays paired; bounded work; the cost is booked |
| retries (`phoson_llm/retry.py`) | attempt, held error, whether anything was yielded | `RetryingChat.stream` | a retry after part of the answer was shown | nothing is said twice; bounded attempts |
| session controller (`phoson_cli/controller.py`) | the tree's cursor, `_synced_history_count`, `_turn_history_initialized`, the status | `run_turn`, checkpoints, abort, `/compact`, `/undo`, rewind, resume | mirroring by count a list that compaction replaces; cancellation during saves; crashes | steps are on disk before they act; a settled turn is whole; what is kept can be sent |
| conversation tree (`sessions/models.py`, `sessions/serialization.py`) | nodes, current node, status | `append_many`, `get_path`, `orphan_recovery` | a crash inside a round | a repaired path is one the provider accepts |
| session storage (`sessions/storage_jsonl.py`) | the file, the temporary file | `save`, `save_meta`, `load` | overlapping threads, cancelled saves, failing writes, crashes | the file is a whole snapshot; no save that nothing overlaps is undone |
| session titles (`session_titles.py`) | a background task | `schedule_llm_title` | its `save_meta` overlaps the next turn | the title arrives, no turn's record is lost |
| full-screen operations (`fullscreen/app.py`, `turn_controller.py`, `lifecycle_controller.py`, `escape_controller.py`) | `_operation`, `_run_task`, `_pending_turns`, `_cancel_requested`, `exit_armed` | submit, cancel, quit, `_finish_operation` | keys between a task's end and its callback; quitting during a save | no message lost; order kept but for two listed ways to break it; required saves land |
| wake loop and monitors (controller, `phoson_plugin_monitor`) | `monitors.json`, `wake.jsonl`, their copies in each plugin instance, watcher tasks | register, stop, fire, poll, drain, wake turn, engine rebuild | a second instance loads files the first still writes; drained and not yet saved; a poll against a typed turn | delivered at most once; nothing lost silently; what may revive a stopped one; wakes are served |
| background jobs (`phoson_plugin_bgjobs`) | `jobs.json`, `wake.jsonl`, reapers, pollers, processes | launch, reap, poll, stop, announce | processes outlive their watchers; a stop that is cancelled; a kill between two writes | a final state is true; each end is told once |
| peers (`phoson_plugin_peers`) | presence records, mailboxes, owed replies | claim, send, ask, drain, reply | windows that sleep, crash and restart; two that ask each other; a reply against a time-out | a message is taken once; a question is answered at most once; no wait hangs |
| swarm (`phoson_plugin_swarm`) | members, token ledger, inboxes, `_tasks` | create, assign, message, collect, dissolve | members on one ledger; tasks that unwind while the swarm is dissolved | the books are true; a dissolved swarm leaves no trace; waits end |
| sub-agents (`phoson_cli/tools/subagent.py`) | a semaphore, time limits, child engines, shared middlewares | `agent`, `agents` | time-outs, second attempts, a cancelled batch; shared middleware state | a batch ends; what it shares stays sound |
| MCP client (`phoson_plugin_mcp`) | the pooled session, the tool list, a lock per server | connect, list, call, drop | a late failure against a fresh session; a handshake that hangs, fails or is cancelled | one connects at a time; a failed session is not used again |
| permissions, intent guard, tool catalog, doom loop | levels, patterns, revealed tools, counters | one decision per call | counters shared with sub-agents | outcomes only |
| other plugins, providers, OAuth, configuration, installer, rendering | sockets, processes, files | I/O behind one call | | not modelled |

## The modules

| module | models | uses |
|---|---|---|
| `ToolPairing` | messages, the pairing a provider demands, `safe_cut_index` | |
| `AgentRun` | `AgentEngine.stream`, `AgentLoop`, `ToolRunner` and the tasks that iterate them | `ToolPairing` |
| `AgentRun_proof` | what appending, answering, backfilling and cutting do to pairing; the engine's safety for all constants | `AgentRun` |
| `LlmCall` | one LLM call: compaction around retries around a provider | |
| `SessionTurn` | the controller's turns, the tree and the file, driving `AgentRun` | `AgentRun` |
| `SessionTurn_proof` | what a session keeps, sends and resumes, for all constants | `SessionTurn`, `AgentRun_proof` |
| `SessionFile` | the saves of one session, step by step, in overlapping threads | |
| `SessionFile_proof` | the file's safety for all constants | `SessionFile` |
| `Delivery` | abstract: a queue that hands each message over at most once | |
| `FullScreen` | operations, queue, cancellation and exit of the full-screen app | implements `Delivery` |
| `FullScreen_proof` | order, saves and the refinement of `Delivery` for all constants | `FullScreen` |
| `MonitorWakes` | monitors, the wake queue and the turns that drain it | implements `Delivery` |
| `MonitorWakes_proof` | watchers, registry, losses and the refinement of `Delivery` for all constants | `MonitorWakes` |
| `BgJobs` | background jobs, their watchers and their wakes | |
| `PeerMail` | windows, presence, mailboxes, questions | implements `Delivery` |
| `PeerMail_proof` | answers, presence and the refinement of `Delivery` for all constants | `PeerMail` |
| `Swarm` | members, ledger, inboxes, collect and dissolve | |
| `Swarm_proof` | books, reach and inboxes for all constants | `Swarm` |
| `McpPool` | the pooled connection of one MCP server | |
| `SubAgents` | a batch of sub-agents that share the pool | `McpPool` |
| `Calls_proof` | the safety of the LLM call, of the batch and its pool, and of the jobs, for all constants | `LlmCall`, `SubAgents`, `BgJobs` |

**ToolPairing.** A message is its role, the calls it makes and the calls it answers.
`Paired(h)` is the demand of the providers: every `tool_use` is answered exactly once, before
the next assistant message, and no result comes without its call. `PairedExcept(h, open)`
allows calls that are still being run. `CutAt` is what a compaction leaves (a summary and the
kept tail), `SafeCuts` the cuts that keep a paired history paired, `SafeCutIndex` the cut the
code computes.

**AgentRun.** `pc[c]` says where caller `c`'s generator is suspended: at one of four awaits
(`before`, `llm`, `gate`, `handler`), at one of five yields, or abandoned. Each action is the
code between two of these points. `Cancel` is a cancellation at an await, which reaches the
engine and triggers the backfill. `Abandon` is a consumer that leaves at a yield: the
engine does not see the cancellation, and `Finalize` is asyncio closing the generator later.
`Raise` is an exception the engine does not convert. The locals of a run exist once, and
`SingleFlight` is what makes that enough. A caller may only start from a paired history.

**LlmCall.** `stage` is the stream `wrap_llm_call` is consuming (the summary, the call, the
rescue, the call after it) and `net` what `RetryingChat.stream` is waiting for. Of a response
the model keeps whether something visible was forwarded and who got its `UsageEvent`. Whether
the gate fires, which error comes and whether a prompt fits are free choices.

**SessionTurn.** `turn` is what the controller awaits. `Reported` is an engine step whose
event makes `_consume_stream` mirror the new messages into the tree and save. `Rebase`,
`AppendTail` and `NothingNew` are the three cases of `_mirror_history_into_tree`. Of the tree
two paths matter: `cursor`, where the next turn continues, and `latest`, where a resumed
session continues. `Faults` switches on what the ordinary session does not meet: a sink that
does not protect its saves, raising hooks, failing saves, pictures, `/undo`, files from an
older release. Here a save is one step, because `SessionFile` looks inside it.

**SessionFile.** A save is five steps of a thread: load (for `save_meta`), open, write, flush
and replace. Threads share the temporary name, which holds only the process id, so the model
has inodes: two threads can write one inode, and `os.replace` moves the name under the
other's feet. The title the model was asked for arrives whenever it likes. `CancelSave` is a
cancellation in any save of a turn. While the engine runs the abort save follows; in the final
save (`controller.py:1313`, `1326`) and in the abort save itself (`:1359`) nothing does, and
`run_turn` ends without `save_meta`. `slips` notes that two saves overlapped, that one failed, or
that a turn's last save was cut short (`cut`), and decides nothing.

**Delivery.** One variable, `where`, says of each message whether it is unsent, queued,
delivered or dropped, and `Moves` which changes of place are allowed. It is the promise that
three components make about very different machinery, and each implements it with a state
function of its own:

| property | a message is | `where` is read off |
|---|---|---|
| `FullScreen.NothingLost` | what the user typed | the input line, `_pending_turns`, what was sent |
| `MonitorWakes.DeliveredOnce` | an event of a monitor | `wake.jsonl`, the queue in memory, the unsaved and the saved conversation |
| `PeerMail.MailKept` | a letter to another window (`MayDrop` is false) | `new/` and how many readers took it |

A message that is in two places, or is handed over twice, has a place outside `Places`, so
that a duplicate refutes the refinement as a loss does.

**FullScreen.** `task` is where the running operation is, `callback` its scheduled
`_finish_operation`, `operation` the `_AppOperation` record. `LateKeys` allows a key between
the end of a task and its callback, which happens when the loop polled the key together with
the task's last step. `slips` is a history variable and decides nothing: it notes how the
operation and its callback come apart: an operation was started in between (`replaced`), or a
cancelled one settled while an exit waited for it and left its queue behind (`stranded`,
`app.py:988-996`). The second needs no late key. Both are among the divergences.

**MonitorWakes.** Registry and queue are files that a plugin instance loads once and rewrites
whole from its memory, so `disk` and `mem[i]` are separate and `Rebuild` makes a new instance
from what is on disk. `held` are the watchers an instance can cancel, `stray` those it
cannot. `turn` is who holds `_turn_lock` and whether its first checkpoint was reached;
`wakeOp` is a wake turn on its way to the lock.

`_rebuild_engine` only schedules `close_plugins`, which awaits the plugins one after the other, so
between `Rebuild` and `CloseOld` the host goes on: turns begin, drain, checkpoint and end, tools
register and stop monitors, polls start the watchers of the new instance, they fire and end, the
session changes, the host dies. All of that is in the run. `Faults` names two interleavings that
the ordinary host has too and that the code does not survive; the run and the theorems about the
queue and the watchers leave them out, and the divergences show what happens in them:

- `late_close`: in that window a watcher of the old instance acts once more before its close
  cancels it, or a wake turn that was on its way drains the old instance.
- `poll_in_stop`: a poll comes while `stop_monitor` awaits the watcher it took out of `_tasks`.
  Polls reconcile during turns (`controller.py:1428-1433`), so nothing prevents it.

**BgJobs.** `proc` is the process of a job: the child, then what the child left in its process
group. `tasks` is who looks after it: the reaper of the instance that started it, or the
poller of a later one. A kill of the host may come between the two writes that record an end
(`lost`), and a turn that waits in `stop_bg_job` may be cancelled: the cancellation goes to the
watcher it awaits, and the tool answers all the same. `cut` are the jobs that lost their watcher
in this way, `blind` those whose watcher was a poller, so that nothing was killed. How a turn
takes a wake is `MonitorWakes`; here it is one step.

**PeerMail.** `win[w]` is a window: where its turn is, the questions it owes an answer to, and
the question it waits for. `ClaimChecks` and the write after it, and `AskChecks`,
`AskSends` and `AskWaits`, are separate steps, because other windows run between them.
`Sleep` stops heartbeats, so that a live window looks stale.

**Swarm.** `task` holds the runs in flight, also two of one member; a task that was cancelled
stays until it has unwound. `StepBooked` and `BudgetHit` are the two ends of an LLM step
between the check of the ledger and its booking. `swarm_create` overwrites `plugin.runtime` while
tasks of the runtime before may go on; `replaced` remembers which runtimes that happened to.

**McpPool, SubAgents.** `at` is the await inside `_execute_mcp_tool` a caller is suspended at,
`using` the connection it holds, `conn` the connections opened so far. `SubAgents` drives the
pool with the tasks of the `agents` tool: `doomed` says that a task was cancelled, by its time
limit or with the batch, and has not yet unwound. A task makes one MCP call at a time.

Definitions named `Name_Fault`, under a comment "Seeded fault", are not part of any model. Each
is a `Name` with a plausible bug, and some run's property fails when it takes `Name`'s place.

## The runs

| run | constants | states | shows |
|---|---|---|---|
| `engine` | two callers, one iteration, two calls per response, two runs | 13 146 | `SingleFlight`, `CardsClosed`, `AppendOnly`, `SettledPaired`, `RunEnds` |
| `turn_protected` | one session on a protecting sink, three turns of up to two rounds of two calls, one rewind or `/compact` | 328 868 | `PairedAtLlm`, `StepsAreDurable`, `KeptSendable` |
| `turn_crash` | two turns of two one-call rounds, two crashes, pictures | 53 865 | `ResumeIsSendable` |
| `turn_faults` | two turns, two-call rounds, every fault but a legacy file, one crash | 123 112 | `SettlesWhole`, `TurnEnds` |
| `file` | turn, titler and a cancelled save, three checkpoints, two failures or crashes | 2 493 354 | `FileLoads`, `QuietFileIsSession`, `NodesKept` |
| `llm_retries` | three attempts per stream, two visible events per response | 25 464 | `OneVoice`, `NoRetryLoop`, `AnswerIsBooked`, `CallEnds` |
| `fullscreen` | three messages, one other operation, quitting, late keys | 30 498 | `OrderKept`, `NothingLost`, `QueueDrains`, `RequiredSavesLand` |
| `wakes` | two monitors in two directories, two sessions, cap 1, two events, two instances, two registrations | 403 114 | `OneWatcher`, `DeliveredOnce`, `NoSilentLoss`, `StoppedStays`, `WakeServed` |
| `bgjobs` | two jobs, three instances, with the watchdog | 8 211 | `FinalMeansOver`, `ToldOnce`, `EndIsTold` |
| `peers` | two windows with names of their own, two hops, two sends | 41 816 | `AnsweredOnce`, `PresenceTold`, `MailKept`, `MailServed` |
| `swarm` | two members, caps of one token, steps of one or two, two tasks, two swarms, one message | 386 873 | `BooksKept`, `MailHeard`, `DissolvedStands`, `SwarmSettles` |
| `subagents` | three tasks, two at a time, two connections, three MCP calls | 543 442 | `SharedPoolKept`, `BatchEnds` |

The type invariant of a module is the first conjunct of one of its invariants
(`StepsAreDurable`, `FileLoads`, `AnswerIsBooked`, `OrderKept`, `OneWatcher`, `FinalMeansOver`,
`AnsweredOnce`, `BooksKept`, `SharedPoolKept`), so that no run checks it alone. All
are proved too, that of `AgentRun` as `TypeCorrect`.

### Why the bounds are enough

- *Two calls per response* are the fewest that have a call before, a call at and a call after
  a cancellation, and a round that is half answered. *Two rounds* are the fewest in which the
  tail of a history holds a whole round and a compaction can cut in front of, inside and behind
  it. *Two callers* are the fewest that contend. In `engine` there is one round per run,
  because two callers with two rounds give too many histories; the second round is in
  `turn_protected`, where the engine has one caller as in the program. The proofs need none
  of these bounds.
- *Two turns* let a turn find what the turn before it left behind (`streaming`, `compacted`,
  `synced`); the third shows that nothing is carried further. Rewinding and `/compact` happen
  between turns, and one of them is enough to make `cursor` and `latest` differ.
- *Two crashes* put a crash behind a repair. In `turn_crash` a round has one call: with two
  `ResumeIsSendable` fails, and that is a divergence.
- In `file`, three checkpoints let a turn's save land before, between and after the two steps
  of the titler, and two failures let a crash follow a failed or a cancelled write.
- *Three attempts* give a first, a middle and a last one. *Two visible events* tell a response
  of which nothing, some or all was shown.
- *Three messages* are one that runs, one that waits and one on the input line.
- In `wakes`, a cap of one makes the second event of a monitor overflow, two sessions and two
  directories make events that the shown session must not take, and the second instance is a
  rebuild or a restart that loads what the first one left. `StoppedStays` also passes with
  `Faults = {"late_close"}` (2 003 164 states).
- In `bgjobs`, three instances let a job be started, inherited and inherited again, by a
  rebuild and by a restart. The proof needs no bound.
- In `peers`, two sends and their replies make a question in each direction, and an answer
  that crosses a second message. Taking over a name needs three windows (`MCPeerMail` has
  them); that is where `LoserIsSilent` fails.
- In `swarm`, a cap of one and steps of two make a step that is booked in part, and two tasks
  can be one member twice. Two swarms are what `swarm_create` needs to replace one. The second
  follows a swarm that still has a task to be stopped (`FromRest = FALSE`; from rest it meets
  nothing that the first did not), and messages are sent in the first (`MailSwarms = 1`); an
  inbox belongs to its runtime. The first swarm is a pipeline, the second a star (`Topology`).
  The proof needs none of these bounds.
- In `subagents`, three calls on two connections are a call that fails, a reconnect, and a
  late failure of a caller that still used the first connection. Three tasks on two slots are
  one that connects, one that waits at the lock and one that has not started.

### Fairness

- `engine`: weak fairness of each caller's `Advance`. Hooks, provider and handlers return, the
  consumer keeps iterating and asyncio finalizes what was abandoned. Compactions are not fair,
  and they leave a generator at the await where it is.
- `turn_faults`: weak fairness of `Progress`: the same for the engine, saves return, and
  somebody starts the program again after a crash. Nothing forces a user to cancel, move or
  begin a turn.
- `llm_retries`: weak fairness of `Next`: the provider answers or the connection times out.
  Backoffs are not timed.
- `fullscreen`: weak fairness of the task and of the callback, because the event loop runs what
  is ready, and strong fairness of "the stream's terminal event arrives, or the operation
  ends". A turn may checkpoint any number of times in between, so the step is enabled again
  and again but not continuously; that it comes at all is `RunEnds` of `AgentRun`. Keys are
  not fair: `QueueDrains` does not rely on anyone pressing one.
- `wakes`: weak fairness of the poll, of a turn's end and of a stop that waits for its watcher.
  The close of a replaced instance is not assumed: a plugin before it may hang. `WakeTurn` has strong fairness: it needs `_turn_lock`,
  which typed turns take in between, and an `asyncio.Lock` serves its waiters in order. Users
  and watchers are not fair.
- `bgjobs`: weak fairness of `Reap`, `PollEnds` and `StopAnswers`, each a task of the event
  loop that only waits for a process that is dead. Processes need not end.
- `peers`: weak fairness of each window's poll, turn and question, including that a wait is
  answered or gives up, since it has a time-out. Windows need not start, sleep or crash.
- `swarm`: weak fairness of the tasks: one that was created begins, its run ends (`RunEnds` of
  `AgentRun`), and one that was cancelled unwinds; `swarm_collect` returns once nothing it
  waits for is left. Tools are called when the model likes.
- `subagents`: timers fire (`Expire`), cancellations arrive (`Unwind`), the semaphore hands on
  its slot (`StartTask`) and `gather` returns. Nothing else is fair: a model, a server or a
  handshake may hang for good. `BatchEnds` is about a batch with a time limit;
  `timeout = 0` switches it off.
- The other runs check safety only.

Deadlock is not checked: in all models the bounds are used up in the end, and a call, a
session or an application may be over.

## The proofs

TLAPS checks the theorems for any finite or infinite set of callers, jobs, windows or tasks
and any natural numbers for the bounds. They rest on the assumption each module states about
its constants and on nothing else: bounds are natural numbers (attempts, visible events, hops
and parallel tasks are positive, because the program reads them that way), switches are
Booleans, and no caller, job or window is called "none". `SessionTurn_proof` has three
hypotheses more, about `Faults`, which its theorems state, and `MonitorWakes_proof` two.
`Calls_proof` is about three models that share no variable; it holds their proofs side by side.

An invariant a run checks is seldom inductive. Each component therefore has an invariant of
its own that is (`EngineInv`, `CallInv`, `TurnInv`, `ProtectedInv`, `OneCallInv`, `FileInv`,
`FullScreenInv`, `WatchInv`, `WakeInv`, `JobInv`, `PeerInv`, `BatchInv`, `SwarmInv`), a conjunction of named parts in the
component's module. TLC checked each on the component's run before it was proved. The proof
that a step keeps it has one lemma or one step per action, and the listed properties follow.

**Engine** (`AgentRun_proof`). That a history is paired at `llm` says nothing of the round in
which it is not. `EngineInv` says, with `RoundInv(p)`, what holds while a generator is
suspended at `p`: at `gate`, `started` and `handler` the history is paired except for the calls
from the `k`-th on; at `answered` except for those from the `(k+1)`-th; elsewhere it is paired.
It adds `SingleFlight`, which lets one copy of the locals speak for all callers, and `IdsFresh`,
because an id that is used again could answer an old call. `Handover` reduces a step of one
caller to `RoundInv` at the point it moves to.

- `EngineInvariant`: `Spec => []EngineInv`.
- `TypeCorrect`, `SingleFlightHolds`, `ProviderSeesPairedHistory`, `NoCardLeftOpen`: the
  invariants `TypeOK`, `SingleFlight`, `PairedAtLlm`, `CardsClosed`.
- `SettledRunsArePaired` and `HistoryOnlyGrows`: the action properties `SettledPaired` and
  `AppendOnly`.

The work on histories is at the head of the module: `AppendAssistant` and `AppendResult` for
one message, `AppendResults` for the backfill of a cancelled round, `CutPaired` for compaction.
In `AgentRun` a compaction may take any of `SafeCuts`; that the cut the code computes is one of
them is `CliCutIsSafe` of `SessionTurn_proof`.

**LLM call** (`Calls_proof`). `CallInv` adds to the type invariant `Budget`, what the call
may have spent when its current stream was entered, and `Silent`, the points where nothing can
have been shown. `CallInvariant` proves it; `NothingSaidTwice` (`OneVoice`),
`RequestsBounded` (`NoRetryLoop`) and `AnswerBooked` (`AnswerIsBooked`) follow.

**Session** (`SessionTurn_proof`). Three invariants, each for fewer faults and about more.

- `TurnInv` needs no more than a file that is not of an older release, whatever is cancelled,
  raised or killed. `Mirrored` says what the count of mirrored messages means at each point of
  a turn: that many messages of the engine's history are the active path, and where the history
  has grown by nothing new the two are the same. `Newest` says when the file holds the newest
  path, `Driven` where a generator may be while the turn is elsewhere. `TurnInvariant` proves
  it; `StepsDurable` (`StepsAreDurable`) and `SettledTurnIsWhole` (`SettlesWhole`) follow.
  `MirrorWhole` and `MirrorGrown` are the lemmas about the three cases of the mirror, and
  `StripNothing` that the hooks change nothing in a history without env blocks.
- `ProtectedInv`, for `Protected` sessions (protected saves, nothing raises, dies or returns a
  picture, no `/undo`), adds `EngineInv` and the shape of histories. A path is `Whole` when it is
  paired, `Restartable` (every prefix before a user's text is paired, so that a rewind leaves a
  whole path) and `Contiguous` (between a call and its answer there are only answers, so that
  `safe_cut_index`, which stops at a message that answers nothing, separates no pair). `Contiguous` is what a
  picture breaks. `ProtectedInvariant` proves it; `KeptIsSendable` (`KeptSendable`) and
  `SessionSeesPairedHistory` (`PairedAtLlm`) follow.
- `OneCallInv`, for `OneCallRounds` (any number of kills, pictures, rounds of at most one
  call), adds `LoneCall`, that the call which is open when a checkpoint is written is made by the
  last message, and `DiskResumes`, that what a resume would make of the file is whole. With two
  calls in a round `LoneCall` fails, and so does the property (see below).
  `OneCallInvariant` proves it; `ResumedIsSendable` (`ResumeIsSendable`) and
  `SendableOverCrashes` (`KeptSendable` and `PairedAtLlm` in the same sessions) follow.

**Session file** (`SessionFile_proof`). `FileInv` has `Tidy`, which inode each step of a save
may hold, `Alone`, what a writer that overlaps with nobody has put into its inode, and
`Current`, who will still bring the file up to the session: the turn, the thread of a cancelled
turn or the titler. Where a turn's last save was cut short it promises nothing until the turn
checkpoints again. `FileInvariant` proves it;
`FileAlwaysLoads` (`FileLoads`), `QuietFile` (`QuietFileIsSession`) and the action property
`SavedNodesKept` (`NodesKept`) follow.

**Full screen** (`FullScreen_proof`). `FullScreenInv` adds to the order of the messages
`Followed`, that the scheduled callback is that of the task that is over and that nothing waits
where it has run, and `EachOnce`, that what was typed stands once in the queue, on the input
line or among what was sent. Order holds until one of the two `slips`. `FullScreenInvariant`
proves it; `MessagesInOrder` (`OrderKept`) and the action property `SavesLand` (`RequiredSavesLand`) follow, and `NothingTypedIsLost`
(`NothingLost`), the refinement of `Delivery`: an initial state maps to an initial state, and
every step to moves that `Delivery` allows. The first lemmas are about `FlattenSeq`.

**Peers** (`PeerMail_proof`). `PeerInv` adds `Receipts`, `Owed` and `Replied`: mail that is out
of `new/` was read once, the turn that owes a reply is the only one that read the request, and
a reply answers a request that was read. `PeerInvariant` proves it; `PresenceIsTrue`
(`PresenceTold`), `RequestAnsweredOnce` (`AnsweredOnce`) and the refinement `MailIsKept`
(`MailKept`) follow.

**Monitors and wakes** (`MonitorWakes_proof`). Two invariants, because the two members of
`Faults` break different things.

- `WatchInv` needs that no poll comes while a stop awaits the watcher it took out of `_tasks`.
  `Hosts` says which instance is the engine's and when a turn or a stop may be under way,
  `Tended` that each watcher is one its instance can cancel, watches an entry of it, and is not
  one that a stop waits for; that last part is what such a poll breaks. `WatchersTended` proves
  it, and `WatchersCancellable` (`Watched`, all of `OneWatcher` but the types) follows, with and
  without `late_close`. So does `StoppedStaysStopped` (`StoppedStays`): an entry that was removed,
  or is over, comes back to disk by a registration or by an instance whose registry is out of
  date (`Stale`), and no instance becomes stale while no old one is closing. It does not say that
  the flush of a closing instance revives nothing: what was stopped between a rebuild and that
  flush is revived by it (`RemovedStays`, see below).
- `WakeInv`, with `Faults = {}`, adds `Mirrored`, that the queue file is what the live instance
  holds, and `Accounted`, that a queued event is one event and was never said. It needs that an
  old instance does not act after a rebuild, because both would write the queue from memories
  that differ; what the new instance does in the meantime it allows. `WakeInvariant` proves it;
  `OneWatcherRuns` (`OneWatcher`), the action property `LossIsTold` (`NoSilentLoss`) and the
  refinement `WakesDelivered` (`DeliveredOnce`) follow.

The queue is a set of numbered events. Events are appended in the order of their numbers and
taken out by session or as the oldest of their monitor, so the list in the code is the set in
that order.

**Swarm** (`Swarm_proof`). `SwarmInv` adds to the ledger and to `_tasks` `RunsKept`, that
a run with tokens off the books is at a cap (so that its next step stops it, and it can have at
most one such step), and `Attended`, that what waits in the inbox of a stage that runs was heard
when it began, or came late. That the ledger is the sum of the members is `Adds`: there are the
partial sums on the way to the total, which `AddsMore` moves up from the member that is booked.
`OneTask` is the step of one task beside the others. `SwarmInvariant` proves it. `InReach`, that
an uncancelled task belongs to the current runtime or to one that `swarm_create` replaced, is
inductive beside it (`ReachStep`), and `BooksAreKept` (`BooksKept`) has both; that every task is
in reach of a dissolve is false (`AllInReach`, see below). `MessagesAreHeard` (`MailHeard`) and the action property `DissolvedSwarmStands`
(`DissolvedStands`) follow: a task that is in flight when its swarm is dissolved is cancelled, so
it neither begins, books nor finishes.

**Background jobs** (`Calls_proof`). That a final state is true and that each end is told once
depends on who watches a job. `JobInv` adds `WatchInv`: a running job has a reaper or a poller
unless a stop that waited for it was cancelled; only the instance that started a job reaps it;
a stop that owns its job has killed it before it waits, so that of a job whose stop was cancelled
nothing is alive unless it was polled; a job that a kill left half written is
never shown running. Without it a step of a poller could announce a job whose reaper is about
to do the same. `JobInvariant` proves it; `FinalIsTrue` (`FinalMeansOver`) and `EndToldOnce`
(`ToldOnce`) follow.

**Sub-agents** (`Calls_proof`). `BatchInv` adds to the pool `Held`, which connection a
caller holds at each await, and `Numbered`, that connections are numbered as they are opened;
and `Cancelled`, that a cancellation reaches every task that has no answer. `BatchInvariant`
proves it; `PoolShared` (`SharedPoolKept`) follows.

**Only model-checked.** `RunEnds`, `CallEnds`, `TurnEnds`, `QueueDrains`, `WakeServed`,
`EndIsTold`, `MailServed`, `SwarmSettles` and `BatchEnds` are liveness under fairness, which
TLAPS does not prove. Every other property of a run, invariants, action properties and
refinements, is a theorem; where one has a hypothesis about `Faults`, the constants of its run
satisfy it, and what happens without it is among the divergences below. That there is a cut
where `SafeCutIndex` looks for one, and what `FlattenSeq`, a fold of the community modules,
computes, is proved without an induction scheme: from the least counterexample, which `LeastOf`
takes from the library's facts about finite sets.

## Where code and documentation part

The models also show where the program does something else than its documentation says. None
of these is a listed run: in the listed runs the constant is off, or the property leaves the
case out. Each can be reproduced with the property and the constants below.

| module, property | constants | what happens |
|---|---|---|
| `AgentRun`, `OnlyCancelLeavesCalls` | one caller, `MaxIterations = 1`, `MaxCalls = 2`, `MaxRuns = 1` | an `on_before_tool` hook that raises anything but `PhosonAgentError` leaves the round's calls unanswered; `ToolRunner.execute`'s docstring says only a cancellation can |
| `LlmCall`, `SummaryIsBooked` | `MaxAttempts = 1`, `MaxChunks = 1` | `_run_summary_call` keeps the summary's `UsageEvent` so that its cost is booked (`summarizer.py:760-762`); the loop holds one event per call (`_loop.py:262`), and the answer's replaces it |
| `SessionTurn`, `ResumeIsSendable` | `Faults = {}`, `MaxCalls = 2`, one iteration, run, turn and crash | `orphan_recovery` promises a result for every orphaned call (`serialization.py:298-301`) and looks at the last node only (`:319`): after a crash inside the second call of a round the last node is the first call's result |
| `SessionTurn`, `PairedAtLlm` | `Faults = {"image"}`, two rounds of two calls, one turn | a picture between two results stops `safe_cut_index` too early: the kept tail begins with a result whose call was summarized |
| `SessionTurn`, `SettledNeedsNoRepair` | `Faults = {"unprotected"}`, one call, one turn | Ctrl+C in a checkpoint saves an unanswered call with status aborted, which no resume repairs |
| `SessionTurn`, `SettlesWhole` | `Faults = {"legacy"}`, one call, one turn | the counter of mirrored messages includes the legacy `[env: ...]` blocks that the engine drops (`controller.py:1235`), so the first messages of the run are never mirrored |
| `SessionTurn`, `MovesToTurnBoundary` | `Faults = {"undo"}`, two rounds of one call, one turn, one move | `/undo` looks for the last message of role `user`; after a turn with tools that is a tool result |
| `SessionFile`, `SavesStay` | `LlmTitles = TRUE`, `MaxSteps = 3`, `MaxFaults = 0` | "the task's save_meta is safe" (`controller.py:1328-1329`): it loads, edits and saves the whole file, and a checkpoint of the next turn that lands after the load is overwritten by older nodes |
| `SessionFile`, `CancelledIsSaved` | as `file` | "cancelled: same as error (partial progress saved)" (`controller.py:1153`): a cancellation in the final save (`:1313`, `1326`) or in the abort save (`:1359`) ends the turn with no further save and no `save_meta`, and the quiet file keeps older totals |
| `FullScreen`, `InOrder` | `LateKeys = TRUE` | Enter between a task's end and its callback starts a new operation, and the queued messages follow the later one |
| `FullScreen`, `InOrder` | `LateKeys = FALSE`, `UserQuits = TRUE` | the same without a late key: Ctrl+C cancels the turn, a second one during its abort save asks for the exit; `_finish_operation` neither exits, sends the queue nor gives it back (`app.py:988-996`), and what is typed next is sent before it |
| `FullScreen`, `ExitHonoured` | `MaxMessages = 3`, `MaxOthers = 1`, `UserQuits`, `LateKeys = FALSE`, `FairSpec` | after a first Ctrl+C cancelled the turn, a second one during the protected save is told that the application will exit once the save is done (`lifecycle_controller.py:74`); `_finish_operation` takes the settled operation for a cancelled save (`app.py:989`) and stays open |
| `MonitorWakes`, `RemovedStays` | as `wakes` | "stopped and removed from the registry" (`_plugin.py:518`): `close_plugins` is only scheduled by a rebuild (`controller.py:566-568`), and the flush of the old instance (`_plugin.py:202-203`) brings back what was stopped before it |
| `MonitorWakes`, `DeliveredOnce`, `NoSilentLoss` | as `wakes`, `Faults = {"late_close"}` | if a watcher of the old instance fires or ends, or a wake turn drains it, in that window, both instances rewrite the queue from memories that differ ("drained by whichever host takes over", `storage.py:17-18`) |
| `MonitorWakes`, `OneWatcher` | as `wakes`, `Faults = {"poll_in_stop"}` | a poll while `stop_monitor` awaits the watcher it took out of `_tasks` starts another; polls reconcile during turns (`controller.py:1428-1433`) |
| `BgJobs`, `StopSaysStopped` | as `bgjobs` | "the completion wake is still delivered, with state stopped" (the plugin's README): `stop_bg_job` on an inherited job, or one that is polled, ends as orphaned (`_plugin.py:711`) |
| `BgJobs`, `StopKills` | as `bgjobs` | "stopped (process tree killed)" (`_plugin.py:571`): a cancelled stop of an inherited job cancels its poller and kills nothing (`:711-713`); it, and every later stop, awaits that poller, suppresses its `CancelledError` and answers this while the processes live |
| `BgJobs`, `EndAlwaysTold` | as `bgjobs` | "The completion wake is still delivered" (`_plugin.py:407`): a cancelled `stop_bg_job` takes the watcher of its job along (`:569-570`), and the end is not announced until another instance loads the registry |
| `PeerMail`, `NoWaitCycle` | as `peers` | "peer_ask refuses to ask an agent that is waiting on you" (README:65-66): the check (`_plugin.py:469`) comes before the send and the announcement of the wait (`:477-479`) |
| `PeerMail`, `LoserIsSilent` | `Windows = {w1, w2, w3}`, `NameOf <- MCNameOf`, `MaxSends = 1` | a window whose name another took over still drains the mailbox of that name until it notices (`_plugin.py:295-297`) |
| `Swarm`, `MailDelivered` | as `swarm` | "delivered the next time that agent runs" (`swarm_message`): a message to a stage of a pipeline that comes while the stage runs is drained by its end (`_orchestrator.py:518`) |
| `Swarm`, `AllInReach` | as `swarm` | "Cancel in-flight work and tear the swarm down" (`swarm_dissolve`, README:24) and "Tear down any active swarm" (`aclose`, `_plugin.py:105`): `swarm_create` overwrites the runtime (`_tools.py:109`), and the tasks of the one before are cancelled by neither |
| `McpPool`, `OneLive` | as `subagents` | "one live connection per server" (`_plugin.py:191`): a call that fails late drops the fresh session that another caller pooled meanwhile; it stays open in the exit stack beside its successor |
| `McpPool`, `ListIsOfPool` | as `subagents` | a tool list that was fetched over the old connection may be cached for the new one |

Further, seen while modelling and outside what the models hold:

- Two overlapping saves share a temporary file and may publish a torn one; the titler's
  `save_meta` leaves the totals out, and they are written as 0.
- Two CLI windows share `~/.phoson/monitors` and the files of the background jobs, and each
  rewrites them whole from its memory.
- A cancelled `swarm_collect` without a timeout cancels the members; the second run of one
  member makes `in_flight` of its status wrong; members that are still unwinding return to idle
  after a dissolve; an inbox is not drained in a star or a mesh; a step that is clamped at a cap
  is missing from `total_used`.
- The peers' README says a record is live when its heartbeat is recent; `is_live` checks the
  process too.
- The doom-loop middleware's docstring calls its state per-run; sub-agents share the instance,
  and an `AgentStartEvent` of theirs resets the parent's counters. A second series of identical
  failures in one run gets no hint, because `_triggered` is not cleared by a success.

## Not modelled

- The doom-loop middleware, permissions, the intent guard and the tool catalog: `AgentRun` has
  the outcomes of their decisions (a call is allowed, refused or blocked).
- `/compact` during a wake turn. It rewrites the tree without `_turn_lock`; only the classic
  REPL, which has no operation starter, could let the two overlap.
- A crash between `save(tree)` and `save_meta` of one checkpoint: the totals are those of the
  save before until the next one.
- Hooks that suspend in `on_agent_event`. The built-in ones return at once. With one that
  awaits, a cancellation would answer a call twice (`_tool_runner.py:285`).
- A cancellation that lands in `run_turn` of the full-screen turn controller before the message
  was appended to the tree (`turn_controller.py:180`): the text is only left in the input
  history.
- `compact_min_keep_messages = 0`, which makes `safe_cut_index` read past the end of its list.
- Branches of the tree other than the two paths, reasoning records, attachments, providers and
  pricing, switching model or provider.
- Of MCP, discovery at start-up, allowlists, transports and the teardown of the exit stack:
  which task may leave an anyio scope, and whom a broken transport cancels, is decided by the
  library. Of peers, quarantine of broken files and pruning. Of a swarm, the facts of the
  blackboard, which no transition reads.
- The retention of offloaded tool output, the PostgreSQL session storage, rendering, pickers,
  key tables, OAuth, configuration, installer, updater, and the plugins that drive a device or
  a remote service: I/O without a protocol of its own among the components above.

## Plan

1. Refinements. `LlmCall` implements the one step `LlmStreamEnds` of `AgentRun`. A save of
   `SessionFile` with one writer implements the one-step save of `SessionTurn`.
2. `PermissionGate` and `ToolCatalog`: one decision per call against a reference definition;
   the revealed tools only grow. `DoomLoop` with sub-agents that share the instance.
