# A TLA+ model of the DvaDva agent

This directory specifies, model-checks and proves parts of the agent in
`server/dvadva-agent`, of the libraries under it, and of the clients and the
bridge that talk to it. Paths below are relative to the repository.

## The system

One **agent process** keeps one **session**: a *soul* that runs turns of a
language model with tools, a *context file* that remembers the conversation, and
a *wire file* that records everything the turns said. Any number of
**frontends** (the desktop client, the terminal client, the Android client)
attach to it over a socket, come and go while turns run, and are told the same
story: the recorded past on attaching, then what happens next. A **bridge** on
the remote host finds running sessions in a registry and relays to them.

| Component | State | Operations | Correct when |
|---|---|---|---|
| Fan-out (`wire/fanout.rs`, `utils/aioqueue.rs`) | the attachments; each has a queue and, while it catches up, a staging list | attach, detach, broadcast, send_to, begin/end_catch_up, shutdown; the writer's get | each client sees every fact since it attached, once, in order; none is silently dropped |
| Session core and connections (`wire/server.rs`) | `pending` requests, the `cancel_token` slot, external tools and their owners, the stop token; per connection its catch-up and its slot | the handlers of initialize, prompt, replay, cancel, shutdown and responses; catch-up; teardown | one answer per prompt, to its asker; a request stays answerable while its turn waits; a tool has an owner that serves it; cancel, stop and replay come to an end |
| Turn driver (`soul/mod.rs`) | the turn's wire, recorder and stream loop | select of the turn against its cancel token, join of the recorder, half a second for the stream loop | a turn always ends |
| Soul (`soul/kimisoul.rs`) | context, approval task, denwa-renji | turn, step, D-Mail revert, compaction | checkpoints and reverts match the history |
| Approval broker (`soul/approval.rs`, `PendingResponse` in `wire/types.rs`) | queue of requests, map of waiters, one-shot values | request, fetch, resolve, wait | every request is shown once and every waiter woken |
| Wire channel (`wire/channel.rs`, `wire/file.rs`) | per-turn queues, merge buffer, recorder | send, merge, flush, shutdown | what is recorded is what was said |
| Context file (`soul/context.rs`) | history, token count, next checkpoint; the file | restore, append, checkpoint, revert_to, clear | memory and file agree, also after a crash |
| Listener (`wire/listener.rs`) and registry (`live.rs`) | the socket, attached count, idle clock; one file per session | accept, handshake, idle watch; register, find, reap | an idle session ends, a used one does not; a live agent is lost from the registry only through another process of its session that ended, and nobody is sent to another session's |
| Background tasks (`tasks.rs`, `tools/{shell,agent,fork}.rs`, `tools/task/`) | a status, a file, a watcher and a waiter per task | start, watch, time out, stop, wait for, tell of | a task ends when its process does, whoever waits is woken, the agent hears of it |
| What reaches a soul from outside (`soul/kimisoul.rs`) | the queue of steers, the forks not yet told of | steer, prompt, slash commands, fork | what was accepted is heard; a fork is told of |
| Flow runner (`skill/flow`, `kimisoul.rs`) | the chart as it is read, the current node, moves | parse, validate, walk, choose | what was accepted can be walked, within its moves |
| Step generation (`kosong`, `soul/toolset.rs`) | the message under construction, calls, results | merge parts, run tools, retry | no tool runs for an attempt that was given up; what a step says is whole |
| File tools (`tools/file`) | the files, what the user allowed | read, tail, search, edit, write | an edit touches what it matched; nothing is written unasked |
| Table of tools (`soul/toolset.rs`) | whose tool a name is; the MCP servers, each with its status; the task that connects them | fill, connect, list, register and release a client's tools, wait, call | a turn begins with every server connected or failed; what a server listed stays its own |
| Cached backend (`kaos/cached.rs`) | the index of paths and its generation; the history of writes | write, mkdir, glob, exec, undo | a listing that is used is current; undo takes back what was written |
| Sessions on disk (`session.rs`, `metadata.rs`, `cli/mod.rs`) | the directories; `kimi.json`, shared by all agents | create, find, continue, list, migrate, delete; load, save | what was said is kept, and found again |
| Client session (`inkvizitor/src/session.rs`, `dvadva-tui/src/agent.rs`) | phase, prompt id, dialogs, the way back | drain_inbound, submit, cancel, reconnect | the screen agrees with the agent |
| Client window (`inkvizitor/src/app.rs`), remote link (`remote_link.rs`), transcript (`wire-client/src/transcript.rs`) | tabs, panes, overlays; a light, a probe, a tunnel; blocks | open, close, split, resume; connect, poll; fold | a pane keeps its tab; the light means the daemon; a replay shows what was live |
| Android client (`dvadva-android`) | connection, reader, screen, coroutines | connect, send, cancel, answer, handle | what the agent said is shown, once |
| Bridge (`remote/dvadva-bridge`) | its connections and the agents it started | attach, spawn, relay, refuse | a client joins the session it asked for; nothing it started is left behind |


They interact by method calls inside the process (connections to the core, the
core to the fan-out under its lock, the stream loop to both), by queues (soul to
wire to stream loop and recorder; fan-out to writers), by one-shot values with a
notification (a request and its waiter), by cancellation tokens, by files (the
recorder appends to the wire file which catch-ups read), and by JSON-RPC lines
between processes. What is hard in it: tasks interleave at every await and most
decisions are taken in one critical section and used in a later one; a catch-up
reads a file that grows under it; clients leave at any point; a turn may be cut
short anywhere; and only a timeout frees a turn whose stream loop waits for an
answer nobody will give. The list of these places, each with its line, is under
`hazards` in `PROJECT.json`.

## Modules

| Module | What it is |
|---|---|
| `SessionFeed` | abstract: what any client is promised. Facts are numbered; a client that joins sees the next ones in order, and nothing else |
| `Fanout` | the operations of `Fanout` as actions over `attached`, `open`, `staging`, `staged`, `queue` |
| `FanoutFeed` | `Fanout` under all its callers in any order; implements `SessionFeed` |
| `WireSession` | the session: fan-out (by `INSTANCE`), core, connections, catch-ups, turns, recorder, and the client at the far end of each connection |
| `WireSessionProps` | the properties of `WireSession` |
| `ApprovalPipe` | the approval broker, the tools that ask, the piping tasks of the agent loop, the one-shot answers |
| `ContextFile` | the operations of a context, write by write: the memory and the file |
| `AgentLoop` | extends `ContextFile`: the turns and steps that ask for those operations, D-Mail, compaction, what cuts them short |
| `StepGeneration` | the inside of one step: the streamed answer, its tools, its retries |
| `SoulInputs` | prompts, steers and forks around the runs of a soul |
| `FlowRunner` | a flow chart read statement by statement, validated, walked |
| `FileTools`, `CachedKaos` | files read, searched, edited and written by tools; the cache and the undo history below them |
| `ToolTable` | the names a model may call, filled by the agent, by a task that connects MCP servers, and by clients |
| `LiveAgents`, `AttachDaemon` | agents that listen and list themselves; extends it: the bridge daemon that joins clients to them |
| `BackgroundTasks` | tasks, their processes, watchers and waiters |
| `SessionStore` | the sessions several agents of one user leave on disk |
| `ClientSession` | a tab of a client against a small agent: connections, catch-ups, reconnects |
| `RemoteLink`, `Transcript`, `HubWindow` | the light of a remote; live against recorded transcripts; the desktop window |
| `AndroidSession` | the phone: its connections, reader and screen |
| `FanoutFeedProof`, `WireSessionProof` | proofs about the module each is named for |
| `LoopProof` | proofs about `AgentLoop` and the `ContextFile` it extends |
| `SoulProof` | proofs about `ApprovalPipe`, `SoulInputs`, `StepGeneration`, `FlowRunner` |
| `ToolsProof` | proofs about `CachedKaos`, `ToolTable`, `FileTools` |
| `ProcessesProof` | proofs about `AttachDaemon`, `BackgroundTasks` |
| `ClientsProof` | proofs about `RemoteLink`, `ClientSession`, `SessionStore`, `HubWindow`, `Transcript` |
| `PhoneProof` | proofs about `AndroidSession` |
| `MCFanoutFeed`, `MCWireSession`, `MCAgentLoop` | for TLC |
| `MCProcesses`, `MCServer`, `MCClients` | for TLC: sums of modules that share no state, one of them in each behaviour |

### `Fanout`, `FanoutFeed`

`attached` is the key set of the map of attachments, `open` the clients whose
queue has not been shut down (a queue outlives its attachment until its writer
drains it), `staging` and `staged` the `Option<Vec>` of an attachment. Every
method of `Fanout` holds one mutex from its first to its last line, hence one
action each. The three places that drop an attachment whose queue refuses a
message are modelled, and `NeverPruned` says that they are never taken. In
`FanoutFeed` a fact is its number and an answer to one client is 0: order, loss
and repetition are all a client could notice.

### `WireSession`

A step is what one task does between two awaits or under one lock. Lock scopes
decide the grain: `handle_prompt` tests the slot (`RefusePrompt`, `AdmitPrompt`)
and fills it (`StartTurn`) in two critical sections, so in two steps; the
snapshot of the open requests and the start of staging (`ReplayBegin`), and the
registration of a request and its broadcast (`StreamRequest`), each hold the
lock of `pending` and are one step; re-arming looks a request up (`RearmLook`)
and sends it later (`RearmSend`). A handler that awaits nothing else is one step.

The read loop of a connection handles one message at a time (`life[c]`); its
catch-up runs beside it as a task (`replay[c]`), followed through all its stages:
snapshot, turn query, file walk record by record over a file that still grows,
release of staged traffic, clearing of the slot, response, re-arm. The teardown
of a connection awaits its catch-up, gives back its tools, detaches. The soul is
abstract: it begins, asks, takes answers, and ends well, badly or cancelled; the
only end that says `TurnEnd` is the good one. The turn's messages go to the
stream loop (`raw`) and the recorder (`rec`) which proceed on their own.

The client is the code of `session.rs` that decides what the screen shows: the
phase, whether a prompt is outstanding, and how many dialogs it has armed for
each request. It takes a request for history while it replays, answers external
tool calls by itself, and drops its dialogs on `ApprovalResponse`.

`shelved` and `asker` are history: they are written and never read by a guard
of a modelled handler other than the soul's own bookkeeping.

Left out: what the messages say, steering (`SoulInputs`), plan mode, the messages that
arrive outside a turn (`BackgroundTasks`), acknowledgements no client reads, and clients
that break the protocol (no client in the repository asks for two replays on a
connection).

### `ApprovalPipe`

What `WireSession` takes as one step, "the soul asks", seen from inside. `queue`
is the broker's channel of requests and `line` the tasks that wait for its
receiver, which sits behind a fair mutex; `requests` and `verdict` are the map of
waiters and the value each will find. A tool runs `Approval::request` on a task of
its own: it looks at `yolo` and `auto_approve_actions` (`Ask`), queues the request
(`Put`), enters it in the map (`List`), and waits, and `PendingResponse::wait`
looks at the value before it asks to be woken (`LookAgain`, `Sleep`). A piping
task is named by the step that started it: it fetches, approves by itself what the
session allows, or sends the request on its turn's wire, waits the same way for
the client's answer, relays it, and goes to the end of the line. `EndStep` aborts
it where it waits; `CancelTurn` drops its handle and it lives on. `waved` and
`skipped` are history.

### `ContextFile`, `AgentLoop`

`plan` is what the soul has asked of its context, one operation after another under
the context's lock; `at` is how far the first one is, `due` the records it still has
to write, `source` what `revert_to` still has to copy. Memory changes where the code
changes it, before the file (`checkpoint`, `append_messages`, `update_token_count`),
after it (`clear`) or in between (`revert_to`), and every write is a step that a
cancelled turn, an error or a crash may follow. `file` is its records and `tail` how
it ends: a record and its newline are two writes, and `write_all` of a `tokio` file
returns while its last one is under way, so the newline of an operation that has
returned may still be `late`. Whether it is in time is decided when the next record
is written: `PutBehind` glues the two, and what was two records is none (`Junk`);
the newline of a copied record has its place, for `revert_to` does not open the new
file to append, and overwrites what came there (`PutUnder`).

`AgentLoop` is the loop of `kimisoul.rs`: `soul` says which await it stands at,
`GoesOn` takes it from one to the next once the context has done what it was asked.
A call of the D-Mail tool is a task of its own that outlives its turn (`calling`);
`mail` and `nCheckpoints` are `DenwaRenji`. Compaction is its three operations with
the messages `prepare` preserves. `Interrupt` is whatever ends a turn early, `Restart`
a new process that restores what the file holds. `torn` (memory and file may differ,
for an operation was cut) and `spoilt` (a conversation lost something with what cut
it) are history, and the properties say what each excuses.

Left out: two turns at a time (see `wire_one_turn`), steering and the notes of a fork
(`SoulInputs`), `/init`, and reads that fail. `MessagesOf`, what a file says the
conversation was, is a function on the numbers of its lines, so that it can be reasoned
about line by line.

### `LiveAgents`, `AttachDaemon`

A process is born, binds a port, publishes its registry entry, serves, and ends in the
order `Listening::serve` ends it (`EndAccept`, `Withdraw`, `Exit`), or is killed where it
stands and leaves its entry behind. Ports come back to other processes, pids do not.
`quiet` counts the looks of the idle watch, which stops an agent that nobody is attached
to and that works at nothing. `AttachDaemon` adds what the daemon does for a connection
(`phase`): look the session up, probe the address, reap an entry that does not answer
(`Read`, `Probe` and `Reap` are three awaits, and anything may happen in between), dial,
compare the session the agent says it hosts with the one meant, or start an agent and
wait for its entry until patience runs out (`late`). `Killed` and `GivesUp` are the ways
out of `start_agent` that take the child down. The token of the handshake is left out.

### `BackgroundTasks`

`monitor` follows the task that watches a process: a shell's reads two streams, a deadline
and a kill channel in one `select!`; a subagent's reads its wire. `status` and `file` are
set by `complete` and by `kill`, which do not agree on an order. `waiter` is `TaskOutput`:
it arms its wait, looks again, sleeps. `turn` says whether the wire of the turn that began
the task is still open, and `told` where the news of its end went. The text of the output
is left out.

### `SoulInputs`, `FlowRunner`, `StepGeneration`

`SoulInputs` follows one run of a soul, from the moment the server fills the `cancel_token`
slot until it clears it: forks are looked at first, then a turn, a command or a flow, with
a hearing of the steer queue after every step and one more look before a turn ends. A
steer is accepted in two steps, for the server looks whether a turn runs before it queues.
`midStep` is history: the steers queued while a step of the turn ran.

`FlowRunner` reads a chart one statement at a time, as both parsers do once their scanners
have made statements of lines; `AddNode` keeps the first definition and refuses another
that says otherwise, a node with labelled edges becomes a decision, `ValidFlow` judges,
and the runner walks with answers that choose, choose wrongly or do not choose. A Ralph
flow is built directly. `NodeIds` and labels are strings since their text decides, and a
blank in them is written `_`. `Reachable`, a queue and a set of visited nodes in the code,
is the least set that holds the start and is closed under edges.

`StepGeneration` is one request to the model and the tools it calls: `answer` is what the
streamed message has received and not handed on (calls are put together by index and
flushed when the end is announced), `pendingPart` and `message` are `generate`'s, each
call's tool is a task, and the forwarding task of `KimiSoul::step` picks from two queues
in either order. Errors that can be retried begin another attempt, `StepCut` is a cancel.

### `FileTools`, `CachedKaos`

The readers of `FileTools` are operators, `ReadForward`, `ReadTail` and `Grep`, compared
with what they should show: by TLC over all files of up to `FileLines` lines, by proof over
all. A loop of the code over lines, matches or edits is a recursive function of how far it
has come (`LinesTaken`, `LinesSearched`, `Replacing`, `EditsMade`), each value one pass
through the loop's body (`TakeLine`, `GrepLine`, `ReplaceLine`, `MakeEdit`) from the one
before. Writing and editing are actions, because the user is asked in between: a call
reads, computes what it will write (`ApplyEdits` edit by edit), is allowed, refused or
already approved (`granted`, by the action's name that `ActionOf` chooses), and writes.
Lines stand for the sizes and encodings that matter; a pattern matches a whole line.

`CachedKaos` counts `mutations` on both sides of a change; a scan reads the count, walks,
compares, publishes, each an await apart. A write first looks at what is there and pushes
it on the bounded `undoLog`, then lands or fails; `undo` holds the history through all its
steps. `excused` is history: paths whose record was evicted, too large, not readable,
changed by a command, or written while they were undone.

### `ToolTable`

`table` says whose tool a name is, `external` which names clients have brought and `owners`
which client (`KimiToolset::tools` and `external_tools`, `SessionCore::tool_owner`), and
`attached` the connections that have not yet given their tools back. `status`, `listed` and
`toConnect` are the MCP servers: what became of each, the tools it named, and the list
the task (`loader`) works off one server after the other, an await at a time. `loadingTask`
is the handle the first turn takes and waits for (`turnAt`); a turn that is cancelled there
leaves the task running and the next one without a handle, which `cutShort` remembers. A
`call` keeps the tool it found, whatever becomes of its name. `overlaid` remembers the
names that were a client's when a server brought them: the client takes them along when it
leaves. What a server's tool does and the checking of arguments are left out.

### `SessionStore`

`Agents` are processes with a command line each: a new session, a named one, `--continue`,
or a subagent's context file. `resolve_session` looks (`Look`), opens or migrates; `Create`
makes a directory and an empty context; a turn leaves records; `/clear` renames and begins
anew in two steps; `post_run` loads `kimi.json`, judges whether the session is empty,
deletes it or records it as the last, and saves. `kimi.json` is written through one
temporary file that all agents share: `tmp` is that name, and a writer that has it open
(`fd`) keeps writing to the file when another renames it. Any step may be a process's last.
`shared` (sessions two processes were in at once) and `overlapped` (two saved at once) are
history, and the properties say what each excuses.

### `ClientSession`, `RemoteLink`, `Transcript`, `HubWindow`, `AndroidSession`

`ClientSession` is a tab over several connections: `drain_inbound`'s handlers, the prompt
and dialogs, the automatic attempts with their thread, the button. At the other end is an
agent reduced to what a tab can notice of it: turns of its own and of others, requests,
a catch-up that looks at the beginning whether a turn runs and hands over what is open at
the end (`WireSession` has the inside of this). A connection may break and an agent go.

`RemoteLink` is the light: what the user wants, the probe on its thread, the tunnel's
process, and time as "later" and "now". `Transcript` folds a stream of fragments twice,
live and through the recorder's merge buffer. `HubWindow` is the window's tabs, panes
and overlays, which key or click reaches which of them, and the list of past sessions of
two machines. What it draws is left out.

`AndroidSession` keeps each connection apart (`conns`): the lines on the wire, in the
reader's buffer, in the channel to the main thread. The view model's coroutines run on
that thread up to where they wait for a line to be sent (`jobs`, `Sent`, `Resumed`), so an
answer may be handled before the coroutine that asked goes on. Ids begin anew with every
connection. The agent says what agents say, of that connection. The open dialogs are a set:
every request has an id of its own, and which dialog is on top matters to nothing else.

## Properties

Every module states the types of its variables (`TypeOK` and its like), most of which are
proved; the properties that runs check are these.

*The fan-out and the session*

- `NeverPruned`, `FeedSpec`, `EveryFactArrives` (`FanoutFeed`): no attachment is dropped
  silently; the fan-out implements its feed; every fact arrives, given writers that run
  and walks that end. `AccountsBalance` is the invariant behind them, see Proofs.
- `SnapshotXorStaged`: an attaching client gets a request from the snapshot or
  from the staged traffic, never both.
- `ParkedIsAnswerable`: no path takes a request off `pending` without resolving
  it, or a stream loop would be parked for good.
- `ArmedUnlessShelved`: a client that caught up can answer every open approval, but for
  those its own catch-up filed as history.
- `PromptInOnePlace`: an outstanding prompt is on its way up, admitted, running
  as one turn, or answered in the queue: never lost, never answered twice, never
  answered to somebody else, with overlapping turns too.
- `ToolsAreServiceable`: a registered external tool has one owner, which still
  serves its connection.
- `DeafOnlyWhileReplaying`: a catch-up ends its staging whatever cuts it short.
- `CancelEnds`, `StopEnds`, `ReplayEnds`: liveness. A cancelled turn ends, with its stream
  loop parked too; a stopped session lets everybody go; a replay is answered.

*The soul*

- `NoRunWithoutConsent`: no tool runs on an approval nobody gave, though tools and
  piping tasks read and write the session's approvals at their own pace.
- `RequestInOnePlace`: a request is queued once or carried by one piping task, and
  while its step runs it is not lost, but for a request that was answered before
  the broker listed it: that answer finds nobody, and the tool waits.
- `FileCatchesUp`: once the operation under way has written what it owes, the file
  says what the memory says (history, token count, next checkpoint), through every
  rewind, clearing and restart. The excuses are an operation cut where the two differ
  (`torn`) and two records glued by a late newline (`Intact`).
- `CallsAreAnswered`: the model is never asked with a tool call that lacks its result,
  or the other way round, wherever rewinds and compactions cut the history, as long as
  nothing was lost with what was cut: half a step that was recorded is (`spoilt`).
- `RewindLands`: a rewind leaves the checkpoint it was sent to as the next one to
  take, for mail from a step that was cut or retried and after a compaction too, as long
  as no rewind was cut in its copy, nor memory lost that the file does not hold (`spoilt`).
- `SteersAreHeard`: a turn that comes to its own end has heard what was said to it while
  its last step ran.
- `ForksAreKept`: a fork that is listed stays so until the model was told of its end.
- `FlowIsSound`: from every chart that validation lets through, wherever the walk comes
  the node is known and there is one way on or a choice that names one; turns and moves
  are accounted for.
- `StepIsWhole`: no tool has run for an attempt that was given up, and a step that ends
  well has told the clients every part and call of its message, and each call's result.

*Tools, files and processes*

- `EditsTouchOnlyTheMatch`: what an edit call would write is the file with every edit made
  in turn: there is a set of places that match, one or as many as fit without overlapping,
  whose lines gave way to the new ones while every other line is as it was, at the number
  the places before it move it to (`Makes`, `Replaces`).
- `ReadersMissNothing`: forward reads and tails, wherever the reading breaks off, and
  searches show the lines they say they show, some whenever some were read, and say so
  when they leave out some of those.
- `ChangedOnlyAsAllowed`: a file changes only into what one call computed from what it had
  read, or by a call that adds to its end, and only if the user was asked for that call or
  has approved of that action for the session.
- `TurnSeesItsServers`: a turn that has waited for the servers finds each connected or
  failed, and what a connected server listed is served by a server, whatever clients register
  and release, but for names that were a client's before.
- `IndexIsCurrent`: a listing that would be used lists what there is, whatever changed
  while it was walked.
- `UndoTakesBack`: undone to the bottom of the history, every file is as it was.
- `SleeperIsWoken`, `WatchedTaskEnds`: nobody sleeps through the end of a task; a task
  whose process is gone ends, if its monitor does not die.
- `JoinedIsAsked`, `RefusedLeavesNothing`, `ServedIsListed`, `AttachEnds`: whatever
  agents start, die and take ports over meanwhile, a client is joined to the session of
  the entry it is told, which is the one it asked for if that was found running, else the
  one its arguments name, if any; of the agent that a refused attach started no process,
  port or client is left (its entry may be, for a reader to reap); the session of an agent
  that serves is listed unless another process of that session has ended (a reader that
  had found that one dead removes what was written since); and a request to attach ends.
- `SessionsAreKept`: what was said stays in its session, and the session `--continue` goes
  for is one of those, crashes and concurrent agents included; `kimi.json` is whole while
  one process at a time saves it.

*Clients*

- `PromptIsAnswered`: a tab that waits for the end of its prompt is going to hear of it,
  or of the end of its connection.
- `LinkFollowsTheUser`: a remote the user has left stays dark whatever probe was out; one
  that is wanted is probed again.
- `ReplayShowsTheSame`: the recorded messages, folded, show what the fragments showed.
- `PanesKeepTheirTab`: a pane nobody acts in keeps its tab, whichever tabs close.
- `AndroidShowsAll`: each line the agent said is handled once and in order, from the one
  that came with the daemon's frame on, and is on the screen.

Definitions whose comment says that they do not hold are kept beside these: each is what
a comment, a text or a reader would have the code do, and its counterexample is under
"Met while modelling" below.

## Runs

| Run | Bounds | Shows |
|---|---|---|
| `fanout_feed` | 2 clients, 3 facts, answers while a queue is shorter than 2 | all of the fan-out; refinement of the feed, and that every fact arrives |
| `wire_attach` | 1 veteran and 1 newcomer, 1 turn, 1 approval, cancels, 2 messages in flight per client | attaching at any point of a turn that asks |
| `wire_prompts` | 2 newcomers who may hang up, 2 turns, an external and a builtin name | racing prompts, refused and admitted; claims of tools, and their release when an owner leaves |
| `wire_ends` | 1 client, 1 turn that may fail, cancel, interrupt, hang-up, shutdown | every end, and every order of ends |
| `agent_loop` | 2 turns or slash commands, 2 steps in all, 1 late newline in the first turn before its last step, usage 0 or 1 with compaction at 1 | every operation cut at every await, D-Mails across turns, compactions and restarts |
| `server` | 2 calls over 2 steps, 2 actions; 2 paths, 2 writers, 1 reader, 2 writes, 2 undo entries; 2 steers, 1 fork, 3 runs; charts of 4 statements over 3 ids and 4 labels, 2 moves; 2 attempts, 2 calls, 4 events; 2 files of up to 3 lines, 1 edit call, 1 write call; 2 names of tools, one the agent's, 2 clients, 2 servers named 3 times at most | the parts of the agent that share no state, one per behaviour |
| `attach_daemon` | 1 connection, 2 agents, 2 sessions, 2 ports, 1 idle look; 1 task | what is found, joined, started and left behind; and tasks, with what must end |
| `clients` | 2 turns, 2 dials, 1 attempt; 3 tabs, 2 panes; 5 messages with 2 calls; 2 phone connections, 2 lines, 2 requests each; 2 agents, 2 directories, 2 ids and a subagent's, 1 record | the clients, and the sessions on disk, one part per behaviour |
| `wire_one_turn`, `client_watch`, `server_tasks`, `soul_forks` | as small as the disagreement needs | Findings |

Why the bounds are enough: the races of this code are between two actors (two
prompts, a catch-up and a turn, an owner leaving and a claimant, two writers, two agents
of a user), two turns are what it takes for one turn's leftovers to meet the next, and one
request is what it takes to park a stream loop. A context needs a turn that leaves
something behind and one that meets it; without late newlines, 3 turns with 2 steps and 2
turns with 3 hold too, but take longer than a run should. A chart of four statements has a
way in, a way out, a branch and one thing wrong with it. A registry entry needs an owner
that dies and one that takes its port. The properties among these that are proved
(all but those listed at the end of Proofs) hold for any number.

What bounds the amount of events: `MaxTurns`, `MaxUplink`, `MaxFacts`, `MaxQueue`,
`MaxAsks` and `MaxLate` (session and loop); `MaxSteps` (approvals); `MaxWrites`,
`MaxRuns`, `MaxTurnSteps`, `MaxStatements`, `MaxRalph`, `MaxBadReplies`, `MaxAttempts`,
`MaxCalls`, `MaxEvents`, `MaxServers` (`server`); `IdleLooks` (how often an idle watch
looks before it stops its agent); `MaxDials`, `MaxSent`, `MaxTabs`, `MaxTabIds`,
`MaxPanes`, `MaxDialled`, `MaxLinesSaid`, `MaxJobs`, `MaxRecords` (`clients`).
`MaxTokens`, `MaxUndoEntries`, `MaxUndoBytes`, `MaxFlowMoves`, `MaxLines`, `MaxLineLength`
and `MaxBytes` are limits of the code itself, small. Deadlock is not checked: a session
that nobody uses stops, and so does one that was shut down, and every other part comes to
rest when nobody asks for more.

What bounds which of them are explored is stated in the MC modules, as a conjunct of the
move it bounds, or in `wire_prompts` as the constraint of the run:

- `MCWireSession`: in `wire_prompts` the last turn does not begin once somebody has left
  (`OneTurnLessIfSomeoneLeaves`).
- `MCServer`: texts have a padded line at the top only; a label with blanks is the last
  that is read (`BlanksLast`), the label `b` comes after an `a` (`FirstLabel`: swapped, the
  charts are the same); where somebody writes uncounted, nobody walks, and some path
  can still be told of (`WorthWriting`, since `IndexIsCurrent` says nothing there and
  `UndoTakesBack` only of the other paths); with files of `FileLines` lines one call is
  made, with shorter ones two (`RoomForBoth`).
- `MCClients`: a window begins at a tab of this machine; two of what can lie over its panes
  lie there at once (`OverlaysKept`); with a second connection the phone hears lines of
  seven kinds, with one of all (`SortsKept`); one directory holds a session of an earlier
  version or none does, and not both processes die (`OneLives`; their deaths change only
  themselves).
- `MCAgentLoop`: the late newline is one of the first turn's, before the last step
  (`LateAtFirst`, in `BoundedLoop`), so what it does is met by the turn after.

None of them touches the modules that the theorems are about: what the theorems state holds
without these bounds.

Where two names could be swapped, one of them comes first: the call that asks and the writer
in `server` (`FirstAsks`, `FirstWrites`), the agent, the session and the port in
`attach_daemon` (`AgentsInOrder`, `SessionsInOrder`, `PortsInOrder`), the directory in
`clients` (`FirstHere`). Each behaviour left out is one that is kept, with names swapped.
`Symmetry` (two agents in `clients`) and `Newcomers` (two clients in `wire_prompts`) are used
in runs without liveness only; the sets are neither ordered nor chosen from.

Fairness (`Fairness` in `WireSession` and `FanoutFeed`, `ProcessFairness` in
`MCProcesses`): the runtime schedules every task that can run, a client drains its socket,
a select takes the branch of a token that is cancelled, and a file walk proceeds; a
daemon's awaits return or run into their deadline, an agent that starts goes on, stops or
is killed, and a monitor takes the branch of its `select!` that is ready, the deadline in
the end. The stream of a subagent that is gone ends, for what it starts has pipes of its own
(`MustWatch`); a subagent that lives owes no end of its turn. Nobody is owed a keystroke, an answer to a dialog, the end of a turn that is not
cancelled, or the end of a process that nobody kills. The half second that the turn driver
gives the stream loop is modelled by what it is for: the loop outlasts it only if it is
parked.

## Findings

Runs whose property quotes the repository and is violated:

- `wire_one_turn`: `server.rs:73-74` says one soul runs one turn at a time; the
  slot is tested (682) and filled (710) under two locks, and two prompts pass.
- `client_watch`: `server.rs:1038-1041` says a client that catches up is told that a turn
  runs and then that it ended; only a turn that ends well says `TurnEnd`
  (`kimisoul.rs:1155`), so a watcher of one that is cancelled stays Running.
- `server_tasks`: `shell.rs:440` says the agent will be notified when a command completes;
  a command whose stderr ends before its stdout has its monitor poll a finished future
  (`shell.rs:385`) and panic: the task runs for ever.
- `soul_forks`: `kimisoul.rs:630-633` says a completed fork surfaces at the next turn; the
  last 8000 bytes of its output are cut wherever they begin (678), which panics inside a
  character, in that run and in every later one.

Met while modelling, without a run of their own. Those with a definition name it.

*Session.* `OpenIsArmed`: a request raised during a catch-up reaches the newcomer before
the response that ends it and is filed as history (`server.rs:804-805`).
`WorkingIsNeverIdle`: a request left in `pending` by a cancelled turn makes a later turn
read as parked (`server.rs:168-169`, 904). A client is in the fan-out before it
initializes (198), so a request broadcast in between is armed twice; both dialogs come
down together. A request answered between the look of the re-arm and its send (1125) is
armed as a dialog nobody waits for. `PendingResponse::wait` looks before it listens
(`types.rs:117`).

*Approvals and wire.* `ShownToItsTurn`: the piping task of a cancelled turn lives on,
takes the next turn's request and puts it on its own closed wire (`channel.rs:124-127`).

*Context and loop.* `MarksAreCheckpoints`: compaction preserves a `CHECKPOINT n` message
and starts the numbering again, so the model reads marks of a numbering that is gone
(`dmail.md:3`). Two records glued by a late newline make `restore` stop there, and
`app.rs:153` ignores its error. A checkpoint whose record could not be written, or a
`/clear` cut between its rename and its `create`, leaves ids in memory that the file does
not have; a D-Mail to one copies the whole file and rewinds nothing. A step cut between
its tool calls and their results leaves calls nobody answered (`spoilt` marks these).

*Steers, commands, forks.* A steer accepted between the filling of the slot and the turn's
beginning, between the turns of a flow, during a slash command or after the last hearing
is acknowledged and then cleared. `/model` waits for the write lock of `llm` while a
concurrent turn that holds it for reading asks for it again. A run cancelled in
`surface_completed_forks` tells of forks again; a `/fork` cancelled between its spawn and
its push is never told of.

*Flows.* `RalphKeepsCount`: answers that choose nothing are asked again uncounted
(`cli/mod.rs:204`). A flow whose `BEGIN` leads back to itself spins without an await. A
label with blanks around it or a `<` can never be chosen. The D2 scanner takes bytes for
characters in edge labels. Mermaid statements that cannot be read are ignored.

*Generation.* The end announced by `finish_reason` ends the reading, so usage that comes
in a later event is lost; a character split over two chunks is corrupted; a last line
without a newline is ignored; a result may be told before its call; what a failed attempt
said is said again by the next; one of two calls with the same id loses its result.

*Files.* `OnlyWhereItIsOnce` (`replace.md:4`): the first match is replaced when there are
several. `OutsideIsVerbatim` (`replace.rs:292-296`): invalid UTF-8 anywhere in a file is
rewritten by an edit. `LongLinesAreCut` (`read.md:3`): bytes are cut, and a cut inside a
character panics. `EndIsTheEnd` (`read.rs:217`, `:224`): an error that breaks the reading
off is dropped, and the lines before it are reported as the whole file. `NoChangeIsLost`:
two edits of one file computed side by side both succeed, and the later undoes the earlier.
Replacing a text by itself everywhere reports
that it was not found; the error for one that was not found slices 40 bytes of it. A
search limited to 0 lines shows one. "Max lines reached" is never said, for the default
limit is the maximum.

*Table of tools.* `OnlyExternalIsRemoved` (`toolset.rs:105-108`): the tool a server brought
under the name of a client's goes when that client does.

*Cached backend.* Background commands and subagents never count as changes; an undo that
races a write forgets it.

*Tasks.* `AgentIsTold`: between the look at the wire and the sending the wire may be closed.
A command's notification goes to the wire of the turn that began it, open or not. The
monitor overwrites the status `TaskStop` has set. After the end of stdout neither deadline
nor kill is heeded. The 3600 seconds of a subagent are not enforced; its stderr is never
read. `TaskStop` after the panic kills nothing.

*Agents and bridge.* `OneWriter` (`live.rs:20-22`): two processes can host one session and
write one entry. The idle watch samples attachments, so a client between its last look
and the stop is let in and let go.

*Sessions on disk.* `NeverHalfWritten` (`metadata.rs:174-175`): two that save at once
share one temporary file. `ContinueFindsOne` (`cli/mod.rs:66`): a subagent that ends is
the last session, and `--continue` does not find it; nor does it one whose `/clear` was
cut. Two migrations of one legacy session: the second panics. Load and save are far apart,
so one process overwrites another's last session.

*Clients.* `ComesBackToItsSession` (`session.rs:35-37`): when the agent of a remote tab
opened without `--session` is gone, the bridge starts one from the same arguments, and the
tab comes back to a new session. `OneWriterHere` (`app.rs:369-370`): a session is looked
for in a list read earlier, and started again by a second tab. A tunnel's exit leaves the
light on until the next probe. The cursor of the list of sessions is not clamped, and rows
can be chosen while others load. `RunningIsATurn` (`SessionViewModel.kt:284`),
`DialogsAreOpen`, `DisconnectedStaysSo`: on the phone a cancelled or failed prompt never
leaves Running, nor does one whose coroutine resumes after its `TurnEnd`; an older
connection's lines are handled by the newer one's session, and ids repeat on both; text
sent twice quickly is two prompts; a write to a closed socket is an uncaught exception.

## Proofs

Eight modules hold theorems about the specifications of the components, for any sets of
connections, requests, calls, files, agents and so on, and for any bounds. What they
assume is what the modules name with `ASSUME`, which TLC evaluates in the runs: bounds are
numbers; "none" is not a member of what it stands for the absence of
(`ConstantsAssumption`, `ApprovalAssumption`, `HostAssumption`, `StoreAssumption`,
`TableAssumption`); there is a tab and a pane, and the sessions saved on a machine
are finitely many numbers (`WindowAssumption`), and so are the ids of a chart (`FlowAssumption`); a
run has room for a step (`InputsAssumption`), a request for an attempt (`StepAssumption`),
a context for a token (`LoopAssumption`); an edit call is no write call
(`ToolsAssumption`); the names the agent brings along are names (`TableAssumption`). A
specification that runs check as part of a sum has a name of its own in its module
(`LoopSpec`, `StepSpec`, `InputSpec`, `FlowSpec`, `StoreSpec`, `HubSpec`, `TabSpec`,
`LinkSpec`, `TableSpec` and so on), and the theorems are about that one.

Each proof has the same three facts: the strengthened invariant holds at the start, every
action keeps it, and it implies the property. There is one step per action, and below it one
per conjunct that the action can disturb. What is worth reading is the strengthening.

- **Fan-out implements its feed** (`FanoutIsAFeed`). The refinement mapping is the
  identity on `published`, `joined` and `seen`; a step of the writer is the abstract
  step only if the head of a queue is the next fact its client has not seen. That
  is `AccountsBalance`, whose three parts are the inductive invariant: `MapsOK`
  (who is attached has an open queue, who stages is attached), `HeldBack` (what is
  staged is the facts since the catch-up began, in order) and `InTransit` (the
  facts in a queue are those flowed and not seen, in order, answers in between).
  The lemmas on `Carries` say how it behaves under `Append`, concatenation and
  `Tail`. `NothingIsPruned` is an action property from the same invariant.
- **Session.** `TypeCorrect` is by one lemma per group of tasks. `ParkedIsAnswerable`,
  `TokenIsLive` and `ToolsAreServiceable` are inductive given types. The others are not:
  `DeafOnlyWhileReplaying` needs `SlotIsHeld` (a catch-up in progress holds its
  connection's slot) with `StagingIsReplaying` (who is staged for is at a stage of
  the catch-up between its begin and its release); `SnapshotXorStaged` needs in
  addition that a request in a turn's stream is there once (`RawIsOnce`), has never
  been pending (`RawIsUnheard`), and that one nobody asked was heard by nobody
  (`RaisedBeforeHeard`): a request in the snapshot cannot come down the stream again.
  `PromptInOnePlace` is, given `Plain` (an absent connection has nothing under way, what
  is staged is traffic, who does not catch up holds no snapshot), a `Ledger` for each
  connection whose three lines balance: what an initialize, a replay and a prompt may be at
  (on the way up, in the handler, in a turn, answered in the queue) adds up to one if the
  client waits for it and to none if not. `ArmedUnlessShelved` needs that an answer on
  the wire was given (`TrueRecord`, in every queue and in the file), that an open request
  has none (`OpenIsUnanswered`), and that for every open request a client's dialog is
  armed, or still to come from the snapshot of its catch-up, the re-arm or the queue, unless
  its answer is on the way up (`DialogsAreKept`).
- **Approvals** (`SoulProof`). `Hands` (a piping task that carries something holds a request, a
  waiting one does not and stands in line) joins `TypeOK`. `ConsentInv` says it of
  the broker's state: whatever is in `auto` or in a `verdict` goes back to a reply.
  `PlaceInv` adds to `RequestInOnePlace` that what has not been put anywhere is
  nowhere, and that no call belongs to a step that has not begun.
- **Context and loop** (`LoopProof`). A rewind is read back from the file, so nothing short of
  an invariant about the file will do. `Story` is the file with what is owed to it; `Good`
  says that every checkpoint in it before which no line is spoilt is numbered by what stands
  before it, that all earlier ones are there, and that what stands before it is a
  conversation whose calls and results come in pairs. With `OpInv` (where the operation
  under way is, and what it has in hand), `PlanInv` (what the soul may have asked for, from
  where it stands), `CopyInv` (a rewind has not yet met the line it stops at, which is still
  ahead) and `Remembers` (memory is what the story tells), `FileCatchesUp`, `RewindLands` and
  `CallsAreAnswered` follow. The arguments over the lines of a file go by the least and
  the greatest member of a set of line numbers (`LeastOf`, `GreatestOf`), since an induction
  theorem that takes an operator is out of reach.
- **Inputs, generation, flows** (`SoulProof`). Steers: the queue is the set of those that are
  queued. Forks: the one loop that surfaces them has each listed fork still to look at, or
  keeps it, or has told of it. A step: a tool that runs was called by the message of this
  attempt after an answer that was complete (`CallInv`), and all that the message is made of
  was told or is on its way (`ToldInv`). A flow: the nodes and edges of a chart that is still
  being read lead to nodes (`ChartInv`); what validation accepts has a set of nodes that holds
  the start and is closed under edges, in which each has a way on (`RunInv`); turns are
  moves and bad answers (`MovesInv`).
- **Tools** (`ToolsProof`). Index: a scan's generation is the count of mutations only if what
  it has seen and what is left are all there is, and these two are disjoint, which the first
  attempt lacked (`IndexInv`). Undo: what a file was is what the oldest record of it in the
  history says, or the file itself (`UndoInv`); the caps hold (`HistoryInv`). The table:
  `LoaderInv`, `TurnInv` and `NamesInv` follow the task, the handle and the names.
  `ChangesAreAllowed` is an action property: a call that has begun was asked about, or its
  action is granted, so whoever writes may. The edits: what is inductive over calls is that
  each one under way has computed what its file and its edits give (`EditsInv`); what is
  hard is one call's loops. A scan that replaces keeps a set of places with what it has
  made so far: none that matched was passed over but for an overlap with one that was taken
  (`Settled`), and the text so far is what replacing these makes of the lines so far
  (`MadeUpTo`). A page under way has taken the lines from its offset on and stopped at
  the first limit met (`TakingOK`); a search holds back the last lines before, owes so many
  lines behind the last match, and has shown the rest of what is wanted (`SearchOK`). That
  the functions are defined at every line, and that what one pass keeps holds after all,
  is in `RunExists` and `StepByStep`: an induction over a set of numbers instead of a
  predicate, by its least counterexample.
- **Agents, bridge, tasks** (`ProcessesProof`). A registry entry is `Trusted`: the process
  it names has published it, hosts that session, and has that port or none (`HostInv`). A
  connection knows what it looked up, probed and dialled, and has a child only while it
  waits for one (`ConnInv`); a client is in an agent's list only if the sessions agree
  (`ServedInv`), and one that is gone has none (`HostInv`); a session without an entry
  whose agent is registered has had another process that has ended (`ListedInv`): what was
  read before a reap was written by one, and an end is for good. `SleeperIsWoken` needs that a status is taken from "running" only by one
  who goes on to wake the waiter.
- **Clients and the sessions on disk** (`ClientsProof`). The tab: what comes down a
  connection is in order (`LineInv`: the greeting first, one end of the replay, the end of
  the connection last), and a connection that is gone has said so or nobody counts on it
  (`GoneInv`). The light: `LinkInv`. Sessions: what is on disk for each session
  (`DiskInv`), who is alone in one (`AloneInv`), what a last session may be
  (`PointedInv`), what an agent that holds an entry read earlier may write back
  (`EntryInv`), and that a process which saves alone has the temporary file for itself
  (`SaveInv`). The window: an id is in one tab only, and every action opens, closes, turns
  to or splits. The transcript: `ReplayShowsTheSame` is inductive once what is buffered is
  known to be a part of a text or of a call, and the lemma it stands on is about the fold
  alone: two fragments that the buffer merges fold to what the one merged from them folds to,
  on any blocks (`MergedShowsTheSame`), since the block the first one opens or lengthens is
  the one that the second one finds (`ContentMerges`, `PartsMerge`, `CallTakesPart`).
- **Phone** (`PhoneProof`). `PhoneInv` has these parts: what was said on a connection is what was handled, what is in the
  channel, in the reader's buffer and on the wire, one after another, and before that the
  daemon's frame is the first line of buffer and wire (`FeedInv`, which says nothing of where
  one read ends and the next begins); connections are dialled one after another and the
  client is of one that was answered (`DialInv`); the screen shows what was handled of the
  last one, unless a line of an earlier one was handled after it was dialled (`ScreenInv`).
  A line more is shown because its block is found: a call's by the one open call with that number, since
  calls and their results are said once (`SaidInOrder`), a text's at the end.

The attempts also changed what is said: `MaxTurnSteps` must be at least 1, for a turn
without a step hears nobody; and most of the parts named above were found where a step did
not keep what was there before it.

Only model-checked: `EveryFactArrives`, `CancelEnds`, `StopEnds`, `ReplayEnds`,
`WatchedTaskEnds` and `AttachEnds` (liveness under fairness, out of the prover's reach).
Every invariant that the passing runs check is stated by a theorem, and so is every
property of theirs that is not liveness. What does not hold is under Findings, with TLC's
counterexamples.

## Not modelled, and why

- Chat providers other than their stream and their retries, what MCP servers and web tools
  do, the local and SSH execution backends, the foreground shell: I/O whose state is on the other
  side or within one call.
- Agent specifications, configuration and the command line: read once at the start.
- Drawing, formatting and wording, in all clients; the terminal client's screen. Its
  session is that of `ClientSession`.
- Plan mode, `/init`, and hooks of single tools (todo list, think): flags of one turn.
- Globbing beyond the index it uses, and the arithmetic of fuzzy matching: `FileTools` has
  lines that match or match but for blanks.

`components` in `PROJECT.json` says it part by part.

## Plan

Done: the session, approvals, context and loop, live agents and the bridge, tasks, what
reaches a soul, flows, generation, the table of tools, file tools, the cached backend,
sessions on disk, and the clients; and proofs for all of them. What is left, in this
order:

1. The cached backend as a refinement of a file system without a cache, from
   `IndexIsCurrent` and `UndoTakesBack`.
2. Composition: the out-of-turn queue with `WireSession`'s turns (a task that ends
   between turns, told of while a client catches up).
3. The foreground shell, plan mode.

Runs stay few: modules without shared state are checked as a sum, one run whose
graph is the union of theirs.
