# A verification project for sermcp

`sermcp` is a server that lets coding agents work on an embedded board (the
DUT) through the serial port that a ser2net host exports over TCP. It runs
their commands in the DUT's shell, watches the board boot and crash, archives
its logs and presses its buttons. `dutabo` is the command line of the human,
whose `dutabo serial` takes the same line over. This directory holds TLA+
modules that model the server's own logic, TLC configurations that check them
and TLAPS proofs about them. Every definition is translated from the Rust
source under `src/sermcp/src/`; paths below are relative to it.

Contents: [the system](#1-the-system), [the plan](#2-the-plan),
[the modules](#3-the-modules), [the runs](#4-the-runs),
[what the code gets wrong](#5-disagreements-between-the-code-and-its-own-words),
[the proofs](#6-the-proofs), [what is left out](#7-what-is-left-out),
[how to run it](#8-running-it).

## 1. The system

One server process serves the DUTs of a project. Every DUT has a
`SerialEngine` behind a tokio mutex; a handler (a tool call, an iteration of
the read loop, a tick of the watchdog, a signal) takes the mutex and runs to
its end, or to an `await` that keeps the mutex. Beside the mutex there are the
lock-free `EngineFlags`, which a guard reads before the mutex is taken.

| component | state it keeps | operations | what makes it correct |
|---|---|---|---|
| command queue (`command_queue.rs`) | the command on the line, those waiting, marker and spill buffers, counters | `execute`, `feed_serial_data`, `check_timeouts`, `cancel_all`, `dequeue_next` | every command is answered once, in order, with its own and its whole output; the queue never stalls |
| command tool (`mcp_handler/command_tools.rs`, `mcp_handler.rs`) | a oneshot receiver per call | guard, queue, wait with a timer, give up | callers are released; no agent writes while a human has the line |
| endpoint lock (`lock_manager.rs`) | the lock file, its inode, kernel lock and recorded pid; `HELD_LOCKS` | `acquire_lock`, `release_lock`, `lock_identity_intact`, `endpoint_lock_owner` | one holder per named file; the recorded pid is the holder's |
| serial engine (`serial_engine.rs`) | connection, ownership, target state, backoff window, latched fault, tasks | `start`, `stop`, `retire_from_project`, `claim_serial`, `yield_serial_for_human`, `resume_serial`, `read_loop_iter`, `watchdog_once`, `set_ws_tx`, `clear_ws_tx`, baud, reset and power tools | one user of the line; a fault stays latched; a lost line is regained |
| WebSocket relay (`mcp_http.rs`) | the attached client | upgrade, attach, relay, detach | a human's terminal is his alone |
| direct session (`bin/dutabo.rs`) | the lock, the owner it asked to yield | ask, lock, connect, leave, restore | the human gets the line and gives it back |
| engine registry (`engine_registry.rs`) | the engines of a project | select, signal policy, `reconcile_saved_config`, stop | a DUT that left the configuration is released and stays released |
| target state (`state_manager.rs`, `dut_state.rs`) | state, last data, last probe, missed heartbeats | `transition`, `on_activity`, `check_hang`, state files | DUT-off only after so many unanswered probes |
| reconnect backoff (`reconnect.rs`) | backoff, counters | `next_delay`, `reset` | bounded, grows, starts afresh |
| console (`console.rs`, `telnet_filter.rs`) | socket, write channel, RFC 2217 state | connect and audit, write, read, baud | writes leave in order, or are dropped whole |
| initialisation form (`bin/tui_init.rs`, `init.rs`) | tabs of hosts and DUTs, a text per field and position, the file it was opened with | add and remove tabs, type, resolve the answers, pair them with the entries, edit by index | a text stays with its tab; the file says what the form shows and keeps what it does not show |
| saving the configuration (`init.rs`, `mcp_http.rs`, `engine_registry.rs`) | `.target.jsonc`, its temporary file, the pid file, the engines of the server | write, check, rename, look for a server, ask for the release, reconcile | a save that was acknowledged has freed what it removed; the file is never half written |
| TEST of the form (`bin/tui_init.rs`) | rows and their marks, the worker of a run, the spawned server | press, probe, poll, cancel, leave | a probe waits for what it needs and is reported once; a run that ends early leaves nothing behind |
| task manager (`task_manager.rs`, `mcp_handler/task_runtime.rs`) | a permit per DUT, the watchers of the resets that wait | spawn, reset, wait, cancel, shutdown | one task per DUT, every permit returned; a reset never waits with the engine mutex |
| project singleton (`lock_manager.rs`) | directory lock, pid file | acquire, check, drop | one server per project |
| logs (`log_manager.rs`) | ring buffer, writer thread, current file, archives | write, split, replace, flush, clean up, poll | no byte is lost or duplicated by a split; boots are cut at their first prefix; a poll reports what is new |
| relay (`dut-ctrl/src/ch340.rs`) | the shared stream, the guard of a pulse | press, release, pulse, verify | success means released; a dropped call releases |
| reset and power (`serial_engine.rs`) | target state, what the detector expects | power cycle, reset, relay reset, reboot | the state follows the board |
| U-Boot entry (`mcp_handler/boot_tools.rs`) | watchers, the interrupt character | restart, arm, interrupt, wait, restore | nothing is left behind; success means a prompt |
| boot detection, learning (`boot_detector.rs`) | stage machine, watchers, patterns | feed, flush, learn | stages in order; crashes are kept |

How they interact: callers share the engine through its mutex and read
`EngineFlags` without it; the queue writes through a bounded channel that the
read loop drains; engines of different processes share the lock file, the
kernel's table of connections (`endpoint_audit.rs`) and two signals: SIGUSR1
asks an engine to yield, SIGUSR2 to resume. A WebSocket client shares the
engine's connection.

The relay of several DUTs is one TCP stream to one box; the calls of all
engines of a process take turns on it, one frame at a time. A human's direct
session writes the same log directory as the server it displaced.

What is hard here: a guard is read before the mutex and acted on after it;
output of a command that timed out arrives while the next one runs; markers
are split, echoed and interleaved with kernel messages; the lock file may be
deleted under its holder; processes die between two system calls; signals are
coalesced or sent to somebody who is no longer the owner; a connection breaks
while a human is attached; faults, takeovers, claims and reconnects come in any
order. `PROJECT.json` lists these hazards at their lines, each with the
properties that look at it.

## 2. The plan

The order follows what matters most: that agents get the right answers, then
that one user at a time has the line, then the rest.

| step | modules | properties and proofs | state |
|---|---|---|---|
| 1 | `CommandQueue`, `CommandSession` | answers and liveness by TLC; no loss, no stall, final answers by TLAPS | done |
| 2 | `EndpointMutex` (abstract), `EndpointLock` | mutual exclusion, pid diagnostics, refinement; all by TLC and TLAPS | done |
| 3 | `SerialTakeover` on top of `EndpointMutex` | exclusion, latched faults, retirement, regaining the line by TLC | done |
| 4 | `ProjectLock` | one owner, somebody always survives, by TLC | done |
| 5 | `TargetBoard` on top of `BootPrefix` | heartbeat accounting, crashes kept, a silent board noticed, by TLC | done |
| 6 | `RelayLink`, `UbootEntry` | released buttons, nothing left behind, by TLC | done |
| 7 | `SerialLog` on top of `BootPrefix` | whole logs, cuts at prefixes, by TLC and TLAPS | done |
| 8 | `InitTest` | the TEST lane and its cancellation, by TLC | done |
| 9 | `InitForm`, `ConfigSave` | texts follow their tabs, saves as shown, released endpoints, by TLC | done |
| 10 | `ResetTask` | resets that wait end, tasks take turns, by TLC | done |
| 11 | proofs about `ProjectLock` | `OneOwner`, `SomeStartSurvives` by TLAPS | done |
| 12 | proofs about `SerialTakeover` | type correctness, `ExclusiveLine`, `RemovedIsFinal`, `FaultNeedsClaim` by TLAPS | done |
| 13 | proofs about `CommandSession` | type correctness, `SubmissionOrder`, `NothingLate` by TLAPS | done |
| 14 | proofs about `ResetTask`, `ConfigSave`, `RelayLink` | `TasksTakeTurns`, `AckedIsReleased`, `OkMeansReleased` by TLAPS | done |
| 15 | proofs about `TargetBoard` | type correctness, `MissesMatchProbes`, `OffNeedsProbes`, `CrashIsKept` by TLAPS | done |
| 16 | proofs about `InitTest`, `UbootEntry`, `InitForm` | `ProbesNeverStall`, `NothingLeftBehind`, `ValuesFollowTabs`, type correctness by TLAPS | done |
| 17 | `CommandService` (abstract), which `CommandSession` implements | refinement by TLC and TLAPS | done |
| 18 | `ReconnectBackoff` (`reconnect.rs`), `ConsoleWrites` (`console.rs`), the idle shutdown | bounded delays, order and loss of writes | open |

Composition: `CommandSession` extends `CommandQueue` with its callers, the
read loop, the humans and the shell, and implements `CommandService`. `SerialTakeover` extends `EndpointMutex`,
and `EndpointLock` implements `EndpointMutex`, so what `SerialTakeover` assumes
of the lock is what the system calls were proved to give. `TargetBoard` and
`SerialLog` share `BootPrefix`, the detector that tells the engine and the log
writer where a boot begins. `MCDevice`, `MCCalls` and `MCFiles` put machines that share no
state side by side: the variable `part` says which of them a behaviour is of, the
others stay in their first state. TLC then explores the disjoint sum of their
graphs, never the product, and a property of one machine is checked as if it
were alone. Modules with theorems
use recursive functions and folds, never RECURSIVE operators.

## 3. The modules

### CommandQueue: the queue as functions on a record

`queue` is the `CommandQueue` value: `current`, `pending`, the scan state of
the current command (`echo_matched`, `found_begin`, `search_buf`, `buffer`,
`spill`), the answers, the write channel `tx`, the counters. Every Rust method
is an operator from queue to queue: `Submit` (`execute`), `Feed`
(`feed_serial_data`: expiry first, then `ScanChunk`), `ExpireCurrent`
(`check_timeouts`), `DequeueNext`, `SendCommand`, `CancelAll`.

Bytes are tokens: the two halves of a marker (so that a chunk may end within
one), the quotes that tell the echoed command line from the shell's output,
output tokens named for the command that prints them, the exit code, kernel
messages, garbled bytes. `MarkerAt` is `find_subsequence`. Buffer limits are
counted in tokens. ANSI stripping and the format of the marker are left out.

### CommandService: what callers may rely on

`line`, `waiting` and `answer` are all a caller knows of the queue. `ServiceSubmit`
accepts a command or turns it away; `ServiceTurn` ends the turn of the command on
the line and of the first that wait, the last of whom may have the line. Markers,
buffers, deadlines and sessions are gone, but not what they must keep: nobody
overtakes, everybody who leaves gets one answer, and an idle line means that nobody
waits. One read may hold the end of more than one command, so a turn is not of one
command only. `ServiceRefined` maps `queue.current`, `queue.pending` and the kinds of
`queue.result` to the three variables.

### CommandSession: the queue at work

| variable | code |
|---|---|
| `session` | who has the line: agents, a WebSocket human, a direct human, nobody (latched fault) |
| `admitted`, `submitted`, `gone` | calls past the takeover guard, past `queue_command`, whose receiver was dropped |
| `lines`, `todo`, `wire` | the shell (external): lines received, tokens of the running line, tokens in flight |
| `clock`, `enqueued_at` | `Instant::now()` and the submission times |

`Admit` and `Execute` are two steps because `takeover_rejection` runs before
the engine mutex is taken. `CheckTimeouts` and `Read` are the read loop.
`TakeOver`, `HandBack`, `LoseEndpoint` and `Reclaim` are the hand-overs as far as
the queue sees them. The shell echoes a line as soon as it receives it, runs
lines one after another and is never interrupted.

### EndpointMutex and EndpointLock

`EndpointMutex` is what the lock promises: `owner` (the process that holds the
file the path names) and `lost` (processes that hold a file which is no longer
named). `EndpointLock` is the code, one action per system call: open, flock,
compare inodes, publish the pid; read the holder's pid when refused; clear the
pid and unlock. A process may die between any two of them, and the file may be
removed or replaced at any time. `seen` is the pid a refused call has read but
not yet returned. Inodes that nobody names or holds open may be used again.

### SerialTakeover: who has the line

`eng[s]` is the engine of server `s`: its phase, `owns_serial_lock` and its
mirror in the flags, `dutabo_taken`, the attached client, whether the console
is connected, whether a backoff window is open, `running`, `removed`, the
target state (in four classes and "stopped"), whether an endpoint fault is
latched, whether the tasks run, who has yet to call
`ensure_background_tasks`, an admitted claim, and the signals received.
`human[h]` is a `dutabo serial` process and `attached[c]` a WebSocket client.

A handler is one action, as the engine mutex makes it. What really happens in
several critical sections is several actions: the guard of `serial_claim` and its
body, `resume_serial` and the call of `ensure_background_tasks` after it, the
check before a WebSocket upgrade (which decides nothing, as the handler checks
again), the release of the lock by `dutabo` and its SIGUSR2. `Connections`,
`ConnectFailures` and `Probed` give the outcomes of `connect_serial` and
`probe_initial_state`; the audit sees the connections of all processes. The
signal set of an engine holds each signal once, as the kernel coalesces them.
A server that serves several DUTs ignores the signals, as
`spawn_takeover_signals` does.

### ProjectLock: one server per project

`locked` is the process whose descriptor holds the `flock` of the project
directory, `pidfile` the pid in the file, `at` where a process is in
`acquire_project_lock`. One action per system call: `TryProject` (open and flock),
`ReadOwner` and `ReadAgain` (the two readings of `check_project_singleton`),
`UnlinkStale`, `ScanProcesses` and its variants (`find_project_process`), `Truncate` and
`PublishPid`, and the three steps of the drop. `Olds` are servers of a version that
checks the pid file only (the code keeps the file for them), `HookCleans` a hook
that deletes it. Each may die anywhere.

### BootPrefix and TargetBoard: what the engine believes

`BootPrefix` is `BootLogBoundaryDetector`: which firmware line starts an archive.
`TargetBoard` is the engine (`eng`: target state, the boot detector's phase, auto-login,
the write channel) and its heartbeat (`beat`: silence, the probe that is wanted or in
flight, the misses) against a board (`board`, external) that boots,
logs in, crashes, reboots and falls silent; `wire` is what it printed and the engine
did not read. The console is a sequence of pieces: a line is one
piece, and a prompt has no end of line, so that `strip_ser2net_banner` holds it
until the next line is glued to it. `Read` is one iteration of the read loop
(`AfterRead`: persist, detect, shutdown detection, revival; `Hear`: activity), `Watchdog` is
`watchdog_once` with `check_hang` and the heartbeat, `PowerCycle`, `ResetTarget`,
`RelayReset` and `SoftwareReboot` are the tools, `ProbeStart` and `ProbeEnd` are
`probe_after_command_timeout`, `TakeOver` and `HandBack` a human's session.

### RelayLink: the relay behind one stream

`relay` is the set of channels that are on, `cable` the shared TCP stream with
the frames and answers in flight, `user` the worker in an exchange, `job` what
each call does: its operation, its stage, the attempts left, whether it may
release a button on drop. An exchange is `WriteFrame` and `Receive`; between two
exchanges anything may happen. The guard of a pulse is a worker of its own,
which `DropCall` starts. `cut` and `unsure` are history: an exchange on
this stream was cut short, so that answers are one behind; two were, or one was ended
by an EOF or by the banner of a busy port. The three by six polls of a channel's
state are one counter, `StatusTries`, and a read times out only when nothing is
on its way.

### UbootEntry: serial_enter_uboot

`call` is where each call is in its attempts; the engine mutex is given back
between the steps, so `ReadPiece` (the read loop, which fires watchers) and other
callers run in between. `watchers` and `mail` are the detector's watchers and
what was sent to their receivers, `intChar` the engine's interrupt character,
which the call replaces and restores.

### ResetTask: the tools that restart a board and wait for it

`reset[r]` is a call of `serial_reset` (a task, or a plain call of a client that
knows no tasks) or of `serial_power_cycle`: where it stands in `run_reset_sync`, its
attempt, what it waits for and what it heard. `mutex[b]` is the engine mutex of DUT `b`,
which the read loop (`Hears`) needs to fire `waits`, the watchers; `matched` are the
channels with a match in them. `Disarms` removes watchers by pattern, those of
other calls included, as `remove_watcher_by_pattern` does. `slot[b]` is the permit of
`spawn_for`, `relayLock` the lock of the relay, which is held by the process and not by the
call. `Cancel` records an intent; the worker looks for it at the top of its loop and in its
waits. `Patient` calls make a second attempt. rmcp, which runs the workers, is
external: `Drops` is what it does at shutdown and when a task's time is over.

### SerialLog: the log of a DUT

`disk` is the log directory, `lm` the two LogManagers over it (the server's and
that of a direct session), `owner` who reads the line. The queue of the writer
thread is part of `lm`: `WriteSerial` appends to it, `Writer` takes one entry, and
what a dead process had queued is gone. A split is three steps, as a process may die between them: wait
until the queue is flushed, `Copy` the prefix to the archive, and `ReplaceCurrent`
by the suffix; either may fail. `Cleanup` keeps `MaxLogs` archives. `PollLogs` and `PollSince` are the two ways to
ask for what is new. Bytes are pieces, see the module.

### InitTest: the TEST button of `dutabo init`

`worker[r]` has the probes of press `r` of TEST: the lane in list order, a thread
for every other probe, the rows already marked. `Linked`, `Needs`, `OnLane`,
`Reports` and `FirstCalls` are the table of `derive_probes`; `Ready` and
`Report` are the worker's waiting and the form's bookkeeping. `server` is the server of
the project and whose child it is, `pressed` whether the download button is
held. The form ends a run when every row has a mark, at the deadline or on Esc;
the worker is not told and goes on.

### InitForm: the form of `dutabo init` and what a save makes of it

`values` is the buffers of the form: a map from <<field, host, DUT>>, by position,
to text (a number; 0 is empty). `tabs` is the shape of the form, with an identity
per tab that the code does not have: it is there to say which tab a text belonged
to. `original` is the file the form was opened with, `written` the file now.
`Rebuild` and `Renumber` are what every change of the tabs does to the buffers
(`rebuild`, `renumber_hosts_above`, `renumber_duts_above`), `Prefill` is
`prefill_for`. `Answers` is `submit_values` and `resolve_answers`, with the name
checks (`Collides`), the default of an empty field (`Text`) and the free names
(`FreeName`). `Pair` is `pair_by_key`, `Merge` is `compute_update_ops` with
`apply_edits`: updates at the paired index, appends, and `Removals` from the last
index to the first. `Updated` edits the file of `original` at every save, as the
code edits the text it was opened with. One optional field stands for those that
are treated alike (the module's header says which), and `extra` for everything an
entry says that the form has no field for.

### ConfigSave: a save while the server runs

`saved` and `temp` are the two files, each a set of endpoints, and blank between the
opening and the writing; `wizard[w]` is where a wizard is in `finish_init`,
`atomic_commit` and `release_removed_endpoints`, one action per system call or
request, and which file its descriptor writes to after a rename by another wizard.
`mcp` and `engines` are the server: the project lock, its pid file, the registry
made from the file, the starts of its engines, which run beside the transport,
and its end. `Reconcile` compares the engines with the file as it is then, and
`RetireEngine` takes them one by one. A wizard may be killed, and a request time
out, anywhere.

## 4. The runs

Bounds in every run are the constants named `Max...`, the caps (`WireCap`, `OutCap`,
`TxCap`) and `OutTokens`; symmetry is used for safety only, over the commands.

| run | question | properties |
|---|---|---|
| `commands_queue` | three callers, drops, timeouts, takeovers and faults in any order | `InOnePlace`, `AnswerFinal`, `NothingLate`, `ServiceRefined` |
| `commands_stream` | chunks, spills, noise, reboots, output after a deadline | `TypeOK` (with the bound on the scan buffer), `CompleteOutput`, `OwnOutput` |
| `calls_live` | calls that wait: commands in a shell that may never answer, and two resets of one board, side by side | `EveryCommandAnswered`, `EveryCallerReleased`, `EveryResetEnds`, `TasksTakeTurns` |
| `files` | `EndpointLock`, `ProjectLock`, `SerialLog`, `InitTest`, `InitForm` and `ConfigSave`, side by side | `FilesTypeOK`; of the lock `OneIntactHolder`, `HeldIsNamed`, `PidNamesHolder`, `MutexRefined`, `LostIsNotRegained`; of the project `OneOwner`, `SomeStartSurvives`; of the log `LogsWhole`, `CutsAtPrefix`; of TEST `ProbesNeverStall`; of the form `ValuesFollowTabs`, `SavedAsShown`; of the save `AckedIsReleased` |
| `takeover_line` | two servers (one with several DUTs) and a direct human | `TypeOK`, `ExclusiveLine`, `RemovedIsFinal`, `FaultNeedsClaim` |
| `takeover_relay` | a server, two WebSocket clients, a direct human, under fairness | `StaleDisconnects`, `LineRegained` |
| `device` | `RelayLink` and `UbootEntry`, side by side | `DeviceTypeOK`, `NothingLeftBehind`, `OkMeansReleased`, `HeldIsLetGo` |
| `board` | a board and everything that drives or watches it | `BoardTypeOK`, `MissesMatchProbes`, `OffNeedsProbes`, `CrashIsKept`, `SilentBoardNoticed` |
| four violations | section 5 | one each |

Why the bounds are enough to be worth something:

- `commands_queue`: three commands with `MaxPending = 2` fill the queue, so that
  one of them can be rejected, and make a command wait behind one that waits.
  Commands print nothing there because the properties do not look at output.
- `commands_stream`: two output tokens, chunks of one and two tokens, a buffer of
  three and a trim to two: every marker is cut at every place, every output
  spills, the end marker meets the trimming, and one token is garbled or
  interleaved. The clock is long enough for the first command to print after its
  deadline while the second one runs to its end.
- `files`: at the endpoint lock three processes are needed for a holder, a
  process that read its pid and one that comes between them; two inodes let one
  replacement happen (more are covered by the proofs). At the project lock
  three servers: an owner, one that read its pid file and one that is refused;
  one older server and one hook shake the pid file once each. The log hears
  four pieces, enough for both prefixes of a boot, a line between them and the
  next boot; it has a ring of three, one archive to keep, and two events (a
  death, a failed step, a session of `dutabo`, a poll). TEST explores every form
  that has any of a relay, a reset, a download button and a flash tool, with a
  borrowed server, a child or none. The form is opened with
  each of seven files (no host to two hosts, none to two DUTs each) or without one;
  four steps are enough to remove a tab, add another, give it a name that was in the
  file and save. Two wizards make two saves between them while two servers start;
  `ConfigSave_two` has two endpoints as well, and finds nothing more.
- `takeover_line`: two servers and a human are the smallest set in which a signal
  can reach the wrong owner. One trouble (a death, a replaced file, a
  retirement, a foreign connection) combines with every interleaving of the
  rest. `takeover_relay` has two clients because the second one can attach
  while the first one's handler still runs.
- `device`: two relay calls and the guards they leave behind, two faults on the
  stream; two attempts per press or release, so that a retry meets the answer
  of the exchange before it. One caller enters U-Boot twice, with two attempts
  and one round each.
- `calls_live`: one silent command current and one waiting; two resets, which can remove
  each other's watcher, one of them with a second attempt, on one board that prints one line at a time.
  `relay_shared` has two boards.
- `board`: four things that the board does by itself (a boot that crashes, or a
  login and then silence), one tool or terminal session, two pieces on the wire,
  two unanswered probes to a verdict.

Fairness. `CommandSession!FairSpec` asks that the read loop calls
`check_timeouts` when it runs, that time passes and that every caller's tokio
timer fires: the loop is a spawned task that never returns, and tokio timers
fire. Nothing is asked of the shell, the humans or the endpoint.
`EveryCommandAnswered` itself excludes behaviours in which a human or a fault
stops the read loop for ever. `SerialTakeover!FairSpec` asks for the engine's
own tasks (they loop for ever and their timers elapse) and, with strong
fairness, that an attempt to reconnect that is possible again and again connects
some time: without it a network that is down for ever refutes every liveness
claim. A strong fairness on an outcome is an assumption about the network, not
about the code. `BoardSpec` is weakly fair to the watchdog, the clock and a typed line
that reaches the board, and to nothing else: `SilentBoardNoticed` needs no
reader. `ResetFairness` asks that the future of a call is polled: its waits have timeouts.
The board, the read loop and the other server owe nothing, so that `EveryResetEnds` does
not lean on a board that boots. `RelayFairness` asks that the relay takes a frame that reached it, that a
read returns (it has a timeout) and a hold ends, and, strongly, that a worker
which can have the stream again and again gets it: tokio's mutex is a fair queue.

Deadlock checking is off where a run really ends: the clock of `CommandSession`
stops at its bound, the processes of `EndpointLock` and `ProjectLock` may all have
died, a log that heard `MaxHeard` pieces and a form that was left stop, and so do
relay calls and U-Boot calls after `MaxStarts` and `MaxCalls`, and resets that are over. The runs of
`SerialTakeover` and `TargetBoard` check for deadlock.

Every property of a passing run has a mutant in `PROJECT.json`: a variant of one
action with a plausible mistake in the code, which the property rejects. They
stand before the definition that they replace, marked "Mutant".

Further configurations, which end with a counterexample of one of section 5's
points: `MCCommandSession_readloop`, `MCSerialTakeover_terminal`,
`MCSerialTakeover_backoff`, `UbootEntry_stale`, `TargetBoard_crash`, `InitTest_lane`,
`SerialLog_poll`, `ConfigSave_whole`, and of `InitForm` `_removed`, `_hostname`, `_survivors`,
`_fresh`, `_resave`, `_relay`, `_sameip` and `_start`. `ConfigSave_two` passes.

## 5. Disagreements between the code and its own words

Four of them are runs; the further configurations of section 4 show the next
ones, and TLC prints the steps. The rest was met while reading and is not
checked.

Runs:

- `commands_human`, `HumanExclusive`. The guard passes, a human attaches, the
  call gets the mutex and `queue_command` sends the line: it looks at `removed`
  only. The comment on `begin_manual_session` promises that tools are blocked
  before any terminal byte.
- `takeover_wedged`, `FaultIsClaimable`. A latched fault, then a SIGUSR1 (the
  engine still owns the lock): `yield` sets `dutabo_taken`. The SIGUSR2 that
  follows returns early because of the fault. The flag is never cleared, so the
  `serial_claim` which the fault asks for is refused for ever.
- `relay_cancel`, `DroppedPulseIsReleased`. `pulse` makes its guard after `press`
  has returned; a call that is dropped in between leaves the button held.
- `relay_shared`, `RelayLockGuardsPulse`. The lock of a relay belongs to the process:
  two engines of one server that pulse channels of one box get it both, and
  the first release frees it while the other one presses. Another agent's server may
  then take the relay, which `try_acquire_relay_lock` is there to prevent.

Further configurations:

- `InitForm_removed`, `RemovedBuffersDropped`. The file has two DUTs; the first has a
  relay and its tab is removed. The second moves to its place, and what it has no
  buffer for (the relay's port, a setting) keeps the first one's text: the next
  save gives the second DUT the relay of the first. The doc of `rebuild` says that
  buffers of a removed block are dropped.
- `MCCommandSession_readloop`, `ReadLoopLeavesHumanAlone`. A takeover does not
  cancel the queue. The read loop goes on checking deadlines, and when the
  current command expires the next is typed into the human's session.
- `MCSerialTakeover_terminal`, `HumanKeepsTerminal`. When the connection breaks
  under a WebSocket session, `handle_read_error` reconnects, probes the DUT with a
  carriage return and sets a state other than the human's. The client stays
  registered; logins and detectors run into his terminal.
- `MCSerialTakeover_backoff`, `DeadLineRegained`. Backoff windows are opened in
  the state Disconnected, and a closed console is looked for in Active and
  Booting. A claim whose connect fails for an engine at U-Boot, or with the DUT
  off, leaves a closed console in a state that neither test sees.
- `UbootEntry_stale`, `SuccessMeansPrompt`. The prompt of before the restart is
  held in `ser2net_partial` and delivered after the watcher was armed: the call
  says that the board is at U-Boot while its ROM runs.
- `TargetBoard_crash`, `CrashIsNoticed`. A panic that is glued to a shell prompt
  gives a crash and then a shell, which the transition table lets win; the
  throttle of two seconds hides the lines of the crash that follow.
- `InitTest_lane`, `OneLane`. The comment at `bin/tui_init.rs:4495` says that
  serial probes run in order on one thread. Esc or the deadline ends a run but
  not its worker, and a second TEST starts another lane.

- `SerialLog_poll`, `PollDelivers`. Polling compares a position with the length of the
  current file (`serial_engine.rs:2299`). After a split the new file may be exactly as
  long, and new output is taken for none.
- `ConfigSave_whole`, `FileIsWhole`. The doc of `write_validated` (`init.rs:5822`) says
  that a crashed wizard can never leave a corrupt config. All wizards share
  `.target.jsonc.tmp`: one empties it between the check and the rename of another,
  and if it is killed there the empty file stays.
- `InitForm_hostname`, `HostNamesFollow`. `renumber_hosts_above` has no case for
  `HostName`: after a host tab is removed, the name typed for the next host is lost
  and it gets the removed one's, although nothing typed for surviving hosts should be.
- `InitForm_survivors`, `SurvivorsCanBeSaved`. When a DUT tab is removed, the next one
  has another position than its name in the file, its own name counts as taken,
  and the form cannot be saved before it is renamed.
- `InitForm_fresh`, `NewTabsAreFresh`. A tab that is added at a position the file has is
  filled with what the file says there, the relay of a DUT just removed included.
- `InitForm_resave`, `EverySaveAsShown`. The second save of a form edits the text it was
  opened with, and if nothing differs from that, leaves what the first one wrote.
- `InitForm_relay`, `RelayAsShown`. A closed relay section does not remove the section
  of the entry that the tab is paired with.
- `InitForm_sameip`, `ExtrasKept`. Two hosts with one ip are paired in order; what the form
  does not show may go to the other host's DUT.
- `InitForm_start`, `ServerCanStart`. Two DUTs at one ip and port can be saved; the server
  refuses to start on the file (`engine_registry.rs:53`).

Met while proving (`TargetBoard.cfg` with `NamesBounded`, `WireCap = 8`, `MaxEvents = 5` and
`MaxTools = 0`; with the run's `WireCap = 2` no read is long enough):

- `send_login` (`serial_engine.rs:1821`) stops after `MAX_LOGIN_ATTEMPTS`, since some systems lock
  accounts. The count begins again when a boot is read; if the read that brings it began
  with the last boot's login prompt, the name for that prompt goes to the new boot,
  beside the attempts that it is then allowed.

Met while reading:

- `finish_project` (`bin/tui_init/project.rs:334`) reports "config saved; skill deploy for
  ... failed" before `finish_init` has run: nothing was saved.
- `rebuild` notes that entries "are kept (append-only update)" when tabs were removed
  (`bin/tui_init.rs:1179`); `compute_update_ops` removes them.

- `RelayLink!BannerIsNoSuccess` is stated and does not hold: the banner of a busy
  ser2net port has more than four bytes, and a release takes it for an echo.
- `verify` gives up at once when a channel that should be off reads on, although
  the comment at `ch340.rs:653` wants OFF sent again.
- A task that is dropped in its pulse (shutdown, end of its time) leaves the relay lock
  with the process until another of its pulses gives it back.
- `remove_watcher_by_pattern` removes the watchers of every call with that pattern: the
  other call's channel closes, its wait ends at once without a match, and a reset with
  attempts left resets the board again.
- A cancel that comes between the look at the top of `run_reset_sync` and the engine
  mutex does not stop the reset that follows.
- `task_manager.rs:4` allows a DUT one long-running operation; a plain `serial_reset`
  (`task_runtime.rs:49`) and `serial_power_cycle` take no permit.
- `do_relay_reset` takes no relay lock. It sets Booting before its
  checks, and leaves it there when they fail.
- `maybe_detect_shutdown` is undone in the same iteration: the line that shows the
  shutdown is also activity, which revives the target.
- `strip_ser2net_banner` withholds a prompt until another line comes, so
  auto-login and partial-line watchers wait for a line that a silent board does
  not print.
- `password_sent` is not cleared between login attempts: the second and third
  attempt type a name and no password.
- `heartbeat_missed` survives a power cycle: the board that has just been started
  may be declared off after one more unanswered probe.
- When a restart and the DDR line of the next boot are in one chunk, DDR and SPL
  are cut into two archives.
- `check_project_singleton` lets a refused server unlink the pid file of the owner
  that published in the meantime. The lock still protects the project; older
  binaries no longer see it.
- The comment of the console's write queue says that the oldest entry is dropped;
  it is the newest.
- `MAX_CONSECUTIVE_CAP` (`reconnect.rs`) counts the attempt at 16 s with those at
  the cap.

## 6. The proofs

No axiom is assumed; what the proofs assume of the constants is `QueueAssumption`,
`SessionAssumption`, `LockAssumption`, `TakeoverAssumption`, `ProjectAssumption`,
`ResetAssumption`, `ConfigAssumption`, `RelayAssumption`, `UbootAssumption`, `BoardAssumption`,
`LogAssumption`, `TestAssumption` and `FormAssumption`: bounds are numbers (what must hold
something is not empty: a ring, a wire, a retry), the values that stand for "nobody" are not
processes, and the form shows at least the two hosts and three DUTs of the files it is opened
with. TLC evaluates all of them.

Four of the modules prove about several machines: those of `MCFiles`, `MCDevice` and `MCCalls`
are explored side by side, and `FilesAreAll`, `DeviceIsBoth` and `CallsAreBoth` say that a
behaviour of such a run is a behaviour of each of its machines, so that what is proved of
a machine holds in its run (`FilesTyped`, `DeviceTyped`).

**CommandSessionProofs.** `SessionCorrect` proves the inductive invariant
`SessionInv`. `InOnePlace` and `NeverStalls` are not inductive as they stand.
`Placed` adds that a command which was not submitted has no answer and no place;
`IsQueue` gives the record's shape; `Wired` says that nothing is current or
waiting before the write function is there, without which a command that is sent
nowhere could leave the line idle with others waiting behind it. One lemma per
operator says that it keeps these facts and answers only commands without an
answer (`Keeps`). `DequeueNext` skips expired and abandoned commands at once,
so its lemma tells the skipped ones, the chosen one and the suffix that waits apart.
`NobodyLost`, `NoStall` and `FinalAnswers` follow, for any number of commands, any
timeout and any buffer sizes. `SessionTyped` proves the types, with the bound on the
scan buffer in every state, whatever the line brings: a chunk
is searched, cut and stored by operators of which each has a lemma. `TurnCorrect`
adds the order: `Turn(q, r)` says what a method may do to the queue (add no command,
let none overtake, send only one that is in time and waited for, succeed only in
time). It is reflexive and transitive, so a handler that calls several methods is
one turn, and `FirstComeFirstServed` and `NothingIsLate` need one lemma per method.
`QueueServes` is the refinement: a turn of the queue is a `ServiceTurn` (who leaves a
place has an answer by `Placed`, nobody else's changes by `Keeps`), `Submit` is
`ServiceSubmit`, and every other step stutters. `NoStall` and `FirstComeFirstServed` say
what the service implies in terms of the queue itself.

**CallsProofs, the commands.** `OwnOutput` says nothing of the bytes that are not captured yet, and
they decide it: the shell still prints for commands that timed out while the next one
is scanned for. `OwnInv` is therefore about the whole stream to come, what is on the wire
followed by what the shell has yet to print. `OwnUnsent`: a command whose line was not
written has left no trace, so a marker that begins in the stream is of a command that was
sent. `OwnLast`: the line of the current command is the last one written. `OwnStream`: once the
marker of the current command is in the stream, the shell has nothing left to do and nothing of
another command follows the marker; once the marker is found, nothing of one was
captured. Garbling, kernel messages, reboots, human sessions and the read loop each
have a lemma. The echo needs
its own argument: its quote splits the marker, so it completes none (`EchoStream`).
One repeat of the scan after an answer is enough, because the rest of the
chunk has no marker of the command that is sent next (`ScanOwn`). A command whose output a
human session consumed is left out, as in the property: a session that takes the
quotes away joins the halves of the marker. `AnswersAreOwn` follows.

**CallsProofs, complete answers.** `CompleteOutput` is about what was captured when the end
marker is found, so the invariant must know what an end marker proves. `FullInv` says
that the stream after a begin marker of the current command, kernel messages aside, is a
front of its `Body` (output, exit code, end marker), each token as printed or garbled
(`Fits`); once the marker is found, what was spilled and captured belongs to that front.
A garbled token is no half of a marker, so an end marker in a front stands at the end of
the body, with everything printed before it (`Whole`). The lemmas say that a front
stays one under each step: a chunk moves tokens from the wire to the buffer and a spill from there
on, a reboot cuts the front, a garbled token stays in its place, a kernel message disappears with
`WithoutPrintk`. The prefix a marker search drops never holds a begin marker. The proof needs
`OwnInv`: another command's tokens after the marker would break the
front. Preparing it found a flaw of the model: noise could garble a kernel message into a token that no
longer counted as one, which two disturbances show (the runs have one). A garbled kernel
message is a kernel message now; `FullInv` was checked with `MaxNoise` 1 and 2 before
the proof.

**FilesProofs, the endpoint lock.** `LockInv` is `TypeOK` and five named parts: `LocksOwned` (the
inode of a descriptor that passed its flock is locked by its process);
`LocksAccounted` (a process has no other kernel locks); `PidsPublished` (the pid of
a live process stands only in an inode it has locked, and not before it is
published or after it is cleared); `NamedUnlessShaken` (a verified inode is the
named one unless the file was replaced since); `NotSelf`. Mutual exclusion alone
is not inductive: two processes can hold two inodes, and only the comparison
after the flock decides which of them is named. `LockCorrect` proves the
invariant; `OneHolder`, `VerifiedLock`, `NamedHolder`, `NeverSelf` and
`LostStaysLost` follow. `LockRefines` is the refinement: `Publish` is
`MutexAcquire` or `MutexAcquireLost`, `ClearPid` and `Die` are `MutexRelease` (or
change nothing), `Replace` is `MutexLose`, and every other step stutters.

**SerialTakeoverProofs.** Every handler replaces one engine's record and changes at
most one process's hold on the lock. So `TakeoverInv` says what always holds of a
record (`Fit`: a flag or a connection implies ownership, a latched fault neither, a
removed engine nothing), that ownership is right about the lock (`EnginesFit`), that one
console at most is connected (`OneConnection`), and that a connected session holds
the endpoint (`SessionsHold`). `ExclusiveLine` alone is not inductive: an engine
that owns without being connected may connect in its next step. `EngineStep` is what
the handlers' lemmas reduce to. The connections do not follow from the lock, since a
replaced file lets two processes hold one: it is the audit of `connect_serial` that
refuses the second. `LineIsExclusive` and `RemovalLasts` follow from the invariant;
`FaultsNeedClaims` is about steps and goes through the handlers once more.

**FilesProofs, the project lock.** `OneOwner` needs that whoever is past the lock has it and that
it is had by nobody else (`HoldersLock`). `SomeStartSurvives` needs a chain: a
start is turned away by a pid in the file or by a process that was found, a pid in
the file is of a process that wrote it and was not refused since (`PidsServed`), and
such a process serves, or has ended (`TurnedAway`).

**CallsProofs, the resets.** The permit of a DUT and its worker are two views of one thing:
`Turns` says that the permit is there exactly when no worker is. A call changes its
place in many steps and its permit in three, so each step's proof says whether the
call is a worker before and after it. `CallsFit` has the bound that keeps a retry
from going past its attempts.

**FilesProofs, the save.** `AckedIsReleased` is about the last of several requests, so
`Promise` says what a wizard may rely on at each: one that found no server,
that the next one loads its file; one whose server retires engines, that those it
still has to retire are listed. A promise is about a version of the file, and every
later save ends it. `ServerFits` says that a server which has not loaded the file
holds nothing, and has published its pid before it loads.

**DeviceProofs, the relay.** An answer on the wire speaks of the relay as it was when the
answer was made. `WireHonest` says when it can still be believed: while no more than
one exchange was cut short, the wire has one frame or answer besides those
of the exchange under way, whose own frame is the last (`OwnFrameLast`), and an answer
that says off is true unless it was made before a frame that switches on.
`JobsFit` says which stages a worker can be in, so that a success can be traced to
the answer it was read from; `Leads` is that trace, one lemma per stage. The attempt
to prove the property in an earlier form failed for a reason: with two unread answers
on the stream the strict release takes the echo of an earlier OFF for its own while
an ON is on its way. That takes more starts and faults than the run `device` has;
the property now excludes it (`unsure`), and `RelayInv` was checked at larger bounds.

**BoardProofs.** `BeatInv` is `MissesMatchProbes` with the types of the heartbeat and the
wire. The detectors fold over the pieces of a read, but the read loop and the tools
clear the heartbeat or leave it alone, so these folds stay unexpanded: only the
watchdog's tick has to be opened. `Checked` says what `check_hang` may do to the pair
of engine and heartbeat (keep the count, and turn the board off only after enough
probes), `Scored` what the count is; one lemma per branch. `OffIsEarned` needs the
invariant: the verdict compares `heartbeat_missed`, and only the count of the probes
that were sent makes it evidence.

A read of the board is a chain of folds: pieces into lines, lines into events, events into
the state. For `BoardTyped` and `CrashStays` each fold is taken apart by `FoldLemmas`: an
engine that is well typed stays so with every piece, and of a crashed engine that stays
crashed until a loud event comes (`Loud`). An event that is held for a burst counts as heard,
which is why the property names `eng.held`.

**FoldLemmas.** The folds of the community modules are recursive over sets of indices, and the
library's induction theorems cannot be used. `RunOfRecursion` gives such a recursion its
intermediate values, one per prefix (`RunExists`: there are some); that something holds of all of them follows from
`LeastNatural`: if not, it fails for a first prefix, and a fold's step does not lose it there.
`LeastNatural` itself comes from the well-foundedness of strict inclusion, a library
theorem without an operator parameter. So what a fold preserves can be proved, which is
all that these proofs ask; what a recursion computes is another matter.

**SerialLogProofs.** `LogsWhole` speaks of archives, the current file and the queue of whoever
owns the archive. `LogInv` says it of one manager at a time (`ManagerOK`): what its ring has
of its stream, what its writer's copies have of the current file at each step of a split, and
that a manager which is not the owner has nothing queued. Only the owner changes the file,
so a step of one leaves the others' part alone. `Whole` is one equation of sequences, kept by a
write (the queue's head moves to the file), by a split (the file becomes an archive and a
suffix), by a failure between its steps and by a death (what was queued is lost, and the
model takes it out of what was heard). `CutsAtPrefix` compares an offset noted by the detector with a file that later
writes and splits move: `CutInv` says where the detector's open line and each noted boundary
are in the text that follows the archives, and that a split moves the offsets as it moves the
text. A process that writes in the middle of a line breaks this (`mixed`), and only this.

**DeviceProofs, U-Boot.** A watcher in the table is one its call waits for at its present
place (`WatchersOwned`), so an idle call has none: `NoWatcherStays`, for any number of callers,
although each may remove the watchers of the others by their pattern. The interrupt
byte is another matter: two calls that overlap may put back each other's. `CallsLeaveNothing`
is the property of the run for one caller, which is what the run has; its hypothesis is stated in the
theorem.

**FilesProofs, TEST.** A probe waits until some other rows are marked. `TestInv` says what is
left of every run (`RunFits`): only a probe that is done has marked a row, and it has marked
all of its rows (`Told`), so that a row without a mark is the row of a probe that is left.
`NeedsBefore` is then about the table of `derive_probes`, which the proof goes through once
for every kind of probe: what a probe of the lane needs is marked by one before it or by a
thread, and what a thread needs by a thread that needs less. So some thread can go on, or
the head of the lane can.

**FilesProofs, the form.** `ValuesFollowTabs` relates texts, which have a position, to tabs,
which have an identity. `FormInv` therefore says that no two tabs have one identity
(`NewId` is not in use: a set of as many numbers as `NewId` chooses from cannot be full),
and that texts are only where a tab is shown. Adding is easy; removing moves the
buffers of all tabs above by one. `HostsMoveApart` and its like for DUTs show that the
renumbering is injective on the places that remain, so no text lands on another's. `TakenOver`
is what one place says after the step of what another said before it, and the theorem is
that every tab that stays takes over its own.

What stays with TLC, and why:

- Every liveness property (`EveryCommandAnswered`, `EveryCallerReleased`, `EveryResetEnds`,
  `HeldIsLetGo`, `StaleDisconnects`, `LineRegained`, `SilentBoardNoticed`): liveness
  under fairness and ENABLED are out of the installed provers' reach.
- `SavedAsShown`: it says what a fold computes, of the entries of a file, and not only what
  it preserves.
- The violations of section 5, of course.

## 7. What is left out

Abstractions inside the modelled parts:

- An engine handler is atomic. Its awaits keep the mutex, so no other handler of
  the engine sees the middle; other processes could, while it connects. What
  they can do there is covered by the outcomes of the connection (the audit
  finds them or not).
- Signals arrive through a set, the network through outcomes, the DUT through
  state classes. Wording of errors is left out; a busy error and any other
  error that is not a latched fault are one.
- One claim is admitted at a time in `SerialTakeover` (a bound).
- A panic caught in a detector moves the state to Disconnected with the
  connection open; the model has that only as an outcome of a probe.
- A startup timeout can overwrite the code of a fault that was latched in the
  same instant, which unlatches it; not modelled.
- An endpoint configured as its own relay (`serial_relay_endpoint_conflict`) is
  never used by the code; such a server is one that does not start.
- `dutabo` gives up after three windows of 45 s; in the model it may give up
  whenever the lock is held.
- `TargetBoard`: the connection stays open (`SerialTakeover` breaks it); the stage
  learner and the similarity to a reference log are left out; a prompt of U-Boot
  is no piece; the ROM is slower than the write channel.
- `ResetTask`: the board boots in three phases (ROM, kernel, login) and prints the line that a wait
  looks for; the target state is `TargetBoard`'s, the exchange with the relay `RelayLink`'s. What a client
  polls of its task is left out.
- `SerialLog`: `full.serial.log` gets the same bytes, is never split and is left
  out, as are errors of a full disk. `CutsAtPrefix` says nothing of a file in which
  a server and a direct session met.
- `InitTest`: one host and one DUT, one press of TEST in the passing run (two in
  `InitTest_lane`); quick relay actions and the wait for readiness are left out.
  That every run of TEST ends follows from `ProbesNeverStall` and the deadline.
- `InitForm`: text is a number, the settings of a DUT are one field and the texts of a host
  two; pickers, focus and the skills are left out, and so is
  the DUT of no name that a server makes of a host without DUTs. The formatting of
  the edited file is left out: an edit changes the entry it names.
- `ConfigSave`: one project; ports and HTTP are the server that answers, another one or
  none. Holders of a lock that are not this project's server, the occupancy gate
  that asks about them before a save, and the second reading of the file in
  `managed_dut_configs` are left out.
- `ProjectLock`: the per-DUT pid files are read as the root one is, which stands
  for them.

Not modelled, with the reason or the plan, is every component that
`PROJECT.json` lists as such: agent hooks and plugins (clients in other
languages), the vendored tracing layer, rendering, the drivers of other relay
boards, flashing (external programs run in sequence), the learners of boot
stages.

## 8. Running it

    tlc -config MCCommandSession_queue.cfg MCCommandSession.tla
    tlc -config MCCalls.cfg MCCalls.tla
    tlc -config MCFiles.cfg MCFiles.tla
    tlc -config MCDevice.cfg MCDevice.tla
    tlc -config TargetBoard.cfg TargetBoard.tla
    tlc -config MCSerialTakeover_line.cfg MCSerialTakeover.tla
    tlapm CommandSessionProofs.tla
    tlapm CallsProofs.tla
    tlapm SerialTakeoverProofs.tla
    tlapm FilesProofs.tla
    tlapm DeviceProofs.tla
    tlapm BoardProofs.tla
    tlapm SerialLogProofs.tla

Each run takes between a second and three minutes on two cores, each proof file
up to six minutes.
