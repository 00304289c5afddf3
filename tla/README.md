# Pharus in TLA+

Pharus is a server monitor. A server process (axum, tokio, SQLite) keeps one WebSocket per
agent and one per open dashboard; an agent process on each host reports metrics and carries out
what the server asks. This directory holds TLA+ models of the parts whose correctness depends on
the order of events, the TLC configurations that check them on small instances, and TLAPS proofs
of the results that carry the others. Paths are relative to the repository, which is called
`src/` in `PROJECT.json`.

    tlc -workers 2 -config MCDiag.cfg MCDiag      # one run
    tlapm DiagProofs.tla                          # the proofs about Diag

## 1. The system

| Component | State | Operations | Correct when |
|---|---|---|---|
| Agent connections (`ws.rs handle_agent_socket`, `state.rs`) | the agents map: `online`, `conn_epoch`, `agent_tx`; one task per accepted socket | authenticate, register, serve the select loop, time out, clean up | the end of an old connection never takes a newer one offline; an online agent is served; a dead connection ends |
| Diagnostics (`diag.rs`) | `diag_pending`, rate budgets | `dispatch`, relay of output, expiry, `cancel_for_agent` | one terminal frame per request, caps respected, nothing left pending for a dead connection, nothing dropped in silence |
| Browser feed (`ws.rs handle_browser_socket`, `state.rs`) | the broadcast channel, a receiver per browser | snapshot, subscribe, forward; Status and Metrics from the handlers | what a dashboard shows agrees with the agents map |
| Alert evaluator (`alerts.rs`) | sample windows, offline timers, failure counts, firing states (saved) | one tick every 30 s; reload at startup; edits of rules | firing exactly when the window says so; no false recovery; no page repeated after a restart |
| Notifications (`notify.rs`) | sends in flight, failure streak | `dispatch` spawns a task per channel | the last page agrees with the state |
| Task and feature sync (`state.rs push_tasks`, `features.rs`, `admin.rs`) | task rows, feature defaults and overrides; `AgentState.features`; the agent's task set | edits, `refresh_all`, `refresh_agent`, `push_tasks`, load at connection | every edit takes hold on every agent |
| Traffic accounting (`billing.rs`, `main.rs`, `admin.rs update_billing`) | counters in memory, the stored row, reset day | `apply_metrics`, flush each minute, reload, change of the reset day | no byte lost or counted twice; cycles turn on the right day |
| Agent session (`agent/src/main.rs`) | task set, running tasks, terminals | connect with backoff, report, run tasks | modelled as the server's counterpart |
| One-shot task runs (`admin.rs run_task`, `ws.rs` TaskResult) | `task_waiters`, a oneshot per call; the agent's run | check, enter, send, wait with timeout, answer | an answered call got its own run's result; a result reaches a caller that still waits; no waiter stays behind |
| Names and regions (`ws.rs`, `admin.rs rename_agent`, `update_region`) | each twice: a row and an entry of the agents map; what was broadcast | edits, detection by the agent, registration | what is shown is what is stored; an override wins over detection |
| Terminals (`ws.rs handle_term_socket`, agent `open_term`) | `term_sessions`, a forwarder per socket; the agent's `Shared.terms` and reader threads | open, output, exit, close, each side and the connection going first | output arrives in order; routing lasts as long as the socket; no shell without an owner; exit is seen |
| Online updates (`updates.rs`) | the stage, the binary and its `.old`s, the themes directory | download, checksum, unpack, two swaps, exit | a server that starts; the previous binary kept |
| Themes (`themes.rs`, `admin.rs`, `main.rs`) | theme directories, the themes table, the active theme | install, activate, delete, `set-theme`, serve | an installed theme is whole; the active one can be served |
| Admin sessions and users (`admin.rs`, `db.rs`) | users table, sessions, login throttle | login, logout, both middlewares, change of password, edits of users, expiry | an enabled admin remains; a session ends with its account and its password; guesses are bounded |
| Agent schedulers (`agent/src/main.rs`, `db.rs insert_ping_history`) | next due times, latest results; one row per sample | probe what is due, send all results; tell a resend from a sample | each sample stored once |
| Database, public API, probes, crypto, frontend, packaging | – | – | §8 |

How they interact:

- Handlers, browser sockets, the alert evaluator, the flush task and admin requests share
  `AppState`. The agents map is behind an `RwLock`, the database connection behind a `Mutex`, and
  a process takes one, releases it, and takes the other. Nothing spans both, and nothing spans a
  lock and a send. Most of what is hard in this program is in these gaps.
- An agent that lost its network reconnects at once, while the server notices the loss only by
  `AGENT_OFFLINE_TIMEOUT` (60 s). So several handlers of one agent overlap as a matter of course;
  `conn_epoch` tells them apart.
- A dispatch clones the agent's channel sender, releases the lock, inserts its entry and sends.
- Each broadcast reaches a browser through a bounded channel that drops its oldest messages.
- The evaluator's firing states, the traffic counters, the task rows, users and regions survive a
  restart; the sample windows, failure counts, sessions, the login throttle and in-flight
  diagnostics do not.
- Theme installs and online updates are admin requests like others: nothing keeps two apart, and
  the file system between them has no transactions.

`PROJECT.json` lists the hazards this gives rise to, at their lines, with the properties that
cover each.

## 2. The modules

    AgentLink ──┬── Diag ──────── MCDiag          SampleWindow ── Alerts ── MCAlerts
                ├── StatusFeed ── MCStatusFeed    Traffic ─────── MCTraffic
                ├── TaskSync ──── MCTaskSync      Accounts ────── MCAccounts
                ├── Terminal ──── MCTerminal      Panel ───────── MCPanel
                ├── Profile ───── MCProfile       PingHistory ─── MCPingHistory
                └── TaskCalls ─── MCTaskCalls
                        └ implements Exchange
    AgentLinkProofs ──┬── DiagProofs                            AlertsProofs
                      ├── TerminalProofs                        TrafficProofs
                      ├── TaskProofs (TaskCalls and TaskSync)   AdminProofs (Accounts and Panel)
                      └── ViewProofs (StatusFeed and Profile)

**AgentLink** — `handle_agent_socket` as a control-flow automaton per accepted socket. Each locked
section of the agents map is one action, and so is each broadcast made outside a lock, because
other tasks run in between:

| Action | Code (`ws.rs`) |
|---|---|
| `Lookup`, `Refuse` | the first frame, token or hostname lookup, refusals (15-122) |
| `Greet` | AuthOk sent, `next_epoch` taken with `fetch_add` (110-128) |
| `Register` | features and region loaded; online, epoch and sender set under the lock (129-155) |
| `Announce` | Status online broadcast, tasks pushed (156-165) |
| `LinkLost` | the peer closes, breaks off or falls silent (external); which of these, only Diag tells apart |
| `Break` | the loop ends: read error, close or, with a peer that is gone, the timeout; or the receiver of the sender's channel is closed because a successor replaced it (165-186, 437-448) |
| `Leave` | under the lock: mine is the current epoch, mark offline; otherwise return (452-462) |
| `Cancel`, `Part` | `cancel_for_agent`, Status offline (463-469) |

The six modules that extend it conjoin their own effect to these control points and add actions
of their own.

**Diag** — a request moves `new → resolved → inserted → accepted`, one step per lock section of
`dispatch` (`Resolve` reads the agents map and clones the sender, `Insert` tests the caps and
makes the entry, `Send` uses the sender, which may by then belong to a dead handler). `Deliver`
and `Frame` are the two directions of the socket, `Take` is `take_pending_bytes`, and `Emit` is
the broadcast that follows it outside the lock. `DiagCancel` removes the entries of the agent,
`CloseOut` broadcasts their terminal frames one by one. A peer that is gone either ends the socket
(`DiagLinkLost`, `SocketEnds`: `closed`) or is silent. Then only the timeout of the select loop is
left: `TimerTick` lets it run, and whatever the loop does starts it anew, as `ws.rs:165-167` makes it
on each turn. `Chatter` is any other message for the agent, and a write to a silent peer may not
return (`stuck`, `ws.rs:441`). The rate limits are a refusal that may
happen at any time (`GateRefuse`). An entry older than `PENDING_TTL` is in `aged`; it goes at the
next insertion, as in the code.

**StatusFeed** — Snapshots are composed agent by agent: `snapshot_with_gates` takes the read lock
once per agent, so handlers run in between (`SnapshotRead`, `SnapshotDone`, for a new browser and
for the one SysInfo of a session). `misled` is a history variable that records when a
message was false at the moment it was sent, was pushed out of a full receiver, or fell between a
browser's snapshot and its subscription. A message is the set of agents it speaks of and those it
shows online.

**Terminal** — three kinds of process per terminal. The socket's task goes `TermResolve` (clone the
sender under the agents lock), `TermInsert` (`term_sessions`, forwarder spawned), `TermOpen`,
`TermBreak` (the browser is gone), `TermClose`, `TermReturn` (entry removed, forwarder aborted,
clone dropped); `Forward` is the spawned forwarder. On the agent, `OpenShell` is the task
`open_term`, which the session does not wait for, `Write` and `ShellOver` are the reader thread, and
`SessionEnds` is the return of `run_session`, which aborts its loops and leaves the shells alone.
TermClose drops the session's end of the shell (`held`); nothing kills the child, so whether the shell
exits is up to what runs in it.
Between them, `Deliver` and `Relay` are the two directions of the handler's loop. A connection's
receiver yields `None` only when every clone of its sender is dropped and its channel drained, so
`LoopBreak` waits for the terminals opened over it. Chunks of output are numbered, so order and
gaps are visible; input and resize frames change the shell only and are left out.

**SampleWindow**, **Alerts** — the window is a record of sets of timestamps; `Evaluate` is the
whole of `Evaluator::tick` for all keys: stale signatures dropped, offline timers seeded, failure
counts, windows, transitions, saves (any of which may fail) and pages queued. A tick suspends
nowhere, so it is one action; a crash in its middle is a tick with failed saves and `Restart`.
`Delivered` and `GivenUp` end a send in any order, at most `MaxSend` intervals after it started.

**TaskSync** — a process is an admin request or a connecting handler. Its steps are its lock
sections: edit the database; compute effective features (`Compute`); store them under the agents
lock (`Store`); per agent, `PushLoad` rows, `PushRead` the sender, `PushSend`. The task rows are
reduced to a version number and the two features to one. Two history variables record that a
process acted on what it had read before another one wrote.

**Traffic** — a calendar of months of given lengths, the agent's cumulative counter with reboots,
sessions whose frames wait in separate sockets, `ApplyMetrics`, the two halves of the flush, the
three steps of `update_billing`, and a server restart at any point. The fields `boot`, `moved`,
`base`, `upTo`, `clean`, `ordered`, `gen` of the records are history: no guard reads them.

**Exchange**, **TaskCalls** — `Exchange` is what a caller that has an agent do something may rely
on: asked at most once, run at most once and only when asked, concluded once, as answered only if
it ran; and an asked call is concluded. `TaskCalls` is `run_task` with the lock sections of its
handler (`CallResolve` clones the sender, `CallEnter` makes the waiter, `CallSend`, `CallAnswer`,
`CallTimeout` and, separately, `CallGiveUp`, which removes the waiter under its lock), the client
that goes away at the one await (`CallAbandon`: the handler is dropped and with it its last lines),
and the way of the request and the result over a connection of AgentLink (`Deliver`, `Finish`,
`Read`, `Lose`). The run is a task that outlives its session (`SessionEnds` drops its sender). A
call is `asked` once it was sent, has run from `running` on, and its outcome is what the caller was
told; under this mapping `Promise!ExchangeSpec` is the property `ImplementsExchange`.

**Profile** — name and region of an agent, each in the table (`row`), in the agents map (`entry`)
and, the region, in what was broadcast (`told`). `EditRow`, `EditEntry`, `EditTell` are the steps of
`rename_agent` and `update_region`; `DetectCheck`, `DetectStore`, `DetectEntry`, `DetectTell` those of
the Region frame; `ProfileLookup` and `ProfileGreet` read what `ProfileRegister` copies. `mixed` and
`overtaken` are history: fields whose writers overlapped or failed to write, and handlers that had
looked for an override before it was set.

**Accounts** — requests go through the lock sections of the handlers of accounts: a login is
`LoginGate`, `LoginRead`, `LoginFail` or `LoginProve` (with the hash in between), `LoginInsert`; an
edit is `Authenticate`, `AdminCheck`, then `CreateUser`, `UpdateUser` or `DeleteUser`, which holds the
table's lock while it changes sessions, as the code does; a change of password is `ReadHash`,
`WritePassword`, `SignOutOthers`. `UpdateUser` may stop after each of its statements. Sessions age and
the throttle's window passes at any time (`Age`, `WindowOver`); `Restart` clears what is in memory
and, if there is an admin password, makes a missing root account anew. Passwords are numbers of versions.

**Panel** — the file system under the themes directory and the binary's path, call by call. A theme
directory maps files to the package they come from, so a torn one shows. It is removed file by file
(`Unlink`), and the call that removes it returns with the directory or without (`RemovalOver`:
`InstallCreate` and `InstallAborted` for the temporary one, `InstallEvicted` and `DeleteRemoved` for the
installed one), because nobody looks at its error. A package in `Bare` has an entry other than
`index.html`: an install looks for the entry, an activation and the server for `index.html`. The stage
of an update holds a bundle whose checksum was verified or not; whether a path exists and the call
this decides on are two steps (`CheckThemes`, `CheckBinary`). Each call may fail (`Fail`, `InstallAbort`) and
the process may end between any two (`Crash`, `Exit`); `Start` is the service manager, which starts
what is at the configured path. `current_exe()` follows the running file, so after a first update
that did not restart it names the `.old` one (`exe`, `at`). `marks` is history: it names the
situations the code does not guard against, and each property says which of them it needs absent.

**PingHistory** — the agent's `ping_scheduler`, tick by tick: what is due is probed, and all latest
results are sent whenever one changed; the server stores a result unless the task's last row is
younger than its interval less two seconds (`Refused`). A task's next run falls on the tick
`interval` later or on the next one (`slip`), because it is counted from an instant after the tick.

## 3. The runs

Every property of a passing run has a mutant: a plausible bug in one mapped definition, kept in
the module beside it, under which TLC finds the property violated.

| Run | Instance | Shows |
|---|---|---|
| `diag_safety` | 2 agents, 2 connections, 2 requests; `PerAgent` 1, `Total` 2, `MaxRelay` 1; symmetry in all three | `AtMostOneDone`, `WithinCaps`, `LeftBehindOnlyByRace`, `NothingForgottenSilently`, and for the connections `OnlineIsServed` |
| `diag_live` | 1 agent, 2 connections, 1 request, a timeout of 2 ticks, fairness | a connection whose peer is gone ends unless messages for it keep the handler busy (`LostLinkEnds`); a request accepted on it is closed out (`LostRequestIsClosed`) |
| `status_feed` | 2 agents, 2 connections, 1 browser, a receiver of 2, fairness | a settled browser is wrong only if misled; an agent that stays is shown online |
| `alerts` | one rule of any of four kinds on one host, 6 intervals, one edit | `OperatorKnows`, `WindowMeetsReference`, `NoFalseRecovery`, `NoRepeatedFiringPage` |
| `task_sync` | 1 agent, 2 connections, 2 requests, three active in all | `MirrorFollowsStore`, `EditsTakeHold` |
| `terminal` | 1 agent, 2 connections, 1 terminal, two chunks of output, fairness | `ShownInOrder`, `RoutedWhileOpen`, `ShellLeftOnlyByRace`, `ExitIsShown`, `ShellIsLetGo` |
| `traffic` | three months of 2, 1 and 2 days, reset day 2, 2 bytes, one reboot, two sessions, one restart, one edit | `CountedExactly`, `CountedOnceInOrder`, `CycleStartIsLatestTurn`, `AckedCycleKept` |
| `accounts` | 2 names, 2 requests, 2 tokens, a limit of 1 failure, 2 changes of the table | `SomeAdminRemains`, `SessionsFollowAccounts`, `OthersSignedOut`, `FailuresBounded` |
| `panel` | 2 jobs, 2 packages of a theme, one without `index.html`, 2 versions, 2 crashes, `.old` chains of 3 | `InstalledWhole`, `ActiveThemeServed`, `ServerRunnable`, `PreviousKept` |
| `task_calls` | 1 agent, 2 connections, 1 call, fairness | `WaitersExact`, `ResultReachesCaller`, and that TaskCalls implements Exchange (`ImplementsExchange`) |
| `profile` | 1 agent, 2 connections, 1 edit, 2 values | `EntryFollowsRow`, `OverriddenOnlyByRace` |
| `ping_history` (violation) | tasks every 5 and every 10 s, immediate delivery, no reconnection | a resend is stored and the next sample dropped, against the comment at `db.rs:890` |

Each question whose answer is "no" has a property in its module too. `ping_history` is the one that
is run with the others; the same can be seen of

    MCDiagSilent.cfg        SilentLinkEnds             a silent peer's connection goes on for ever
    MCDiagLeft.cfg          NoneLeftBehind             a superseded connection leaves requests pending
    MCStatusFeedStale.cfg   SilentAgentShownOffline    a browser shows an agent online for ever
    MCAlertsRuns.cfg        FiresOnConsecutiveFailures fires after one failed run
    MCTaskSyncDisabled.cfg  DisabledStops              a disabled feature stays on for an agent
    MCTrafficOnce.cfg       CountedOnce                a late frame makes bytes count twice
    MCProfileManual.cfg     ManualWins                 detection replaces an operator's region
    MCPanelOld.cfg          PreviousNeverLost          an update removes the binary another one retired

each with the module its name begins with.

Bounds, and why they are enough:

- *Connections, requests, calls.* The races are between two processes and what each read before
  the other wrote; two overlapping connections of one agent, or one of each of two agents, cover
  supersession, registration against the order of epochs, and interference between agents.
  `TaskSync` has three processes at most (`ThreeAtMost`): two sessions and one request, or one
  session and two. `Diag` and `AgentLink` are proved for any number.
- *`MaxRelay` 1, `PerAgent` 1, `Total` 2.* One frame fits the relay budget and the next exceeds
  it; one request fills an agent and two fill the server, so both caps are met at their limit.
- *One terminal, two chunks.* Session ids are unique and a handler treats frames one by one, so
  terminals do not interact; a second chunk is what shows a gap or a swap. Two connections cover a
  terminal that outlives the registration of the connection it was opened over.
- *One call, one edit.* Request ids are unique, so calls meet only in the map; an edit of a name or
  region meets two registrations and two Region frames, which are the other writers.
- *Two requests, two names, one failure.* A login against an edit, two edits of each other, two
  logins in parallel at the limit; the second change of the table is the one that follows on what
  the first did. `AdminProofs` has no bound on them.
- *A timeout of two ticks* (`Deadline`), so that a message can set it back when it has run and is not
  over.
- *Two jobs, two packages, two versions.* Two installs of one theme with different files, two updates
  of one version or of two, an install against an update. A theme has two files, the least that can be
  half removed; `Bare` holds one of the packages. `MaxOld` 3 lets an update replace the
  `.old` of a binary that was itself displaced. `AdminProofs` has no bound on jobs or versions.
- *`Capacity` 2.* A receiver overflows at the third message; the code has 256.
- *Alerts' clock.* Six intervals hold a window of two with a gap or a restart in its middle, a
  transition, its cooldown of three and the transition back. `MaxGap` 2 is 65 s in intervals of
  30 s, `MaxSend` 2 stands for the 75 s a send with its retries may take. Keys do not interact.
- *Traffic's calendar.* The middle month is shorter than the reset day, so the clamp, a turn after
  a clamped one, and the turn back to the previous month all occur. `MaxBytes` 2 is a
  byte between two readings, of which the first may be of an empty counter, and one after.

`CHECK_DEADLOCK FALSE` everywhere: in a bounded instance every socket may have been used, every
request answered and the clock at its bound.

Fairness (`diag_live`, `status_feed`, `terminal`, `task_calls`). The tasks of a tokio runtime are all
polled, so weak fairness on each of a handler's own steps. A socket that tells its end gets strong
fairness of leaving the loop (`h \in closed /\ DiagBreak(h)`): the select picks among ready branches at
random, so the read is not passed over for ever, but a message for the agent may be taken in between,
and a write to a closed socket fails. A silent peer gets no such thing: time passes (weak fairness of
`TimerTick`), and the timeout, once over, is a ready branch. What keeps it from getting there is named
by `KeptBusy` in both properties: messages that set it back over and over, or a write that does not
return. Agents with a link report at an interval (weak fairness of `link[h] /\ Metrics(h)`). In
Terminal, the steps of the socket's task and of the handler's loop are weakly fair; `ShellIsLetGo` names the
fairness of the agent it needs (`AgentGoesOn`), which a shell that does not read its input denies it
(`agent/src/main.rs` 455-462). That a browser ever closes (`TermBreak`) or that a shell exits is not
assumed. In TaskCalls the handler's own steps are weakly fair, the timer among them: a call ends
although nothing is assumed of its connection or its agent. Nothing is assumed of agents answering, of
new connections or of requests.

## 4. The proofs

Every safety invariant and every action property that a passing run checks is a theorem; the proofs
are in eight modules, four on `AgentLinkProofs` and three alone. They hold for all finite or infinite
sets of agents, connections, browsers, terminals, calls, edits, rules, jobs, packages and versions, and
for any bounds. The assumptions are the named `ASSUME`s of the modules: that `None` is none of the things
it stands in for, that handlers are not also browsers or edits, that caps and bounds are naturals, that
the alerts' clock starts no later than it ends and a rule's duration and count are positive
(`admin.rs:1490`, `alerts.rs:124`), that the calendar has two months and none without days, that the agent
has a first session, that `Requests` is finite where it is counted,
and that the code an agent detects is not one of the operator's (the two are told apart by their source;
`Detected` is a name for "whatever was found"). TLC evaluates them in the runs.

*Connections.* `OnlineIsServed` is not inductive: that the handler in `agentTx` is alive depends on
epochs being distinct. `LinkInv` adds `HandlerKnows` (what agent, epoch and registration a handler
has at each control point), `EpochsFresh` (every epoch is below `nextEpoch`, and no two handlers
share one) and `CurrentIsRegistered` (the registered sender's epoch is the map's `conn_epoch`).
From it: `OnlineIsServedAlways` and `TakenDownByItselfAlways`.

*Refinement.* `DiagImplementsLink`: each step of `Diag` is a step of `AgentLink` or leaves its
variables alone, so `Diag` implements `LinkSpec` (the abstract specification of a connection) and
inherits `LinkInv` and both theorems. So do the other five modules that extend it
(`TerminalImplementsLink`, `FeedImplementsLink`, `ProfileImplementsLink`, `CallsImplementLink`,
`SyncImplementsLink`): what is proved of a connection holds of it whatever is done over it.

*Diagnostics.* The invariant is built in layers, each inductive relative to the ones before:
`BaseInv` (types; a request past the gates went through a handler that had registered; an entry
belongs to a dispatched request and is within its relay budget), `OneVoice` (of the entry, the
frames owed and the terminal frame already shown there is at most one for each request),
`WithinCaps`, and `CancelledInTime` (what `cancel_for_agent` has left, handler by handler). They
give `AtMostOneDone`, `WithinCaps`, `LeftBehindOnlyByRace` and, as an action property,
`NothingForgottenSilently`. The counting lemmas `SmallerSet` and `RoomForOne` rest on
`FiniteSetTheorems`.

*Terminals.* `TermInv` explains a shell left behind by what its connection still owes it:
`AskedInOrder` (TermOpen and TermClose are sent once each, in this order), `LeftReplaced` (a
connection that left its loop with its peer there is no longer registered, so no terminal is opened
over it), `Attended` (such a connection had no clone outstanding and nothing in its channel),
`EndedWithLink` and `LeftByRace`. It gives `TermTypeCorrect` and `ShellLeftOnlyByRaceAlways`: a shell
that outlives its terminal without a TermClose on its way lost its connection, or its TermClose
overtook `open_term`. `OutputFlows` follows the chunks: `Follows` numbers those in a buffer, and `Flows`
says that the shell's buffer, the agent's channel, the handler's and the socket's follow each other
without a gap for as long as the terminal is routed (`Routes`) and its connection is up; what is lost
with a connection is lost at the end. It gives `ShownInOrderAlways` and `RoutedWhileOpenAlways`.

*One-shot runs.* `WaitersExact` needs to know that nothing travels before its call waits, and that a
result is handed over only when it was read; `RunFollowsCall` says so. `CallsImplementExchange` proves
the safety part of the refinement: initial states map to initial states, and each step to a step of
`Exchange` or to none. Its liveness part is `task_calls`' alone.

*Task and feature sync.* `MirrorFollowsStore` and `EditsTakeHold` speak of moments when no request is in
progress; `SyncInv` says what holds in between. Where the mirror differs from the database, or a set
that was read and is still to be stored does, an admin request owes the agent a refresh (`Owed`:
`MirrorFresh`, `ComputedFresh`). Where the last message to a connected agent differs from what is
stored and mirrored, or one under way does, another that does not is due (`Due`: `SentFresh`,
`PushesFresh`). The exceptions are a set stored late and a push sent late, as the history variables
tell. `MirrorStored` is the step that stores a set, `PushSendFresh` the one that queues a message, which
overtakes all others under way to that agent.

*Accounts.* `SomeAdminRemains` is inductive with the types, since the two handlers that could break it
test and write under one lock (`MayLose`); `SessionsFollowAccounts` needs `LoginsFollow` (what a login
has read still holds, or the history says what overtook it); `FailuresBounded` counts the requests
past the gate, with `FiniteSetTheorems`. `OthersSignedOut` needs `PasswordInv`: a login under way has
read the password its user chose last, or the change that overtook it is remembered; and so has the
login of a session, unless the handler that changed the password has yet to drop it.

*Panel.* `InstallAlone` and `UpdateAlone` say what a job may rely on while no other job of its kind has
overlapped it and, for an install, it found nothing left over: the temporary directory holds what it
extracted, the stage holds what it verified, and the binary it is about to rename is good.
`RemovalLeaves` and `UnlinkWholeStep` are about removals: they only take files away, so what was one
package stays part of it, and whoever removes is at it still or has left a mark. From them
`InstalledWhole`, `ServerRunnable`, `PreviousKept`; the last needs that an update which removes an `.old`
while its binary is gone is marked (`crossed`). `ActiveThemeServed` needs `ServedInv`: the bundled theme is
whole wherever an update copies or moves it (`CopiesWhole`, `DefaultKept`), an update that took the
installed themes away has said so (`SwapTold`), a theme that is active or about to be is there
(`Wanted`, `CustomKept`), and who wants one that is being deleted did not ask the lock (`DeletingTold`).

*Names and regions.* As long as the writers of a field have not overlapped, there is one writer at
most, it is about to copy what the table holds, and the entry and what was broadcast differ from the
table only until that one's turn (`NameCarried`, `RegionCarried`). Each action has its lemma.
`EntryFollowsRowAlways` is the case without a writer. `OverriddenOnlyByRaceAlways` rests on
`LookedBefore` (a handler about to store over an override had looked before it was set) and on
`RegionMoves`, which says who writes the table.

*Browser feed.* `WrongOnlyIfMisled` speaks of moments when nothing is on its way; `FeedInv` says at any
moment what a browser will show once it has read its receiver: the last message about an agent, or
the view if there is none, agrees with the flag, unless a change is pending or the browser was misled
(`InformedOrMisled`). `EnqueueSays` and `ReceiveSays` are the two lemmas about receivers, for any
capacity.

*Traffic.* The calendar is proved for any lengths of the months: days are numbered by `FirstDay`, a
function on the naturals, and `cycle_start_for` is shown to give the latest turn not after a day
(`CycleStartIsLatestTurn`) from what clamping to the month's end does to the turns of two neighbouring
months. Sets of naturals have a least element (`LeastNat`), which is what the induction rests on.
`CountedExactly` and `CountedOnceInOrder` speak of the counters in use, which may come back from the
table, from the flush task's copy or from an edit. `TrafficInv` speaks of all of them: the readings that
may still meet tell of one history of the agent (`ReadingsAgree`, `AgentLatest`), and each of the counters
has counted no more than that history allows (`AllCounted`). `AckedCycleKept` needs the order of the
edits among the copies: none is ahead of the counters in use, and a row behind the last edit that has
returned was put there by a flush, or is there because the edit could not store its own copy
(`GensGrow`).

*Alerts.* A tick changes sixteen variables; `TickOf` names its time, what it found and which saves went
through, and each part of the invariant has one lemma for the tick and one for the other steps.
`WindowMeetsReference` is not inductive, since it compares decisions. `Logged` compares what they are
made from: a window holds the samples of its log that are within the duration and within the unbroken
run that ends with the last one (`Stands`); `RecordStands` says that `record` keeps this when it appends
a sample, restarts at a gap and cuts the front, `StandsDecides` that a window that stands for a log
decides as the reference does. `OperatorKnows` and `NoRepeatedFiringPage` come from `StatesPaged` (the
last page sent off says what the state says, unless the firing fell in the cooldown or the save failed)
and `PagesArrive` (it is the last to arrive, unless two pages were under way together).
`NoFalseRecovery` needs `AllBreached`: while the trouble of a firing rule that asks for every sample
lasts, its window holds nothing but breaches, and an offline timer, also one seeded from the saved
state after a restart, has run past the grace period.

Only model-checked: the liveness properties (fairness and `ENABLED` are out of the prover's reach), with
them the liveness part of `ImplementsExchange`, and that the nine documented claims of §5 fail. Where a
type invariant is proved and not in a run's list (`TypeOK`, `FeedTypeOK`, `TermTypeOK`, `CallTypeOK`, `AccountTypeOK`, `PanelTypeOK`, `ProfileTypeOK`), the
theorem stands for it.

## 5. Where code and documents differ

`PROJECT.json` "findings" has each with its quotation. The first is shown by the run `ping_history`, the
next eight by the configurations of §3:

1. `db.rs:890`: a sample that arrives sooner than the interval need not be a resend; a resend stored
   at the edge of the tolerance makes the next sample look like one.
2. `diag.rs:505`: requests of a superseded connection are not closed out; they hold their slots
   until `PENDING_TTL` and the next dispatch.
3. `README.md:19`: a browser may go on showing an agent that has gone as online, because it
   subscribes after its snapshot.
4. `db.rs:1424`: `consecutive` counts evaluations of the latest result, not failed runs.
5. `features.rs:112`: a connecting handler can put a disabled feature back.
6. `billing.rs:85`: a late frame of a previous session moves the traffic baseline back.
7. `ws.rs:301`: detection replaces an override that was set while it looked.
8. `README.md:19` again: the timeout that is to notice a silent agent starts anew with every message
   sent to it, and a write to it has no deadline, so it may never be shown offline.
9. `updates.rs:222`: of two updates, one may remove the `.old` that the other has just made of the
   running binary; if that other one then fails or stops, no binary is left.

The others were met while modelling, and the properties have their cases as exceptions: an update
moves the installed themes away (`docs/deployment.md:138`); nothing recovers from `.old`
(`updates.rs:222`); two installs of a theme share a temporary directory, and a removal that stops or fails leaves half a
theme (`themes.rs:92`); a package without `index.html` can be installed over the active theme
(`themes.rs:204`); a client that
goes away leaves a waiter behind (`admin.rs:1382`); `update_user` applies half of a request it refuses
(`admin.rs:597`); the end of a connection leaves its terminals waiting (`ws.rs:463`); a shell outlives
its terminal when TermClose overtakes `open_term` or the session ends. Two have no exception because
the model leaves them out: `task_failures` is forgotten at a restart, and `start_speedtest` passes a
target that `valid_target` refuses.

## 6. Abstractions

Payloads, names and formats are left out. Numbers that only meet comparisons are small (bytes,
days, intervals, failures); no arithmetic in the modelled code comes near its width (`saturating_*`
on `i64` and `u64`). Floating-point ratios are compared as fractions. Lock poisoning, memory
exhaustion and database errors are left out, other than failed saves of alert states, a failed
`set_region`, a failed statement of `update_user` or of a deleted theme's row, and the `upsert_traffic` of
`update_billing`, which is acknowledged all the same. Alerts has no action for the deletion of a rule:
it is disabled for good, its saved states go, and its id is not used again. A step of the model is a lock section, a file
system call or an await point; the code holds no lock across an await.

History variables (`misled`, `marks`, `mixed`, `overtaken`, `late`, `misjudged` and those of TaskSync and
Traffic) are read by properties and by no guard.

## 7. Partly modelled

- *Diagnostics*: progress frames of a speedtest; the rate budgets are a refusal at any time.
- *Alert evaluator*: the window restarts also when the clock was set back; in the runs it only goes
  forward.
- *Notifications*: the failure streak of a channel, which drives a display only.
- *Traffic*: one agent and one direction, of the other only whether its counter is empty; the
  percentage of the quota.
- *Accounts*: begins with an admin, whom only a start with an admin password makes (`main.rs:202`).
- *Agent session*: the agent's own update (`apply_update`, `agent/src/main.rs` 1865-1987), streams of
  script output.
- *Online updates*: the manifest's download and its comparison of versions; the copy of the bundled
  themes tree and the removal of an `.old` one, which nothing reads, are one step each.
- *Agent schedulers*: `custom_task_scheduler` runs each task on a cron expression of its own.
- *Terminals*: input and resize frames change the shell only; `term_input` holds a lock across a blocking
  write, which a model of a bounded PTY buffer would show.

## 8. Not modelled

Telemetry tables and history queries (SQL without a protocol), public API views, the agent's probes
and parsers, encryption of stored secrets, the frontend's rendering and packaging: I/O and data
handling without interleavings of their own. `ssh_term.rs` is not part of the build.

## 9. Plan

What would come next, in this order:

1. **AgentUpdate** — `apply_update` on the agent: a running binary after every failure, as in Panel.
2. **Terminal**: input towards a PTY whose buffer is full.
3. **Schedulers**: `custom_task_scheduler` across a replaced task set.
4. **Alerts**: several tasks per agent, with the arbitrary choice of a rule without a task.

Proofs: what does hold of the rows of `PingHistory`, that those of a task are at least its window
apart, and the invariants of the models above.
