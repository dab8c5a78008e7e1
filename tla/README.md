# Phira-mp+ server: a verification project

TLA+ models of the parts of the Phira-mp+ game server whose correctness depends
on the order in which things happen, TLC configurations that check them on
small instances, and proofs that TLAPS checks for every instance.

Paths below are relative to `phira-mp-plus-server/src/` unless they start with
`docs/`.

1. [What the system is](#1-what-the-system-is) (inventory)
2. [What is modelled](#2-what-is-modelled) (modules against the code)
3. [The runs](#3-the-runs) (questions, bounds, fairness)
4. [The proofs](#4-the-proofs)
5. [Where the code and its text disagree](#5-where-the-code-and-its-text-disagree)
6. [What is not modelled](#6-what-is-not-modelled)
7. [Plan](#7-plan)

Checking by hand, in this directory:

    tlc -workers 2 -config room_round.cfg MCRoom
    tlapm PersistenceWal_proofs.tla
    tlapm PersistenceWorker_proofs.tla
    tlapm Room_proofs.tla
    tlapm SessionAuth_proofs.tla
    tlapm RoomDirectory_proofs.tla
    tlapm MCConnection_proofs.tla
    tlapm MCRecords_proofs.tla
    tlapm MCExtensions_proofs.tla

## 1. What the system is

A TCP game server. Players connect, authenticate against the Phira web API, are
put into rooms, choose a chart, declare themselves ready, play, and upload their
results. Operators act through a console, a local socket, an HTTP API and WASM
plugins. What happens is written to PostgreSQL, through a write-ahead log.

    client -> session -> room actor (one mailbox per room) -> persistence queue
                 |            |                                    |
             user binding   round store (direct SQL)          WAL -> worker -> SQL
                              |                                         or dead letters
                          room registry (connections)

`docs/development/architecture.md` names four invariants: a room's state changes
only through its mailbox; the log is acknowledged only when data is in a final
place; plugin calls are bounded; send queues are bounded.

| component | state | operations | what is hard | what makes it correct |
|---|---|---|---|---|
| write-ahead log `persistence/wal/` | the log file, the instance marker, the sequence counter, the mask of degraded reasons | start-up (replay and repair), admit, ack, compact, list_pending | kills between any two system calls, torn and unsynced tails, failed roll-backs, the file lost while the process is down | what was admitted is pending until it is acked; what was refused or acked never comes back; an uncertain log refuses rather than guesses |
| persistence worker `persistence/{worker,process,control,pipeline}.rs` | channel, send gate, in-flight set, sequence gate with its buffer, pending ACKs, the deferred control message | enqueue, the worker loop, the recovery scanner, flush, shutdown | a full channel, the scanner racing callers and worker, retries of writes and ACKs, a fence over events that are only in the log | order of admission is order of execution; a flush covers what was admitted before it; nobody waits for what never comes |
| room actor `room_actor/` | phase, ready set, results, aborts, chart, host, timers, round id, member list | 40-odd commands and the lifecycle maintenance | the actor awaits the round store in the middle of a command; the registry changes under it; deadlines race results | a game is played only under a stored round; each round is settled once, with the results the players were told were taken; a game ends |
| room registry and joins `room.rs`, `session_room.rs` | the connections in the room; joins in progress | join_room, leave_room, on_user_leave, compensation | a join is an actor step and a registry step, and may be cut off between them | member list, registry and capacity agree in the end |
| places of the users `server/rooms.rs`, `session_room.rs` | rooms by id, the user's pointer to his room, every room's members and connections | create, join, leave, kick, close, forced move with its undoing | two actors and a pointer for one user; ids used again; commands still in the mailbox of a room that is gone | at rest the pointer, the registry and the actors agree, and a user is in one room at most |
| session binding `session_lifecycle.rs`, `session.rs`, `server/accept.rs` | the user's bound session and its generation, dangle mark and grace timers | authenticate, roll back, dangle, end of the grace period, kick | three connections of one user; a failed authentication gives back what it took; a timer racing a reconnect | at most one session acts for a user; a player who came back is not removed |
| connection and outbound gate `session.rs` | authentication phase, buffered events, outbound queue, cut-over | snapshot, bind, answer, activate, send | events that arrive while the answer is not flushed; a snapshot that is older than the binding | the client hears the answer, then every event in order, or is disconnected |
| way of a command `session_dispatch.rs`, `session_actor.rs`, `room_actor/mailbox.rs` | the session's mailbox, the room's mailbox, two deadlines | receive, enqueue, run, commit, answer, give up | the deadline passes while somebody works; the player reconnects meanwhile; handlers that change something and then refuse | what is refused was not done and will not be; every command is answered or the connection closed |
| monitor and console sessions `session.rs` | the slot of the room monitor, the tables of users and sessions | check, bind, activate, fail, disconnect | authentications that overlap | one room monitor at a time |
| high-frequency writer `persistence/high_frequency/` | channel, overflow queue, sequence watermark, shutdown state | enqueue, flush, shutdown, batches | overflow and drops leave holes in the sequence; enqueue races shutdown; a write whose answer is lost | a flush waits for what was accepted and for nothing else; nothing is stored twice |
| start-up recovery `server/recovery.rs` | the stage reached, files of dead letters set aside, rounds without an end | wait for the log, replay the dead letters, flush, abort what is left, restore rooms | a crash at every step; an event that fails again; an append that stops in the middle of a line | what was completed is not forgotten; a round is aborted only if it was not completed |
| users and playtime `persistence/users.rs`, `internal_hooks.rs` | online flag, session, login count, last seen, time played | authenticate, disconnect, offline, heartbeat, close stale sessions | events that arrive late, twice or not at all, crashes without an offline event; a player lost in a game, of whom no event says so until his grace is over | when all is written the table tells the truth |
| managed rooms `managed_rooms*.rs` | definitions in a table, in a map, and a live room each | create, update, disband, restore, schedule, host changes | one of three writes fails; players and operators act on the live room meanwhile; timers by room id | the three agree, but for a chart the host has chosen |
| supervisor and orderly end `supervisor_actor.rs`, `main.rs` | tasks and their handles, the phases under one deadline | spawn, register, report, stop; the phases | registration racing shutdown, a phase that uses up the time | the end of a critical task is noticed; a clean exit has drained the writers |
| plugins `plugin.rs`, `wasm_host*.rs`, `wit_host/` | the queue of events, calls and permits, quarantine, handlers | dispatch, API calls, enable, remove, reload, load | a call cannot be stopped once it runs; deadlines; handlers under two names | events in order; a plugin that is gone leaves nothing behind |
| plugin TCP `plugin_tcp/` | handles, mailboxes per connection, quotas | connect, accept, read, deliver, close | events of a connection that ends while it is told of | callbacks one at a time, none after the end, quotas that return to zero |
| Phira client `phira_client.rs` | circuit breaker, counters | fetch with retries and deadline | callers interleave between atomics | an open breaker rests the service; deadlines hold |
| bans, lists, extension store `ban.rs`, `extensions.rs` | lists in memory, one file | ban, unban, lists, persist | copies of lists read and put back; a crash inside a write; a write that fails after memory was changed | what was acknowledged holds, also after a restart |
| automatic update `auto_update.rs` | reservation, .part file, executable | apply, executor, force | two appliers over one file; crash between two renames | the executable is always a whole release |
| database, event bus, HTTP, callbacks, limits, administration, configuration, benchmark, protocol crates | mostly counters, files and views | | see section 6 | |

How they touch each other in the models: a session's command becomes a mailbox
message of the room actor; the actor calls the round store and waits; it hands
`RoundCompleted` to the persistence queue; the queue is a log admission plus a
channel message; the worker closes an event with a log ACK; start-up recovery is
a replay of the log into the worker's buffer. The registry is the one piece of
state that two components write; the user's binding is the one that three tasks do.

The hazards this gives rise to are listed, each at its line, in `PROJECT.json`.

## 2. What is modelled

| module | what it is |
|---|---|
| `AdmissionLedger` | abstract: what the log promises its callers, with no files, locks or kills |
| `PersistenceWal` | `persistence/wal/mod.rs` and `marker.rs`, shown to implement the ledger |
| `PersistenceWal_proofs` | its inductive invariant and the theorems |
| `PersistenceWorker` | the worker, the scanner, enqueue, flush and shutdown, over a log that keeps the ledger's promises |
| `PersistenceWorker_proofs` | its inductive invariant and the theorems |
| `Room` | one room: actor, maintenance, registry, joins, round store |
| `Room_proofs` | the inductive invariant of a round and the theorems |
| `SessionHandover` | abstract: what the sessions of one account promise |
| `SessionAuth` | authentication, binding, dangle, grace timers, kick; shown to implement the handover |
| `SessionAuth_proofs` | its inductive invariant and the theorems |
| `CommandPath`, `OutboundGate`, `MonitorAuth`, `PhiraClient`, `Shutdown` | what surrounds a connection; composed in `MCConnection` |
| `MCConnection_proofs` | the invariants of the commands, the monitors, the Phira client and the gate, in the composite |
| `Recovery`, `HighFrequency`, `Presence`, `ManagedRooms`, `Moderation`, `RoomDirectory` | what the server records; composed in `MCRecords` |
| `RoomDirectory_proofs` | the invariant of where a player is |
| `MCRecords_proofs` | the invariants of the others, and that of the places, in the composite |
| `PluginRuntime`, `PluginTcp`, `AutoUpdate` | what is added or replaced at run time; composed in `MCExtensions` |
| `MCExtensions_proofs` | their invariants, in the composite |
| `MCPersistenceWal`, `MCPersistenceWorker`, `MCRoom`, `MCSessionAuth` | the sets the runs give to the constants |

**Composition.** The components of `MCConnection`, `MCRecords` and `MCExtensions` share no variable,
so that interleaving them would only multiply their states. `focus` names the one a behaviour is
about; the others stay in an initial state. The interactions that matter are inside the
modules: the log, the worker and the database are part of `Recovery`,
the room's broadcasts part of `OutboundGate`, the two mailboxes part of `CommandPath`.

**Troubles.** Much of the code is right as long as certain things do not meet. A module names them in
a constant (`Troubles`, `Overlaps`, `Environments`), a set of sets of names, and `Init` chooses one of the sets. A
property `X` that holds only when some of them are absent has a form `XIfCalm` with that condition, which the runs
check; section 5 says which set refutes `X` itself. The runs start from every set that their
.cfg lists, so that the rest of what is checked holds in spite of them. Left out of the lists are sets that only widen what may meet (`"overlap"` of `ManagedRooms`, `"kicked"` of `Presence`): no property of the run is about them.

### PersistenceWal

The file is `wal`: the `frames` that are synced, and a `tail` that is none, torn,
whole but without its newline, written but unsynced, or garbled; `broken` says a line
in the middle cannot be read. A frame is an admission with its sequence, or an ACK.
The instance marker is `marker`. Serialisation, checksums and the temporary files of
a compaction are abstracted to these kinds; a rename is one step, as it is on disk.

Each task is in one call at a time (`pc`). A call has one action per await or system
call after which another task, or a kill, can come in: `AdmitCheck` reads the degraded mask,
then `io_gate` is taken and `AdmitAppend`, `AdmitRejected` (the append failed, the
roll-back worked) or `AdmitFatal` (it did not) and `AdmitMarker` follow; `AckCheck`, `AckAppend`,
`AckRejected`, `AckFatal`; `CompactRefuse`, `CompactRewrite`, `CompactRemove`,
`CompactMarker`; `ListPending`. `Crash` and `CrashInAppend` kill the process: a
kill keeps what was synced and leaves any prefix of what was not. `BootRefuse`, `BootWithoutFile`, `BootRead`,
`BootFirstMarker`, `BootFinalMarker` are the start-up. `Disaster` is what happens to the
files from outside while the process is down.

The observables of the ledger are history variables: `accepted`, `refused`, `closing`,
`acked`, `view`.

### PersistenceWorker

The log is here what `AdmissionLedger` says of it, plus the two numbers start-up
restores the counter from (`highest`, `marked`). `send_gate` is `holder`; the bounded
channel is `channel`; the sequence gate is `nextExpected` with `buffer`; an event whose
ACK failed is in `pendingAcks`. The worker's loop is the value of `worker`: `control`
(look at the deferred message), `retry` (retry an ACK), `fetch` (from the buffer or the channel), `exec`, `ack`,
`advance`, `drain`. The scanner's list, prune and queueing are three steps because the code
has awaits between them, and its list is old when it uses it.

A deferred control message is looked at in every turn of the loop, and the loop turns
at least every 100 ms while there is one (`FetchTimeout`). The dead-letter journal and the database are one
success: both are terminal. A write that reached neither is `NotDurable`.

### Room

`room` is the actor's record; `busy` says which await it is suspended in. A command is
one action, except where it waits: opening a round
(`OpenSucceeds`, `OpenFails`) and the timeout of a game (`ForceEnd`, `ForceSettle`),
between whose halves only sessions move. `CheckAllReady` is the routine most handlers end with
and is part of their actions.

`session` holds what a player's connection is waiting for. The checks a session makes on
the room's snapshot are steps of their own (`RequestStart`, `JoinCheck`), since the actor acts
later and does not repeat them all. A join is `JoinCheck`, `JoinAbort` for a late
player, `JoinAdd` in the actor, `JoinRegister` in the registry; between the last two it can be lost
(`JoinUnanswered`), cancelled (`JoinCancelled`, whose guard spawns `Compensate`) or refused.

Assumptions of the model:

- The room is not managed, so it has no definition in `managed_rooms`.
- A round store is configured and `playing_timeout_offset_secs` is positive, so that a game has a deadline.
- A snapshot read by a session is some earlier state of the actor. The model lets
  the session read the current state and wait as long as it likes before it acts,
  which gives the same interleavings.
- A command with a stale origin is refused and changes nothing; what a server-wide
  kick leaves queued is stale, so `LeaveAround` empties the player's session.
  A room kick does not make it stale: `KickUser` may leave the session `left` with a command in the mailbox.
- A play record is fetched before `SubmitResult` is queued. It is an input.
- `Compensating` after a refusal of the registry needs a third player; with two users that branch
  is not reached (see the plan). The compensation of a cancelled join is.
- The mailbox command `CheckAllReady` has no sender and is left out.

### SessionAuth and SessionHandover

Each connection of one account has a `phase`: `idle`, `found` (looked up under `user_registration_gate`), `bound`
(`set_session`), `flushed` (the client has the answer), `active`, and on failure `undoing`, `closing`, `closed`. A User object is named after the connection that
made it; `binding[u]` is its session and generation, `prev[s]` what `set_session` replaced. `Undo` is
`rollback_failed_auth` with `ReplaceIfMatches` and `ClearIfMatches`. The task that accepted the
connection (`Publish`, `GiveUp`) puts it in the table of sessions, the worker of lost connections takes notices
one by one (`TakeNotice`) and dangles a user in steps, since it waits
for the gate. `GraceOver` is a timer, which compares the mark it was started for. `races` names what may
fall between the look-up and the end of an authentication: another authentication, a timer, a kick, a dangle, and `slow`, a
deadline that cuts the handler off.

`SessionHandover` knows of each connection only whether it serves, has served, and is connected: a new one takes over
from the old at once and for good, and until then the old one stays. The mapping calls a session serving when it is active or
the user's old one whose replacement may still be undone.

### The modules of MCConnection

`CommandPath`: one command has a place in each of the dispatch task, the mailbox worker and the room, and a
`due` that moves from `ample` over `reserve` (nothing may be committed any more) to `over`. `effect` is what a command has done: what it asked for, nothing, or
something on the side; `told` is what the client heard. A handler that refuses may have left something: a Ready whose round cannot open sends everybody back to getting ready, a
second score replaces the first, a late score gives its player up, a late join gives up the player's part in the game, and a console line of an administrator is always answered by an error. `LeavesTraces` names these kinds.
`overtaken` allows the first deadline to pass while a room is at the command.

`OutboundGate`: the room is three counters, of what the snapshot covers (host, members) and what it does not (chat). An
event carries its count and the sequence of the room. `wire` is what the client heard: the snapshot, then events.
The task of the connection takes one message at a time. An activation empties the buffer one event after the
other (`draining`), and the room goes on meanwhile; only then does what is taken go straight to the wire.

`MonitorAuth`: the authentication of the sessions that are no players, `slot` being `room_monitor`.

`PhiraClient`: calls with `attempt` and `deadline`; the breaker is `failures` and `openUntil`, which `Fail` and `Trip`
write in two steps, as the atomics are. A caller may drop its call at any point (`Dropped`), as the timeouts of `select_chart` and of the mailbox worker do: such a
call is counted in `requests` and in nothing else, and `tally.dropped` is the model's own count of them. Time is in ticks, and a timer that is due fires before the next.

`Shutdown`: main's phases in `stage` with the time `left`; the supervisor's channel `mail`, and for each
task its `life` and who holds its handle.

### The modules of MCRecords

`Recovery`: the stages of `recover_state` as `stage`, over the log, the dead-letter file (`letters`), the files set aside
(`parked`), the table of rounds and the settings of one persistent room. An event is
a completed round or a numbered snapshot of lock, cycle, visibility, chart and host; the tournament mode, which recovery leaves alone, is `contest`. `Crash` is allowed at any stage.
`Tear` is an append to the dead-letter file that stops in its line: the next letter (`Append`) becomes part of that line, is acknowledged, and is gone with the file. `MaxLetters` bounds the snapshots among the dead letters.

`HighFrequency`: items are their admission numbers, in `main`, `overflow`, `batch`, `flight`; then `committed` or
`dropped`. A write whose answer is lost is tried again (`WriteRetried` leaves the copies stored or not).

`Presence`: one user with his events through the log, in ticks; `lived`, `played` and `parted` are the truth,
`row`, `total`, `visits`, `logins`, `left` the table's version of it. A loss is `DangleBegins` (the room time ends, and the gate is awaited; a reconnect may have it) and then one of
`Lose` (a disconnect event now), `LosePlaying` (in a game: no event, and if the grace ends both the disconnect and the offline event, with the time it ended) and `LoseAtOnce` (in a game, with no grace: both
at once). `parted` is therefore when the server took the user to be lost, not when the line went dead. `Kick` names the session if the user has a connection, else none. `Admit` is the task of an authentication, which the log may refuse.

`ManagedRooms`: one room id. `def` is the map, `row` the table, `managedLive` the actor's room. `op` is the operation that holds
the gate and the step it has reached; `tells` are the tasks spawned for changes of the host, `timers` those of reserved rooms. Where no pool chooses the chart, the host of a hosted room
may (`SelectChart`); his choice is the live room's alone (`chosen`).

`Moderation`: a list in memory, edited by administrators in the steps read, change, put back, write, answer; the file as
a whole or torn content; a client between the ban check and the table of sessions. A write may fail before or after the file was cut (`"unwritten"`): the administrator is then told of an error,
the edit is in force in memory, and the next write makes the file whole again.

`RoomDirectory`: `rooms` by id, generations of rooms with `members`, `users` and mailboxes, the pointer `at`, and for every actor of the model
the operation under way (`op`).

### The modules of MCExtensions

`PluginRuntime`: the queue and its gate; the `turn` of one event over the plugins with its deadline; per plugin the state of
the host (enabled, quarantined, loaded), of each call (`asked`, `permitted`, `running`), handlers, and inits. A thread
of a call cannot be stopped: a deadline only stops waiting for it.

`PluginTcp`: the actor's `inbox` with connections and quota, the read task of each handle, a bounded mailbox `box` per connection with
`gen`, and workers. Receives merge and evict, lifecycle events are never refused while a receive can be evicted.

`AutoUpdate`: names refer to inodes, a file is a list of chunks of versions; `Activate` and `Replace` are the two renames.

## 3. The runs

| run | question | bounds | size |
|---|---|---|---|
| `wal_concurrent` | Two tasks and kills at every step: does the log lose or revive anything? | 2 tasks, 2 admissions, 2 kills, 2 failures, marker removed once | 467 thousand states |
| `wal_damage` | Does an unknown tail, a failed compaction or a vanished file make the log break its promise, or refuse? | 1 task, 3 admissions, 3 kills, 2 failures, file vanishes once | 3.5 million |
| `worker_order` | Order, fence, no repetition, honest readiness | 3 events, channel of 1, 1 kill, 1 failure of any kind, deadlines | 1.6 million |
| `worker_live` | Is everything admitted processed, and every flush answered? | 3 events, channel of 1, 2 failed writes or ACKs, no kill | 199 thousand |
| `room_round` | Are rounds opened, played and settled consistently? | 2 players, 2 rounds, 1 failing open, 1 removal, 1 lost join | 2.5 million |
| `room_live` | Does a game end? | as above, without a store failure or a lost join, in a permanent room that cycles its host and is switched to and from a tournament | 709 thousand |
| `session_calm` | Does one session serve, and does a failed one give the account back? | 3 connections, one authentication at a time, handlers cut off anywhere | 200 thousand |
| `session_zombie` | violation: a player who is away and whom nothing removes | as above, no handler cut off | |
| `connection` | Are answers true, is what is heard complete, do breakers, monitors and the supervisor hold? | 2 commands; 4 events in the room, a gate of 2, a queue of 3; 3 monitors; 3 calls with 1 retry in 5 ticks; 2 tasks | 437 thousand |
| `records` | Do the places that hold one fact agree, and is what was reported stored, once? | 2 rounds, 2 crashes; 4 items, queues of 2 and 1; 2 sessions, 1 crash, 3 instants; one room made twice, 2 users, 2 charts; 2 administrators, 3 commands, 1 crash; 2 players, 2 ids, 2 rooms | 3.0 million |
| `extensions` | Are callbacks in order, quotas right, executables whole? | 2 plugins, 2 events, queue of 2, 1 command; 2 handles, 2 workers, mailboxes of 2, 2 reads; 2 releases of 2 chunks, 1 crash | 894 thousand |
| `shutdown_durable` | violation: an exit reported as clean whose writers were not drained | 2 tasks | |

**Why these bounds.** The log: two tasks give every pair of calls; two events
give one that is admitted while another is acked or compacted away, and one that is
refused between two that are not needs three, which `wal_damage` has; a second kill falls into
the start-up after the first; two failures allow a failure while a failure is handled.
The worker: a channel of one is full as soon as anything is in it, so that the third event
takes the way over the scanner while the second waits and the first is executed. The room: with two
players one can be done while the other is not, one can leave as host and one as last,
and one can come back; two rounds show what the first leaves behind, and one failure of
the store adds a third state for a round id to be in. `room_live` leaves out what `room_round` has, to pay for the tournament mode, in which the ready countdown does not fire. No case of the hazards needs
more than one removal, and with two, `LeaveAround` and `KickUser` of different
players, the games of the run are mostly empty rooms.

Sessions: three are the one in service, one that fails to replace it, and one that replaces
either. The gate: it holds two events, so that the third overflows and the fourth comes
after the overflow; a queue of three is full when the dispatcher is slow. Commands: one runs while the other waits behind it in the mailbox.
Phira: two failures trip the breaker, the third call meets it open, half open, or is already past its check. Recovery: the second crash falls into the recovery
from the first. Telemetry: with queues of two and one, four items fill both and one is refused or dropped. Presence: the second session comes before or after the crash, and before or after the offline event of the first is written. One dead letter (`MaxLetters`; in `Recovery` one snapshot among them, and any number of completions) is enough to be replayed over what is newer; the same bound is on the authentications that wait to be logged.
Managed rooms: two makes of the same room are what its timers confuse. Moderation: two edits of one list overlap, and a third undoes one. Rooms: two ids are the least for a move, and each user, with the administrator, is in the middle of one operation.
Plugins: one runs while the other waits for its turn, and the second event waits behind the first. Plugin TCP: with two handles and two workers, one
connection is delivered while the other ends. Update: the second release comes while the first is downloaded.

**Fairness.** `worker_live`: weak fairness of the tasks of the process
(queueing, worker, scanner, callers), because the runtime polls each woken task;
none for admissions, deadlines or kills. `room_live`: weak fairness of the timeout
of a game, of its second half, of the end of a mailbox whose room is gone and of
the store's answer. The mailbox task runs the maintenance at least once a second, also when commands keep coming,
since the command branch checks the elapsed time; an `open_round` ends by
its timeout. `session_calm`: weak fairness of the steps of an authentication (each has a deadline), of the accept task, of the heartbeat
that finds a closed transport, of the close after a kick, of the worker of lost connections and of the timers. `connection`: of the clock and the two
tasks of a command and the room's actor (`CommandPath`), and of the supervisor, a spawner's registration and main's phases (`Shutdown`).
Players, peers, joins and operators are not fair: they may stop. `records` and `extensions` check no liveness.

**Deadlock.** Every configuration says `CHECK_DEADLOCK FALSE`: events, kills, failures, time and commands are bounded, the
log's tasks may have nothing left to call, the worker ends after a shutdown, a room stops, sessions end, and the process exits.

**What the properties say.** For the log: `NoLoss`, `NoGhost`,
`SequencesDistinct`, `CleanMarkerOwesNothing`, and `ImplementsLedger`, the refinement.
`NoLoss` and `NoGhost` are statements about the file; the ledger adds what the process reports.
For the worker: `InOrder` (what is executed is a prefix of what was admitted),
`FlushFence`, `DrainedMeansReplayed`, `RepeatedOnlyByReplay`, `NobodyIsStuck`,
`AdmittedIsProcessed`, `FlushCompletes`. For the room: `PlayingIsOpen`,
`NoRoundDropped`, `SettledOnce`, `ResultOrAbort`, `AcceptedResultsSettle`,
`GameEnds`. For the sessions: `BoundAsTold` (a session is bound under the generation it was told, through every
roll-back), `PresenceAgrees`, `ImplementsHandover`, the refinement, and `ClosedIsLetGo`.

For the composites, each part by its component:

| property | says | troubles it allows for |
|---|---|---|
| `CommandAnswersAreTrue` | what is refused was not done, will not be, and leaves a trace only if its kind may; ok means that it was done; nothing stale begins in a room | reconnects and refusals; the first deadline passing at a room excepted for refusals |
| `EveryCommandIsAnswered` | answered, or the connection closed | all |
| `GateIfCalm` | heard in order; completely | order: all; complete: none |
| `OneRoomMonitorInTurn` | whoever serves as the room monitor is in the slot | authentications in turn |
| `PhiraIfCalm` | one request after the deadline at most; an open breaker rests the service; a call is counted once, unless its caller dropped it | deadline and counting: overlap; rest: none |
| `CriticalEndsAreCounted` | the end of a critical task is noticed | all |
| `RecoveryIfCalm` | an admitted completion is not forgotten; only the unfinished are aborted; settings, but for the tournament mode, come back | forgotten: all but `torn`; aborted: all but `twice` and `torn`; settings: `twice`, `torn` |
| `TelemetryIsTrue` | a flush or shutdown reports what is so; nothing stored twice | lost answers, drops, deadlines |
| `PresenceIfCalm` | the table settles on the session, the logins and the last loss as the server takes it; time played was lived | crashes, all ways to be lost; none of `late`, `waits`, `kicked` |
| `ManagedAgreeIfCalm` | map, table and live room agree at rest, but for a chart the host has chosen | restarts, timers, the host's choice; none of `overlap`, `refused`, `unsaved`, `cycle`, `console` |
| `ModerationIfCalm` | what an administrator was told holds over restarts; the banned are out | answers: `joining`, `plugin`, `unwritten`; out: `racing`, `unwritten` |
| `DirectoryIfCalm` | pointer, registry and actors agree at rest; in one room at most | agree: none; one room: `crossing`, `refused` |
| `PluginIfCalm` | events in order; a flush means heard; nothing left behind | order: all but `stall`, a thread held up right before its claim; a flush: `fails`, `busy`, `renamed`; left behind: `api`, `stall` |
| `TcpIfCalm` | one callback at a time, none after the end; quotas | none |
| `UpdateIfCalm` | the executable is a whole release; nobody is thrown out | whole: crashes, `joining`; out: none |

Every property of a passing run has a mutant, a
changed definition beside the original with a name like `OpenFails_PlaysAnyway`, that makes
TLC find it violated under the same configuration. `TypeOK` is proved of the log, the worker and the sessions; the proofs
of the composites have types of their own, and elsewhere it is there to be read.

## 4. The proofs

`PersistenceWal_proofs` proves, for any set of tasks and any number of admissions, kills, and
failures:

| theorem | property | under |
|---|---|---|
| `TypeCorrect` | `TypeOK` | nothing |
| `InductiveInvariant` | `IInv` | `Mendable` |
| `NothingLost` | `NoLoss` | `Mendable` |
| `NothingResurrected` | `NoGhost` | `Mendable` |
| `Refinement` | `ImplementsLedger` | `Mendable` |
| `SequencesStayDistinct` | `SequencesDistinct` | `Mendable` |
| `CleanMarkerVouches` | `CleanMarkerOwesNothing` | `Guarded` |

`Mendable` excludes two things from the constants: the append whose tail cannot be classified (`fatal`), since
then the promise is to refuse rather than to keep, and the loss of the log file itself. Those
stay with `wal_damage`. The removal of the marker alone is allowed.
`Guarded` is what the clean marker needs, and different: the log file may vanish while the process is
down and an append may end in an unknown tail, but the marker has to be written when it is due and nobody removes it; and
behind an unknown tail no other task is already on its way to an append, which is so with one task (`NoAppendAfterCorruption`, section 5, is
what happens with two).

`NoLoss` is not inductive. `IInv` adds: `GateInv`, the task holding `io_gate` is the
one between the two halves of an admission or a compaction, and tasks only work in a running process; `FileInv`, a file that may be appended to ends in a
complete synced line, and no line in the middle is bad; `KeptInv`, an accepted
event nobody tries to close has its admission in the synced part of the file, and an
ACK frame is always one somebody tried to write; `FreshInv`, an event on its way to its
append, or not yet offered, occurs nowhere else; `SettledInv`, a refused event is in
no frame and no report, and an acked one that still has its admission has its ACK in the synced part. `FileInv` is what makes a repair keep everything, `FreshInv` what makes an admission new to the ledger, and `GateInv`
what makes a failed append roll back its own frame only.
`wal_concurrent` checks `IInv` with TLC on its instance.

`SequencesDistinct` is one conjunct short of being inductive beside `IInv`: a process that admits knows a number at least
as high as any in the file (`SeqInv`). It does not follow from the counter growing, since after a kill it may not.

`MarkerInv` follows a debt from the file to the marker. `TailInv`: the file that is appended to ends in a complete synced line, or the process is degraded and no task is at an append.
`OwedInv`: what is accepted and not being closed is in the file, whenever there is one, and a working process owes nothing without one. `VouchInv`: a marker
that is clean, or that a task or the start-up is about to write clean, stands for no debt, and there is no marker only before the first admission. A file that
vanishes then leaves a marker that is not clean, or no debt.

The proof has a lemma per conjunct with a case per action, and one for each operator on files (`Extended`, `Synced`,
`Repaired`, `AfterKill`). The refinement maps every action to a step of the ledger
or to a stutter.

`PersistenceWorker_proofs` proves, for any set of callers, any number of events, kills and failures, and any capacity of the
channel:

| theorem | property | under |
|---|---|---|
| `TypesHold` | `TypeOK` | nothing |
| `InOrderHolds` | `InOrder` | nothing |
| `FlushFenceHolds` | `FlushFence` | nothing |
| `DrainedMeansReplayedHolds` | `DrainedMeansReplayed` | nothing |
| `RepeatedOnlyByReplayHolds` | `RepeatedOnlyByReplay` | nothing |
| `NobodyIsStuckHolds` | `NobodyIsStuck` | `"read" \notin Faults` |

The difficulty is that a number is not a name: after a kill the counter may give the number of an acknowledged event to a
new one, so "numbers grow" holds only of what is pending (`OrderInv`), and what the gate has passed is not what was done before.
`GateInv` says what the gate means: a pending event with a number below it is done; whatever is on its way to the worker,
in the channel, the buffer, the scanner's old list or a sender's hand, is pending or has been passed; and an event whose ACK is
tried again is done and has been passed. `LogInv` bounds the numbers of the
pending by the file and the counter, across compactions and restarts; `WorkInv` ties the event at work to the gate. A commit then keeps the
order because each earlier event is acknowledged, hence done, or pending with a smaller number, hence passed, hence done.
The gate moves to the least number that is buffered or pending (`GateMoves`), so it passes nothing that is not done; a gate that
looks at the buffer only (`GateAfter_IgnoresLog`) breaks this step.

`ReplayInv` says that events of earlier processes are done or in `replayPending`, and that an event that is done and still
pending is of this replay, passed, or at work. `FlushInv` says that the target of a caller that waits or heard Ok bounds the numbers of everything pending
that was admitted before its call. `NobodyIsStuck` needs the log to be readable: with a failed read the event is taken from the channel and
dropped while it stays in flight (section 5).

`Room_proofs` proves, for any set of players, scores and modes and any bounds, with no
further assumption (not even that a round store ever fails or that `MaxUsers` is positive):

| theorem | property |
|---|---|
| `RoundInvariant` | `IInv` |
| `OnlyOpenRoundsArePlayed` | `PlayingIsOpen` |
| `NoRoundIsDropped` | `NoRoundDropped` |
| `SettledAtMostOnce` | `SettledOnce` |
| `FinishedOrAborted` | `ResultOrAbort` |
| `AcceptedAreSettled` | `AcceptedResultsSettle` |

Here `IInv` has three parts. `StoreInv`: what is opened was drawn, what began was opened,
and what is settled began and was settled once. `Follows`: in Playing, the record's round is the one round
that began and is not settled, and it holds every result taken; in any other phase every
round that began is settled and the record names none of them. `BusyInv`: the actor waits for the store only
in the ready phase with a round of its own, and for the second reading of the registry only in Playing. The last is
why a handler cut in two at its await cannot be overtaken: while the actor waits no other command runs.
Most handlers end in `CheckAllReady`, so the heart of the proof is the lemma `CheckStep`: if the
record a handler hands to it follows its round, the state it leaves satisfies the invariant. Each action then only has to
show that its own change of the record keeps it following. The registry does not
occur in the invariant: whoever comes and goes in it, also without the actor, can delay a settlement but not lose or repeat one.

`SessionAuth_proofs` proves, for any set of connections and every set of overlaps (`Environments`), also those the run
leaves out:

| theorem | property |
|---|---|
| `InvariantHolds` | `TypeOK` and the four conjuncts below |
| `BoundAsToldHolds` | `BoundAsTold` |
| `PresenceAgreesHolds` | `PresenceAgrees`, under `Calm` |
| `ImplementsHandoverHolds` | `ImplementsHandover`, the refinement, under `Calm` |

Generations are not monotonic: `replace_binding_if_matches` puts back the session that was replaced with the generation that
one had, so "it only grows" would be false, and `BoundAsTold` alone is not inductive. The invariant adds
`HasUser`, a connection in an authentication has a user; `NotYetBound`, before `set_session` no binding and no `prev` names the
connection; and `PrevAsTold`, what a connection remembers to give back is a session under the generation it was told. A roll-back then restores only what
was true of the session it names, and a session is bound once, so what it was told never changes. `ReplaceIfMatches_Bumps`, the roll-back with
a new generation, is the mutant that breaks it.

`Calm` says that no set of `Environments` names an overlap: no step of another task falls between the lookup and the end of an
authentication, except that its handler may be cut off at any point (`slow`), as its deadline does. With an overlap
`PresenceAgrees` is false (`TimerRace`, section 5), so the condition is what the theorem is about. `CalmInv` then says what
an authentication may count on. `OneByOne`: there is one, in the gate. `Begun`: a user is named by a session that has begun. `UnderWay`: whoever
authenticates does so for the user that is registered and holds his binding once he has it, and one he registered himself is nobody else's. `Away`: a mark
is that of the session that is bound and closed, and the worker that puts it there is not at it during an authentication. For the refinement
`Restorable` adds that the session which a failed authentication gives the account back to is active, so the roll-back
maps to "until then the old one stays".

The proofs about the composites show, for any number of commands, events, calls, monitors, rounds, items, sessions, rooms, plugins, releases and
crashes, and every set of troubles (all of these are constants):

| theorem | says | under |
|---|---|---|
| `MCConnection_proofs!AnswersAreTrue` | what is refused in time was not done, will not be, and leaves at most the traces of its kind; what is told ok was done | nothing |
| `MCConnection_proofs!NothingStale` | nothing of a replaced session or after its deadline begins in a room | nothing |
| `MCConnection_proofs!CommandAnswersHold` | `CommandAnswersAreTrue` | nothing |
| `MCConnection_proofs!OneRoomMonitorHolds` | `OneRoomMonitorInTurn` | `NoOne \notin Monitors` |
| `MCConnection_proofs!PhiraIfCalmHolds` | `PhiraIfCalm` | `PhiraLimits`: times and limits are numbers, the calls finitely many |
| `MCConnection_proofs!GateIfCalmHolds` | `GateIfCalm` | `MaxPending \in Nat` |
| `MCRecords_proofs!RecoveryKeeps` | the three parts of `RecoveryIfCalm` | `MaxChanges \in Nat` |
| `MCRecords_proofs!RecoveryIfCalmHolds` | `RecoveryIfCalm` | `MaxChanges \in Nat` |
| `MCRecords_proofs!TelemetryIsTrueHolds` | `TelemetryIsTrue` | `MaxItems`, `BatchSize \in Nat` |
| `MCRecords_proofs!PresenceIfCalmHolds` | `PresenceIfCalm` | three bounds are numbers |
| `MCRecords_proofs!ManagedAgreeIfCalmHolds` | `ManagedAgreeIfCalm` | nothing |
| `MCRecords_proofs!ModerationIfCalmHolds` | `ModerationIfCalm` | the user is not an entry of the list, nor the timer an administrator |
| `RoomDirectory_proofs!PlacesHold` | the two parts of `DirectoryIfCalm` | `Admin \notin Users` |
| `MCRecords_proofs!DirectoryIfCalmHolds` | `DirectoryIfCalm` | `Admin \notin Players` |
| `MCExtensions_proofs!PluginIfCalmHolds` | `PluginIfCalm` | `alpha # beta`, `MaxEvents \in Nat` |
| `MCExtensions_proofs!TcpIfCalmHolds` | `TcpIfCalm` | finitely many handles, none of them `""`; `MaxReads \in Nat` |
| `MCExtensions_proofs!UpdateIfCalmHolds` | `UpdateIfCalm` | `MaxReleases`, `Chunks \in Nat` |

The assumptions say of what kind a bound is, or that two names differ. What has to be absent for a part of a property to
hold is written in the property (section 3), and those sets are chosen by `Init`: nothing is assumed of them. Each step of a composite is one of a component or leaves the
component alone, and so an invariant of a component is one of the composite.

*Commands.* The path of a command is cut into three places, which can disagree for a while. `Answered` says that whoever has answered is
done with the command, so that there is one answer; `Effects` says who may have done it, or left something on the side (the room it was sent to, or the handler of a
chat, a join or a console line), and that an ok is about what was done; `Final` says that after a refusal
the room has either not been asked, is done with the command, or still has it queued past its deadline, in which case it will
not begin it. The last is what makes a refusal final, and fails when a deadline passes while a
room is at the command (`overtaken`, section 5).

*Monitors.* `MonitorsInTurn` says that nobody serves as the room monitor while another is on the way to it, and that whoever is
past the binding is in the slot. Without the check of the slot (`Check_Blind`) the first part breaks.

*Phira client.* `PhiraInTime` bounds by the record of a call when its attempt may begin: after `attempt` requests and pauses, and no
request begins after the deadline. `PhiraAlone` says that a call which overlaps with none was let in by the breaker and that nobody touched it since; `PhiraCounted` that each request is
a success, a failure, dropped by its caller, or under way, over the two writes that a failure takes.

*Gate.* An event is in the queue, in the buffer, or on the wire. `GateOrder` says for each part of the room that what was written is older than
what is kept and that older than what is queued, all newer than the snapshot; this holds whatever overlaps, also while the buffer is emptied and the room goes on.
That nothing is missing needs the calm: everything on its way is newer than the cut-over, so none is taken for covered
(`GateCurrent`), and the buffer has room for what the queue holds ahead of the message that empties it (`GateRoomy`); then what the snapshot lacks is in one of the three places (`GateWhole`).

*Recovery.* An admitted completion is followed through the places where it can be: the log, the dead letters, the files
set aside, the table. `RecoveryParkedIsKept` says, while the files are read, that a completion that was set
aside is still to be read, was refused, is in the log or the dead letters again, or is written, unless an append to the dead letters stops in its line (`torn`); `RecoveryInStages` says where the completions can no longer be at each stage if the database does not refuse one
twice either (`twice`), so that when the aborting begins all of them are written; `RecoverySnapshotsInOrder` says that a snapshot in the log is
no older than the one stored and no newer than the live room or its next save, unless one is overtaken (`stale`) or a default is due too early (`slow`).

*Telemetry.* `TelemetryAccounted`: an admitted item is in a queue, in the batch, in flight, committed or dropped. `TelemetryClosing`: no item is behind
the message of a shutdown, so that what the worker holds when it reads it is all there is. `TelemetryTold`: an answer stands for what is committed.

*Presence.* The log still holds events the tables have not seen. The invariant (`PresenceSettling`) says that there is a chain of tables,
one per event of the log, from the table as it is to the one it will be, and what is true of that last one: every login, the last loss, the session there is, and that the time it counts
together with the time still running does not exceed the time lived. In the calm (no trouble) the authentications are in the log at once and in order. A write takes the first link off the chain, an event adds one.

*Managed rooms.* `ManagedIInv` says for each point of an operation what the map, the table and the live room have in common: an update, say, is in the live room first,
then in the table, then in the map, and an undo goes back from where it failed. A chart the host has chosen is outside the agreement until the definition is applied again.

*Moderation.* `ModerationKept`: what was answered holds in memory, and in the file when nobody writes it, for everything no command has in hand; what a command has written
is done in both. Of the list this is so while commands come one at a time, of the ban in any case. `ModerationEntering`: a client past the check is not one who is being banned.

*Places.* `Sound`, unless two operations are about one player: each message in a mailbox is what one party waits for, and for each step of an
operation it says in which rooms its player may still be. A player is thus in no room but the one his pointer names. `Calmly`, if
nothing crosses and no actor refuses: operations hold different ids, a room that an operation counts on is in the map, and so a player is in the room that his pointer names.

*Plugins.* The events in the queue are in order, and no call is of a later event than that of the turn (`PluginAhead`); an event
accepted is queued, at work, or was heard by whoever was there (`PluginServing`), which is what a flush waits for; and a plugin that is not registered has nothing under way, and a handler only
while the administrator is about to clear it or to load it (`PluginTidy`).

*Plugin TCP.* `TcpLife` lists what the read task, the actor and the messages between them may say of a connection at the same time; `TcpCounted` that the counters are the sizes of
the sets they stand for; `TcpDelivered` that a callback no claim stands for any more has no successor.

*Update.* `UpdateSound`, for one applier at a time: it writes to a file nobody runs, what it has verified is what it moves, and the executable is whole and recent and has no other name.

Every invariant that a passing run checks is thus a theorem. Only model-checked:

- the liveness properties (`AdmittedIsProcessed`, `FlushCompletes`, `GameEnds`, `ClosedIsLetGo`, `EveryCommandIsAnswered`, `CriticalEndsAreCounted`): liveness under fairness is beyond the prover, as are ENABLED and induction over data;
- `TypeOK` of the room, whose bound on the members needs a sum over a function;
- the log's refinement with an unclassifiable tail or a lost file (`wal_damage`).

`CleanMarkerOwesNothing` is checked and proved with a marker that can be written when it is due. What holds when that write fails is neither checked nor proved.

## 5. Where the code and its text disagree

Two runs end in a violation on purpose:

- `session_zombie`: a reconnect within the grace period that fails after it was bound has taken the dangle mark away, clears the binding, and leaves a player whom nothing removes.
- `shutdown_durable`: an early phase uses up the shared deadline; main passes over the flush and shutdown of both writers and reports a clean exit.

The other disagreements are formulas of the modules that no run contains; TLC refutes each one with the constants given
here, the rest as in the run named. All are quoted with the lines they contradict under `findings` in `PROJECT.json`.

The log, the worker and the room:

- `NoAppendAfterCorruption` (`wal_damage` with `TwoTasks`): the degraded mask is read before `io_gate` is awaited, so a task already past the check appends to a tail another has just found uncertain.
- `KillsRefuseOnlyCorruption` (`wal_concurrent` without failures): a compaction that empties the log removes the file and then writes the clean marker; a kill between them makes the next start refuse.
- The loss of a log cut to nothing (`Disasters` with the truncation): a start that refuses it leaves a worker that answers Flush; the compaction which follows records the loss as clean, against `CleanMarkerOwesNothing`.
- `AdmittedIsProcessed` (`worker_live` with a kill): the sequence gate skips a gap only when something higher is buffered at that moment; with a failed read, an event dropped because the log could not be read stays in flight, and the scanner skips it.
- `HostHandedOver` (`room_round`): a server-wide kick, and a disconnect in a game without grace, remove the player without the actor; the host is not handed over.
- `SequencesNeverRegress` (`wal_concurrent` without failures): a compaction drops the acknowledged event with the highest sequence while the marker stays active with an older maximum; after a kill the counter restarts lower. `marker.rs:3` says it never does. No two frames of the file share a sequence all the same (`SequencesDistinct`).
- `RepliesAreKept` (`worker_order` with two callers): a second control message is dropped when one is deferred.
- `NothingBehindShutdown` (`worker_order`): a shutdown whose caller gave up reopens the queue although its message is still in it (`persistence/worker.rs:1133`).
- `AcceptedScoreStands` (`room_round` with two scores): a second result is refused as already uploaded after it has replaced the first.
- `NoGameInAnEmptyRoom` (`room_round`): when the last player leaves in the ready phase, "everybody is ready" holds of nobody, and a round is opened.
- `NoFullReadyDeadState` (`room_round`): after a failed forced start the countdown is off; a kick of the last player who is not ready then leaves a room in which all are ready and nothing starts.

Connections (`connection`; the constants are those of the component):

- `PresenceAgrees` (`session_calm` with `Environments <- TimerRace`): a reconnect looks the user up under the registration gate and binds after it; a grace timer in between removes the player, who goes on.
- `Complete` of `OutboundGate` with `"flood"`: the gate drops the oldest event and activates all the same; with `"gap"`: what is said between snapshot and binding is heard by nobody; with `"leave"`: a leave without the actor carries an old sequence and is taken for covered.
- `ErrorMeansNothingHappened` of `CommandPath`, with `FALSE` too: handlers change something and then refuse (a second score, a round that cannot open, a late join). `ErrorMeansNotDone` with `TRUE`: a deadline that passes at the room is told as an ordinary error.
- `OneRoomMonitor` of `MonitorAuth` with `TRUE`: two authentications overlap and both serve.
- `InTime` of `PhiraClient`: a request under way does not see the deadline; `Rests` with `TRUE`: only the start of a call asks the breaker; `EveryRequestIsCounted`: a call that its caller drops is a request without an end.
- `NothingIsDetached` of `Shutdown`: a registration behind the shutdown is dropped with its handle. The order of `ShutdownOrder` is used by nobody.

Records (`records`):

- `AbortedOnlyUnfinished` of `Recovery` with `"twice"`: a completion that fails again is a dead letter, and its round is aborted; `RestoredAsStored` with `"stale"` or `"slow"`: old settings over newer ones, the default over the stored ones; `NothingForgotten`, and with it `AbortedOnlyUnfinished`, with `"torn"`: a letter behind a torn line merges with it, is acknowledged, set aside as malformed and deleted with its file; `ModeRestored`: the tournament mode does not come back.
- The reconciliation of `HighFrequency` reports an item as pending that was committed behind a dropped one.
- `PresenceSettles`, `TimeIsLived` of `Presence` with `"late"` (a dead letter: an old authentication takes the row back), `"waits"` (the task that logs an authentication is overtaken, refused or lost) or `"kicked"` (the events of a kick without a connection name no session); `TimeIsInRooms`: the time since the start of a session is still added; `RoomTimeIsCounted`: who creates a room, or comes back in grace, is not timed.
- `Agree` of `ManagedRooms` with `"refused"`, `"cycle"`, `"overlap"`, `"unsaved"` or `"console"` (the console changes the live room alone); `ChartIsKept`: a restart takes the host's choice back; `ExpiryTakesItsOwn`: a timer disbands whatever has its room's name.
- `AnswersHold` of `Moderation` with `"racing"` (a lost edit) or `"torn"` (a file cut by a crash is read as empty); `BannedIsOut` with `"joining"` or `"plugin"`; `ErrorChangesNothing` with `"unwritten"`: memory is changed before the file, and the error of the file is the answer.
- `PlacesAgree` of `RoomDirectory` with `"refused"` (a move undone by halves), `"crossing"` (rooms are removed by id) or `"overlap"` (a move does not hold the pointer).

Extensions (`extensions`):

- `FlushMeansHeard` of `PluginRuntime` with `"api"` (a busy plugin is skipped) or `"slow"` (one deadline for all plugins); `NothingLeftBehind` with `"renamed"`, `"fails"`, `"slow"` or `"busy"`.
- `Delivery` of `PluginTcp` with `"close"` (a new mailbox while a callback runs); `Quota` with `"early"` (registered after its end) or `"late"` (bytes counted after the close).
- `ExeIsSound` of `AutoUpdate` with `"both"` (two appliers, one file); `NobodyIsThrownOut` with `"joining"`. With `Bot` the executor waits forever.

Seen while modelling, and visible in the actions: `KickUser` leaves the member entry, as does a join whose `AddUser` was not answered in time; a join may register
in a room dropped meanwhile; a player who registers between the two halves of a timeout leaves the game without a
deadline (the exception in `GameEnds`); a kick of the last unfinished player does not settle the round, which then waits for its deadline;
the client counts no failures by endpoint.

## 6. What is not modelled

`PROJECT.json` lists each component with the reason, and for a partly modelled one what is left out of it. Whole components:

- the database: schema, connections and SQL text; the statements others rest on are in their modules;
- statistics of the persistence, views, queries, configuration, the console's text and the HTTP and live-stream handlers: they read or forward;
- the event bus: a ring that drops the oldest by design, through which nothing goes that must not be lost;
- rate limits and the delays and wording for the official client: they refuse or wait before anything modelled changes;
- the load generator; the wire format, the plugin API and SDK crates.

Inside the modelled parts: monitors, locks, names, live and progress messages of a room; the priority
of shutdown over other channels and the metrics of the worker; fields of a frame
other than its kind, event and sequence; the rewrite of version-1 logs; the start of a worker on a refused log; telemetry commands, which pass by the mailbox;
what a plugin does inside a call; the plugin's TCP listeners.

Where an action is coarser than its code:

- An append that ends in an unknown tail (`AdmitFatal`) is told as an error but is not in `refused`: its frame may be in the file, so `NoGhost` makes no claim of it.
- `ScanQueue` merges the exits of the scanner's queueing loop, `Control` the failure and the timeout of a control call, and `AckEvent` an ACK with the bookkeeping of its retry.
- `Room.Settle` takes the queue to accept the completed round; if it refuses, the code logs that, calls the round `PendingAdmission` and goes on (`handler.rs:341`), so that "settled" means handed over. The first finisher extends the deadline of the others (`handler.rs:1832`); the model's deadline is a flag, and a set deadline may pass at any time.
- `SessionAuth.InService` stands for `CommandOrigin::is_current` (`session.rs:368`), which does not look at the stream, together with the open stream that a command needs to come in. `Enter`, `Kick` and `GraceEnds` (also that of `Presence`), and `RoomDirectory.KickFromServer`, span awaits in the code (`session_room.rs:618`, `disconnect.rs:62`, `session_lifecycle.rs:608`) and are one step here. What others do in between is in the modules that have the parts as steps: `Room` for the halves of a join, `RoomDirectory` for its pointer.
- `Presence` lets the log admit every disconnect and offline event; the playtime of a room is added by a task of its own, here at once; whether there is a grace, which the configuration fixes, may differ from loss to loss.
- `PluginRuntime.EventDeadline`: a blocking call that has begun and has not claimed its permit cannot be aborted; it may still claim it, which is the trouble `"stall"`.
- `PluginTcp`: the `select!` of a read task is unbiased, so a read may win over a close that is ready; this is the trouble `"late"`. `Claim` takes claim, lock and first event together, and a refused accept leaves no error in a mailbox of its own (`actor.rs:313`).

## 7. Plan

Done: the log, the worker, the room, the sessions, the way of a command and what is heard, the records, and what is added at run time.

1. Proofs: `TypeOK` of the room, by a sum over its members; the safety part of `GameEnds` (a game that goes on has a deadline); the order of
   the phases of `Shutdown`; and what of the log holds with unknown tails: that it refuses rather than forgets.
2. `Room` with three players and two places, for the refusal of the registry and its
   compensation, as a module of the join alone.
3. `SessionAuth` with two accounts on one room, to join it with `RoomDirectory`.
4. The room under `ManagedRooms`, whose live room is a record today.
5. Algorithms against reference definitions: token bucket, sliding window, the variable-length integer.
