# Netcode Simulator in TLA+

Specifications, model checks and proofs of this repository: the authoritative
server, the client that predicts and reconciles, the proxy that loses, delays,
duplicates and reorders packets between them, the flow that runs all of it in
one hosted process, what is written to packets and files, and the screens
around a session. Line numbers refer to the sources beside this directory
(`src/ServerRuntime.cpp` and so on).

## 1. The system

One process hosts a session (`SessionFlowController`): a `ServerRuntime`, a
`ProxyRuntime` and the host's own `ClientRuntime`. Other processes join with a
`ClientRuntime` only. Everything between client and server is a UDP packet
through the proxy. Every process is single-threaded: concurrency comes from the
network, from several clients, and from handlers and frames that leave state
behind for later ones. Nothing of a running session is persisted, so a crash
ends it; recordings, levels, characters and settings are files.

| Component | State it keeps | Operations | Interacts with |
|---|---|---|---|
| Command pipeline (`ClientSyncRuntime`, `PredictionBuffer`, `ClientRuntime::update`; `ServerGateway` sessions, `applyQueuedCommands`) | client: command number, recorded commands, last acknowledgement and snapshot; server: queue by number, last applied number | build, predict, send; enqueue, apply; acknowledge in snapshots; reconcile; reset on death and team change | network, player state, tick |
| Sessions, teams, control, bots (`ServerRuntime`, `ServerGateway`, `WorldState`) | vector of sessions, players, roster, control state and return team by peer id, bot runtime states by bot id | Hello, disconnect, kick, prune; team change, spectate; control switch; add, move and kick bots; tick | all handlers of the server share these |
| Cadence (`tickOnce`, `tickHostedServer`, rate handlers) | live and staged rates, intervals, two accumulators; client: staged rates | request, stage, refuse, commit; tick; publish; show | flow, server, host's client |
| Client life cycle (`ClientRuntime::update`, `handlePacket`) | connection state, timers, assigned peer id | Hello and retry, Welcome, first snapshot, rejection, timeouts, leave | flow, proxy routes, server |
| Proxy (`ProxyRuntime`) | routes by session and peer id, relay queue, link settings | relay, drop, delay, duplicate, reorder, undelayed copy for the control track | sockets of client and server |
| Hosted session flow (`SessionFlowController`) | state, objects it owns, accumulators | start, update, fail, shut down | everything, and the program shell |
| Combat and lag compensation (`processFireCommand`, `LagCompensationService`, `recordKill`) | health, scores, protection, pending events, history of positions | fire, rewind, damage, kill, respawn, publish, show | tick, snapshots |
| Runtime settings (`applyRuntimeParamChangeRequest`, `DiagnosticsModel`, `RuntimeSettingsOverlay`) | settings by participant; the client's previews, results and panel | preview, request, refuse, apply, answer, settle; press, drag, release | snapshots, proxy link, bots' links |
| Interpolation (`InterpolationBuffer`) | histories of remote actors and ghosts | push, cut at a jump, cap, sample | snapshots, frame clock |
| Client modes (`ClientRuntime::update`, `ReplayTimeline`) | overlays, captured mouse, free camera, checkpoints, recording and playback | a frame with keys, a snapshot between frames | everything the frame touches |
| Replays (`CommandReplayRecorder`, `ReplayPlaybackRuntime`, archives) | keyframes, commands, frames | record, write, read, play from a keyframe | tick, files, studio |
| Protocol and discovery codecs (`Protocol.cpp`, `SessionDiscovery.cpp`) | none | serialise, deserialise | sockets |
| Screens (`ReplayStudio`, `LevelEditor`, `MultiplayerSessionMenu`, `SettingsMenu`, `CharacterEditorScreen`) | selections, dialogs, drafts, files | keys and buttons, file operations | program shell, files, discovery |
| Program shell (`main_3d.cpp`, `AppFlow`) | mode, history, the screens and the session it owns, cursor | navigate, launch, fail, return | all screens, session flow |

The rest (split screen, presentation, movement and hitscan, other overlays,
sockets, telemetry) is in section 7.

Hard behaviours: packets lost, duplicated and overtaken; handlers that run
between ticks and find what the previous one left; identifiers (peer ids, bot
ids, indices into lists) handed out again or shifted; several pieces of state
written one after the other by one handler; requests staged now and committed
later; timers that run while their subject is changed by others; frames that
return early; file operations cut off by a crash. `PROJECT.json` lists the
hazards line by line under `hazards`, each with the properties about it.

What makes the components correct:

- pipeline: commands applied once, in order, in the life they were sent to; an
  acknowledgement never ahead of the simulation; no command replayed twice;
  prediction converges;
- sessions: players, roster and sessions agree; nothing of a client outlives it;
  nobody steers another human; the dead stay down for the delay and not longer;
- cadence: rates and intervals agree, snapshots neither stop nor are dropped;
- life cycle: a client goes by the id it was given, no launch hangs, no session
  outlives its host, no seat stays taken;
- combat: who is aimed at as he was when the server rewinds to is hit; a death is one kill, told
  once and in order;
- settings: what is shown is what is used; previews, results and snapshots come
  to agree; only the slider in the user's hand moves;
- interpolation: an actor is drawn where it was or on the way it took;
- client modes: Escape leads out, recordings have no gaps;
- replays and files: what is written is read back and shows what happened,
  damage is refused, no recording or character is lost;
- screens and shell: selections stay valid, what is shown is what is launched,
  nothing is left behind a menu.

## 2. Modules

| Module | What it is |
|---|---|
| `OrderedInput` | abstract specification: a player's commands are applied in order, each at most once, and the client learns how far |
| `CommandPipeline`, `CommandPipelineProofs` | the path of one player's commands, client, network and server; its inductive invariant, safety theorems and the refinement of `OrderedInput` |
| `ServerSessions`, `ServerSessionsProofs` | sessions, players, roster, control bindings, teams, bots and the tick that respawns and prunes; inductive invariant and theorems |
| `Cadence` | network step, tick and snapshot accumulators, live rate changes |
| `JoinHandshake` | joiners' flows and clients, the proxy's routes, the server's seats |
| `HostedSessionProofs` | inductive invariants and safety theorems of these two |
| `Combat`, `CombatProofs` | ticks with shots, the history they are evaluated against, scores, events, kill feeds; inductive invariants and theorems |
| `RuntimeSettings` | preview, request, result and snapshot of settings; the links of proxy and bots |
| `SettingsPanel` | the mouse on the settings panel |
| `InterpolationBuffer` | histories and what is drawn from them |
| `ClientViewProofs` | inductive invariants and soundness of these three |
| `ClientModes`, `ClientModesProofs` | one frame of `ClientRuntime::update` as a pipeline of stages; each stage keeps the invariant |
| `CommandReplay` | recording of a session and its playback, both lanes |
| `ByteCodec` | layouts, and the pure functions that write and read by them |
| `PacketLayouts`, `CommandReplayLayouts`, `ReplayLayouts`, `DiscoveryLayouts` | the layouts of packets, of both replay files and of discovery datagrams, writer and reader each |
| `Deserialization` | reading back, step by step, what one of these wrote, whole or damaged |
| `LevelFile` | the file of a level, line by line |
| `FilesProofs` | inductive invariants of `CommandReplay` and `LevelFile`: a replay shows what happened, a level is loaded as it was saved |
| `ReplayStudio`, `LevelEditor`, `SessionMenu`, `Preferences` | the screens |
| `Application`, `ApplicationProofs` | the program shell; extends the four screens and composes them; the inductive invariant of the whole program and a theorem for each of its properties |
| `MC*` | instances for TLC, where a constant or a symmetry needs a definition; the `.cfg` files give the constants |

`MCClientView` puts `InterpolationBuffer`, `RuntimeSettings` and
`SettingsPanel` side by side, and `MCFiles` puts `CommandReplay`,
`Deserialization` and `LevelFile` side by side; `MCClientModes` puts
`JoinHandshake` beside `ClientModes`, and `MCCombat` a second instance of
`Combat` with other constants beside the first. These share no state in the
code; a variable (`views`, `reads`, `does`, `plays`) chosen in the initial state says which of
them runs, and the others rest in one initial state.

### CommandPipeline

State: the client's `commandSeq_`, `PredictionBuffer::pendingCommands_`
(`predicted`), last snapshot (`base`, `lastAcked`, `lastSnapshotSeq`) and death
flag; the network as the sets of everything ever sent; the session's `pending`
queue, `lastApplied`, `snapshotSeq` and the player's team, life and timer.

- `SendInput`, `SendUnpredicted`: a frame of `ClientRuntime::update` with input,
  and a keepalive (`maybeSendIdleKeepalive`) or a frame with prediction off. Both
  take the pending team request along, and the server refuses such a command.
- `RequestTeam`, `HandleTeamChangeRequest`: `queueTeamSwitchRequest` and the
  handler with the respawn in it.
- `EnqueueCommandBundle`: the acceptance test and the queue.
- `BeginTick`, `ApplyCommand`, `EndTick`: one `tickOnce`, split at the turn of
  the session so that a shot may fall before or after it. Packets are handled
  between ticks only.
- `ReceiveSnapshot`: acceptance by number, `reconcile`, `updateLocalDeathState`.
- `RefreshHello`: a repeated Hello is answered by a snapshot of the present
  state under the old number.

A player's state is the sequence of commands applied in its present life, so
"the same state" means "produced by the same commands". Movement itself
(floating-point physics) is left out. The session stays for good here.

### ServerSessions

State: `sessions` and their order in the vector, `players`, `roster`,
`bindings` (`gSessionControlStates`), `returnTeam`, `botTimer`. Each handler is
one action because the server is single-threaded; in it the order of the
writes is kept (for instance, `JoinTeam` derives the roster from the control
state before the caller rebinds it). `Tick` resolves shots before and after an
actor's turn (`victim`, `late`), respawns, pruning of silent clients and the
rewriting of roster entries at the end of each session's turn. Health is living or dead;
positions, spawn protection and scores are in `Combat`, the camera is left out.
`strayReplies`, `earlyRespawns` and `expired` are history variables: the last
holds the peer ids that pruning left control state behind for.

### Cadence

State: rates and intervals, staged rates, the accumulators of flow and server,
the interval the loop has read (`step`), what the client shows as live and
staged, and the messages under way. `TickOnce` is the part of `tickOnce` that
is about time: the accumulator, publishing and, last, the commit by
`applyTickRateHz` and `applySnapshotRateHz`. `LoseMessage` and the choice of the
message received stand for the proxy.

### JoinHandshake

State: of each joiner the flow's state, the connection state, assigned peer id,
three clocks counted in frames, and whether an overlay keeps `update` from its
timers; the relay queue and the two route maps of the proxy; the server's
sessions with their silence in ticks, and the bot each seat is bound to
(`control`); `granted` is the history of ids given
out. `Frame` is one `update` in each connection state; `HandleWelcome`,
`HandleSnapshot`, `HandleDisconnect` are the cases of `handlePacket`;
`ServeHello` covers acceptance, refresh and refusal, `ServerTick` pruning,
`HostEnds` the host's flow shutting down.

A snapshot carries the id of the body it shows as the client's own (`OwnBodies`):
that of the actor the seat is bound to, or 0 if there is no such body. Teams and
bodies are not modelled here, so that 0 is always possible. A client without a
peer id takes that id (`PeerFromSnapshot`). Since `ServerTick` leaves the binding
of a session it prunes, the next client on the seat may be shown a bot first; it
then goes by the bot's id and refuses every Welcome until it times out.
`PeerAsAssigned` says what is left: nobody goes by another's peer id, and nobody
connects or runs under a bot's. `BindControl` is the host's request; one of the
client itself leaves the same binding. That a snapshot older than the last
is dropped is left out: the packets scheduled have no order.

### Combat

One action is one tick of `AuthoritativeSimulation::stepWorld`: its `Schedule` of
turns (the sessions' commands, the bots with the delay of their link, the
respawns), the sample recorded by `LagCompensationService::recordWorldState`, and
a snapshot when due. Whom the vector of sessions and the map of bots serve first
are the constants `Order` and `BotOrder`. Cells stand for positions, `Between` for a blend of two; a ray meets
whoever of the other side is evaluated to be in the cell aimed at. `Evaluated`
is `rewindTargets` with its clamp and its two samples, at the time
`rewindTimeForTiming` gives (`RewindTime`). A Hello that arrives twice has a
snapshot built again.

A client holds its newest snapshot, the pictures of its interpolation buffer
(`Pushed`) and its feed. What it aims at is what is drawn (`Screens`): the newest
snapshot as it is when it does not interpolate, otherwise what the buffer gives
(`Sampled`, `Blended`) for that snapshot's time plus any time that may have elapsed
since, less `Delay`; and the frame drawn may be from before the newest
snapshot came (`before`). The command carries the newest snapshot's time and the
delay (`ShotAt`); `drawn` is the history of what the picture was of. Left out
are jumps that clear the buffer, since the cells are near each other, a switch
of the option between drawing and firing, and more than one snapshot between two
frames.

### RuntimeSettings and SettingsPanel

`RuntimeSettings` has each copy of a setting: what the server applies, what the
roster entry, the client's own values and the panel show, what the proxy and
the bots' links do. A change previews locally and sends a request
(`ChangeSync`, `ChangeFlag`, `ChangeRate`, `ChangeLink`,
`ChangeGlobalLatency`); `HandleRequest` applies or refuses and answers;
`ReceiveResult` and `ReceiveSnapshot` are the two ways back. `missed` remembers
which settings a lost message was about.

`SettingsPanel` is about who is edited: the row shown as selected is computed
by `buildRuntimeSettingsOverlayState`, the one edited by
`applyRuntimeSettingsAction`, and a drag goes on over frames while snapshots
take participants away (`ReceiveSnapshot`) and a key closes the panel
(`Toggle`). `Unseen` are the frames in which the panel does not see the mouse.

### InterpolationBuffer

`PushSnapshot` is `pushSnapshot` with its test of order, the cut at a jump
(`Kept`) and the cap; `TargetTime`, `Sampled` and `Shown` are the time looked at
and `sample`. A blend is kept as an exact fraction (`pos` over `over`).

### ClientModes

A frame (`Update`) is the composition of the stages of `ClientRuntime::update`
in the order of the code, each an operator on the client's record, with the
early returns of the code deciding which stages follow. Snapshots, which bring
death, team and the spectator lock, come between frames.

### Files

`CommandReplay` records (`Tick`, `StartRecording`, `StopRecording`) while
players move and shoot through delayed queues, and computes what a playback to
any tick shows (`ReplayedWorld`, `ReplayedGhosts`). The state of a body is the
list of what has moved it; a respawn puts it where `spawn` is, and `placed` says
who was put there in a tick. In a playback the spawn is where the keyframe has the
body (`ReplaySessions`), so that a respawn on the way shows it in another place
than it was. `happened` is the history playback is compared with.
Queues and recorded commands are sets, of which each step takes those due in the
order of their numbers; what runs over turns or ticks is a recursive function.

A layout is the sequence of members a function writes or reads, with their
encodings; `ByteCodec` turns a layout and the lengths of lists into the items of
a message. Writer and reader are translated separately from their two functions
in the code, so that a member out of place shows as a misread value.
`LevelFile` reads a file as `loadLevelDefinition` does, by the keys a line
contains and the section it stands in; a file may be cut short at each line.
What a line makes of the reader has a name each (`Entered`, `Named`, `Begun`,
`Filled`, `Finished`), of which `Taken` and `Meant` choose one.

### Screens and shell

One key or button acts per frame. `ReplayStudio` splits renaming and deleting
into their file operations, each of which may fail or be the last before a
crash. Saving the checkpoints, on a key and on leaving, may leave the file as it
was or holding the first few of them, and the screen does not notice (`SavesOf`).
`LevelEditor` works on one axis instead of two. `SessionMenu` has fields,
dropdowns, the browser's list with arrival and expiry, and the configuration
that is submitted with its normalisation. `Preferences` has the key bindings
(in use, on disk, edited) and the characters. `Application` adds navigation, the
session as the shell sees it, and the cursor; its actions open, work and close
the screens of the modules it extends.

## 3. Runs

Passing runs:

| Run (cfg) | Question | Bounds |
|---|---|---|
| `pipeline` (`MCCommandPipeline`) | all safety properties and the refinement | 2 commands, 1 death, 1 team change, 1 repeated Hello, 15 snapshots, each published only when something changed |
| `pipeline_live` (`MCCommandPipelineLive`) | `PredictionConverges` | the same without the repeated Hello |
| `sessions` (`MCServerSessions`) | agreement of all state, whatever leaves or falls silent | 2 peer ids, 2 clients, 1 bot id, delay and timeout of 1 tick |
| `sessions_live` (`MCServerSessionsLive`) | the respawn delay, and that everyone it is for respawns | 1 client, 2 bots, delay of 2 ticks, no timeout |
| `cadence` (`MCCadence`) | rates, intervals, accumulators, and that snapshots keep coming | rates 2 and 9 of a second of 9 units, step 3, one message of each kind under way |
| `join` (`JoinHandshake`) | launches settle, sessions end with the host, seats come free | 2 joiners, 1 seat, timeouts of 1 and 2 frames, 2 packets held by the proxy |
| `client` (`MCClientModes`) | cursor and overlays, Escape, recording and playback; ids as assigned, whoever had the seat and its binding before | up to 2 keys a frame, 2 frames recorded, 2 checkpoints; joiners as in `join`, with a bot |
| `view` (`MCClientView`) | what is drawn, what is shown as set, what is dragged | 1 actor on 3 places, 2 samples, 4 snapshots; 2 changes and 1 loss on 2 links; 3 participants, one of them a bot |
| `combat` (`MCCombat`) | what a kill counts, what the feeds tell; who is hit, with and without interpolation | 3 actors, 2 cells, one client with late snapshots; 3 ticks and 1 repeated Hello, or 4 ticks, 2 to a server time, with a delay of 1 and the bot at rest |
| `files` (`MCFiles`) | playback, codecs, level files | 2 players, 6 ticks, 3 commands; lists of 0 to 3 with a maximum of 2; 2 items of a kind |
| `shell` (`MCApplication`) | the screens and the program around them | 3 recordings, 1 level slot, 2 items, 2 characters, 2 bindings, 2 sessions advertised |

Why the bounds are enough. Two commands give one that was acknowledged or
applied and one that overtakes it or is still under way; the network keeps every
message, so each is also delivered twice and in every order. One death and one
team change cover both ways the queue is dropped, before and after a command
arrives, and in either order. What the runs show of the pipeline's safety for
two commands the proofs show for any number.

Two clients on two peer ids suffice for an id to be handed on while another
client holds a binding. A bot id that is reused needs one bot only. The respawn
delay of 2 ticks distinguishes the first tick dead from the last; in `sessions`
it is only one of the ways a body comes back, and 1 tick is enough. A timeout
of 1 tick prunes whoever is not heard between two ticks. Of the rates, the
intervals of 2 and 9 are rounded and exact, above and below the step of 3.

Two joiners for one seat give a refusal, and an id and a route handed on while
packets of the owner before are scheduled; two scheduled packets overtake each
other and one may be the duplicate of the other, since delivery may keep it. The bot
takes part where ids are checked, in `client`; no clock and no seat depends on it. In
`client` a stage reads what an earlier stage of the same frame wrote, which
takes two keys; the client is the host's, which has all controls. In `view` the
places 0, 1 and 3 with a distance of 1 give a step and two jumps; two
samples make the cap bite at the third snapshot. The actors there are ghosts,
which may also be forgotten; the theorems cover both. Three ticks in `combat`
give a shot, the death and the snapshot that reports it. In
the second kind of play its four ticks are two at each of two server times: the
snapshot of the second time leads, less the delay, back to the first, and the
body has moved or died in between. Of the ticks that share a server time only the first is
recorded; a snapshot of the second shows what no history holds (`fresh`), and
`SeenIsHit` does not speak of it. The cap on samples is above the window there, as in the code (256 samples for
half a second): at the window it drops what a shot still rewinds to.

Six ticks of recording hold three keyframes, a death and its respawn. Lists of
0, 1, the maximum and one above are the lengths a reader distinguishes. In
`shell` the constraint `OneAtATime` keeps a state only if at most one kind of
file differs from the start, and while it does only that screen is opened:
screens share no file, so that the product of their contents says nothing more.

Deadlock is checked except where a bounded history, a file read to its end, the
last frame or a session that has ended stops the model: `join`, `client`,
`view`, `combat`, `files`. The runs take between seconds and three minutes each.

Sequence numbers stay below half of their space (`MaxSeq`, `MaxSnapshots` <
`HalfSpace`): at the code's rates the wrap takes years. Bounds are the constants
named "bound" in the modules.

Every property of a passing run is broken by a mutant of a modelled definition,
written beside it (`Mut...`): a dropped reset, an off-by-one, a comparison that
ignores order, an acknowledgement on receipt, and so on.

One run shows a disagreement between the code and what the repository says of
it. `browser_endpoint` (`MCBrowserEndpoint`): a join from the browser goes to the host and port texts,
which selecting a row fills in once; edited under Direct Connect while the row
stays selected, they send the join elsewhere (`MultiplayerSessionMenu.hpp:1078`),
although a test says browser-selected joins launch against the discovered
endpoint (`MultiplayerSessionMenuTests.cpp:1083`).

Other configurations reproduce further behaviours of the code that disagree
with a test or a comment. They are kept for `tlc -config X.cfg M` by hand; each
ends with a violation of its one property.

| Configuration, module | The repository says | The code does |
|---|---|---|
| `MCBotRespawn`, `MCServerSessions` | a dead bot is restored after the delay (`ServerRuntimeTests.cpp:2477`) | never, while a session commands it (`ServerRuntime.cpp:1610`) |
| `MCBotDelay`, `MCServerSessions` | dead bots stay down until the delay elapses (`ServerRuntimeTests.cpp:2464`) | a revival by the host leaves the timer running (`ServerRuntime.cpp:2774`) |
| `MCStaleReturnTeam`, `MCServerSessions` | leaving spectating leads to team selection without a prior team (`SessionLaunchFlowTests.cpp:2874`) | a pruned client's return team passes to the next one (`ServerRuntime.cpp:2163`) |
| `MCKickReply`, `MCServerSessions` | a kick is answered to the host (`ServerRuntimeTests.cpp:1761`) | the answer goes through a pointer into a vector that was erased from (`ServerRuntime.cpp:2952`) |
| `MCAnnouncedRate`, `Cadence` | the client reports staged rates (`ClientRuntimeJoinTests.cpp:1603`) | it reports refused ones too (`ClientRuntime.cpp:2963`) |
| `MCRateGoesLive`, `Cadence` | the client confirms when the staged rate is live (`ClientRuntimeJoinTests.cpp:1558`) | a replaced one stays staged for ever when its successor's result is lost (`ClientRuntime.cpp:3077`) |
| `MCTickStep`, `Cadence` | simulation, scheduling and metadata change together (`ServerRuntime.cpp:3165`) | the loop charges the old interval to the end of the network step (`SessionFlowController.cpp:615`) |
| `MCShootersView`, `MCCombat` | the host rewinds targets to the shooter's view (`SessionDiscovery.cpp:185`) | a client that interpolates draws at the newest snapshot's time plus what has elapsed since less the delay (`ClientSyncRuntime.hpp:139`); the server rewinds to that snapshot's time less the delay (`ServerRuntime.cpp:326`), by what has elapsed too far |
| `MCSpectatorReplay`, `MCClientModes` | a session spectator stays in free flight (`ClientRuntimeJoinTests.cpp:3025`) | a toggle during a playback takes the free camera away, and afterwards a player's input is sent |

What the properties say with an exception, because the code does it so:

- a client that pruning removes leaves its control state and return team behind
  (`NothingOutlivesSession` excepts `expired`);
- a bot that a session commands is not respawned (`NobodyStaysDead`);
- a history with several samples draws the newest when the time looked at is
  before its oldest (`InterpolationBuffer.cpp:102`; `ShownWasThere` allows the
  newest place);
- a shot at a picture that is not of the moment the server rewinds to may miss:
  one blended, of a tick that was not recorded, drawn at a time that includes
  what has elapsed since the newest snapshot, or older than the rewind window
  (`SeenIsHit` is about the others; `MCShootersView`);
- a playback knows neither respawn timers nor spawns, since keyframes hold
  none: whoever was down in the first keyframe comes back late, and whoever
  respawns on the way does so where the keyframe had him
  (`ReplayPlaybackRuntime.cpp:269`; `PlaybackShowsWhatHappened` is about
  playbacks without either, `NobodyPlaced`; the shipped respawn delay is
  longer than the lookback, a shorter one is not);
- a client that is shown a bot's body before its Welcome goes by the bot's id and
  cannot connect (`ClientSyncRuntime.hpp:108`; `PeerAsAssigned` allows it);
- the file of checkpoints need not hold those on the screen, since the result of
  saving is ignored (`ReplayStudio.cpp:1569`; `InsideIsSound` does not say so);
- a level whose name spells a key of the file is loaded without it
  (`LevelReadsBack`); a file cut short is loaded, with success, as far as it goes;
- a setting whose request or result was lost stays as previewed
  (`SettingsSettle` excepts what is `missed`).

## 4. Fairness

- Server: `tickOnce` is called on a timer whatever the clients do, so ticks are
  weakly fair in all live specifications; which shots fall in them is not.
- Pipeline: a client sends keepalives when idle; the last command under the
  bound stands for the stream of later ones and is not lost for ever; the newest
  snapshot arrives eventually. A link that loses everything is excluded: there the
  client times out.
- Publishing a snapshot is strongly fair in the pipeline because the model lets
  it depend on a choice; in the code the accumulator decides, which `Cadence`
  (`SnapshotsKeepComing`) shows to come round again and again.
- Cadence: network steps go on, and of the snapshots that keep coming some
  arrive; results and requests may all be lost.
- Join: frames go on in every process; some of them find the keyboard overlay
  closed, since a user closes it some time (strongly fair, because he may open
  it again); the server ticks as long as it exists. Nothing is assumed of the
  network: all packets may be lost, and every launch still settles.
- Settings: the server goes on handling requests, ticking and publishing, the
  client goes on receiving; what is lost is bounded by `MaxLosses`.

The other modules state safety only.

## 5. Proofs

All for every value of the constants, under the assumptions the modules name
(`PipelineAssumption`, `CadenceAssumption`, `SessionsAssumption`,
`JoinAssumption`, `BufferAssumption`, `PeersAssumption`, `BoundsAssumption` of
`ClientModes`, `ConstantsAssumption` of `RuntimeSettings` and of `Combat`,
`ConstantsAssumption` of `CommandReplay`, `LevelAssumption` of `MCFiles`,
`StudioAssumption`, `MenuAssumption`, `EditorAssumption`, `PrefsAssumption`), which
the runs evaluate; `SightedShotsHit` alone has a hypothesis more. The last three
say that texts parse to endpoints, that rates ascend and the default ones are
among them, that there is a profile, a level slot number is a number, and that
names are numbers from 1.

`CommandPipelineProofs`: `PipelineInv` is inductive. None of the wanted
properties is so by itself. That the client's acknowledgement is sound needs
that of every snapshot ever sent (`SnapshotInv`), including that a newer number
never acknowledges less; that nothing is replayed twice needs in addition that a
snapshot shows no more than it acknowledges; order of execution needs the queue
to lie between what was applied and what was sent (`QueueInv`), and life of
arrival needs the queue to belong to the present life (`LifeInv`). One lemma per
action shows that it preserves the whole invariant; the modular comparison is
reduced to the order of numbers by `NewerIsGreater`. From the invariant follow
`TypeCorrect`, `InOrderOnce`, `AckSound`, `ReplayOnce`, `LifeOfArrival`, and
`Refinement`: each step of the pipeline is a step of `OrderedInput` or a stutter.

`HostedSessionProofs` has two parts. Of `Cadence`, the three invariants together are inductive. The accumulator
bound `snapshotAcc + tickUs < 2 * snapshotUs` is kept by a tick only because the
tick interval never exceeds the snapshot interval, which needs the intervals to
be monotone in the rates, rounding included (`IntervalMonotone`), and every
staged rate to be a rate. `OthersPreserve` covers all actions that leave the
rates in force alone.

`ServerSessionsProofs`: `SessionsInv` is inductive; its parts take the state as
parameters, because a handler first refreshes the session that asks and works on
the result (`Heard`, `HeardWorld`). That no human steers another rests on the
roster telling bots by their ids (`EntriesOK`); that the roster matches the
sessions rests on a body belonging to a client on a team (`BodiesOK`); that a
human is down for the delay rests on its session's timer being the number of
ticks its body has been found dead, which every handler that makes a new body
restores (`FateSound` is the tick's part of it). That the return team is its
owner's needs that a client on a team has been on one (`SessionsOK`). From it
follow `RosterMatches`, `NoHumanSteered`, `NothingLeft`, `DownForDelay` and, for
a tick, `TicksSettleTeams`. The order of the sessions in the vector is not in it.

The other part of `HostedSessionProofs`: `JoinInv` follows a peer id back to where it was given.
A client takes its id from a packet (`PacketInv`), the proxy forwards a packet
along a route of that id (`RouteInv`), and a route is taught by a bundle of the
owner or by the Welcome, for whose way back the Hello has left a route. A packet
shows no body but that of the peer id it is for or a bot's (`IsGrantedPacket`), since
seats are bound to nothing else. A client that goes by a bot's id does not
connect, and one that is connected goes by an id it was given, which is why
its bundles teach only sound routes. From it follow `TypeCorrect` and
`PeersAssigned`. It is assumed that no bot's id is a peer id.

`ClientViewProofs` has three independent parts. `BufferInv` says that a history holds only places
its actor was in at times that have been shown, ascends strictly in time, has
no jump between neighbours, and ends with the newest snapshot for every actor
in it. Receiving keeps it: what is cut off at a jump, dropped as too old or cut
by the cap is lemma by lemma (`KeptSound`, `AppendSound`, `CappedSound`,
`PushedSound`). That a blend has a pair of samples around the time looked at
needs the least sample not before that time (`SomePairStraddles`). From it
follows `PicturesSound`, which is `ShownWasThere`.

`PanelInv` adds to `PanelIsSound` that a drag exists only
while the button is down on that very slider, of the participant that is
selected, and that the selected participant may be shown. The selection cannot
change under a drag because a row is selected by pressing the same button, and
closing the panel ends the drag (`SetUiMode`). `WorkKeeps` is the common part of
all frames that see the mouse, with one lemma for each kind of press.

`SettingsInv` says of the runtime settings that a message under way carries only
what the setting it names may be (`Sensible`): an answer is made of a request and
a snapshot of the server's state, so that what the client takes over is of the
right kind, whatever was lost or overtaken. From it follow the types and
`ShownSettingsAreUsed`.

`ClientModesProofs`: `ModesInv` has a half for the overlays and one for the
timeline. A frame is a composition, so the proof is one lemma per stage: what it
gets is sound, and so is what it hands on. The stages before the recording's
leave the timeline alone (`Beside`), and the keys of the timeline continue a
recording or end it (`Follows`), all but the one that starts it; hence a
recording that runs through a frame gains exactly the frame's own
(`RecordingSound`). `OverlaysFreeCursor` is inductive only with the settings and
the host's scoreboard excluding each other. That Escape leads out needs an order
on what it closes (`NoKeyboard`, `NoCamera`, `NoMenu`): a press takes the first
that is open and opens none before it, provided a spectator's camera is locked.
From these follow `OverlaysSound`, `PlaybackSound` and `EscapeLeaves`, from any
set of keys in any frame.

`ApplicationProofs`: no property of a screen is inductive alone, because screens
are opened, used and left by the shell. `AppInv` joins what is kept on disk
(`KeptInv`), the screens (`ScreensInv`: each is as its own invariant says just
while its mode is shown, and does not exist otherwise) and the shell
(`ShellInv`). The shell's part rests on `Place`: `navigationHistory` is one of
three, each with its modes; a push and a pop lead from one to another
(`Histories`). One lemma per group of actions shows that all three are kept.
Below that there is a section per screen, with one lemma per key.

- The menu (`MenuOk`): that what is launched is what is shown needs the team step
  to be reached only with texts that parse and a cap that fits (`Ready`), so that
  `NormalizedLaunch` changes nothing, and the row selected to be the endpoint
  chosen (`Browsing`), which sorting, expiry and insertion keep (`ReconciledOk`).
  The rates that can be chosen are a beginning of the ascending list (`ChoicesUpTo`).
- The characters (`ScreenOk`): what is edited is what is selected, of a listing
  that has every character once (`InOrderLists`), and a new id is one no character
  has because there are fewer characters than numbers to choose from (`FreeIdIsNew`).
- The studio (`StudioOk`): the tick shown is one of the recording
  (`PlaybackOk`), the actor followed is there at that tick, and one of the
  checkpoints on the screen is aimed at if there are any (`CheckpointsOk`),
  whatever became of their file. Every change of the tick ends in choosing whom to
  follow (`FollowedOk`), and every change of the list in a new aim
  (`CheckpointsKeep`).
- The files: a rename moves a recording from file to file in steps each of which
  keeps one (`CommandRenamed`, `LegacyRenamed`), the failed and the crashed ones
  included. A renamed recording of frames keeps its file only because its new path
  is no file's, for which paths are bounded (`NewPath`).
- The editor (`EditOk`): items keep apart and inside because every way to change
  one goes through a clamp and a test against all others (`PutOk`, `ResizedOk`,
  `AddedOk`), and the selection stays valid because what removes an item also
  forgets it (`ErasedOk`). The levels on disk are such levels too (`LevelsOk`),
  or loading one would break the editor.

`CombatProofs`: `CombatInv` is `Typing` and `FeedInv`. `Typing` says the world has its
types, the scores their balance (`Tally`) and the events not yet published are the
last kills in order (`Told`). A tick is a function over its turns; each kind of
turn keeps the three (`SessionTurnSound`, `BotTurnSound`, `RespawnTurnSound`, on
`DamagedSound`), and that all do (`TurnsSound`) is a least counterexample among the
turns, since induction is not to be had. `Sum` counts pairs of an actor and a
point, so that a kill adds one to a finite set (`SumUp`). `FeedInv` compares every
two snapshots known to anyone, sent or shown: the later one continues the scores
of the earlier, without a kill between them when their numbers are neighbours
(`Continues`), and none is ahead of the server (`Behind`). Neither holds once a
Hello that came twice had a second snapshot made under an old number, hence
`repeats = 0`. From it follow `ScoresAddUp` and `FeedsMatchScores`.

`SightedShotsHit` needs `HistInv`: a history holds the samples of the last server
times without a gap (`Confirmed`), so that a time looked at within the window is
that of a sample and not of a blend, each of the first tick at its time, and what
it says agrees with every picture of such a tick (`Recalls`, `Agrees`). The pictures
are those of the snapshots sent or shown and those in the buffers of clients
(`Images`): what a client draws is one of them or is not `fresh` (`ScreenIs`,
`SampledIs`), so that the history sees what was aimed at (`HistorySeesRight`).
Pruning keeps the window (`RecordedConfirmed`) because the cap on samples is above
it, which is the hypothesis `MaxRewind < MaxSamples`. Delay, buffers and the number of
ticks at one server time are arbitrary.

`FilesProofs` has two parts. `ReplayInv` joins the server between two ticks
(`SessionInv`: the last tick's queue is served, and no number under way is one
still to be given), what happened (`HistoryInv`: one world per tick, the last one
the present) and the recording (`DemoInv`). The recording (`Kept`) says of every recorded tick that
its world follows from the one before by the commands recorded for it, and the
ghosts likewise, and of every keyframe that it is what the world and the ghosts
were then. It is inductive only with the whole history in it: a tick adds one
more consequence of two neighbours, and neither a late command nor the end of the
recording touches an earlier one. A playback starts from a keyframe and runs over
ticks by a recursive function; that each of its worlds is the one that happened is
again shown by the least tick at which it would not be, and so is each turn within
a tick. A keyframe holds neither respawn timers nor spawns, so that the claim is about
playbacks in which nobody is down in the keyframe they start from or placed anew on the
way (`NobodyPlaced`); and an actor of whom
no command is recorded is drawn between keyframes, so that it is right at their
ticks. A death or a first command sets a ghost back to its player, which the
recording does not hold: a ghost is followed until then (`GhostFollowsOn`).
From it follows `ReplaysFaithful`, which is `ReplaysShowWhatHappened`.

`LevelInv` says where in the file the reading is. A file is a concatenation of
parts: the opening, the name, the colour of the floor, three sections, the closing,
and a section is its mark, its items and its end (`FileIs`, `SectIs`, `BodyIs`).
There is one predicate per place (`AtStart`, `AtName`, `AtFloor`, `AtSection`,
`InSection`, `AtClosing`, `AtEnd`), which relates what is left of the file to the
reader: the section it stands in, whether it is inside an item and which members
of it are read (`Partial`), and how many items of each kind are loaded
(`Loaded`). One lemma per line shows that reading leads from one place to the
next (`StepStart` to `StepClosing`, `HalfwayOn`). A name that spells a key makes
the reader enter a section or the floor's patches too early, which the next line,
the colour, ends (`AtFloor`). At every place what is loaded begins what was saved,
which is what a file cut short is loaded as (`HalfwayReadable`), and only at the
last one no line is left (`HalfwayDone`). From it follows `LevelFaithful`, which
is `LevelReadsBack`, for any number of items.

Only model-checked:
- liveness, which needs fairness and ENABLED: `PredictionConverges`,
  `NobodyStaysDead`, `SnapshotsKeepComing`, `StartSettles`, `HostGoneEndsSessions`,
  `SeatsComeFree`, `SettingsSettle`;
- `RoundTrip` and `DamageRefused`: the bytes of a packet are its layout with every
  list spread out, joined by a recursive function over the concatenated parts. What
  that yields for lists of any length is induction over data, which the installed
  provers cannot do. The layouts themselves are finite, so that the run checks each
  of them whole, with lists of the lengths in `Lengths` (up to one above the longest
  a reader takes).

## 6. What is left

- The control track as a network protocol: its own queue, numbers and resets
  (`ServerRuntime.cpp:3042`), and an abstract specification beside `OrderedInput`.
- The proxy's statistics and sends that fail (`ProxyRuntime.cpp:359`).
- The host's own flow with the objects it constructs and destroys.
- Split screen: several clients behind one flow.

## 7. Not modelled, and why

- Movement and hitscan arithmetic: floating point, beyond a model checker; the
  modules abstract it to the commands that caused a state, or to cells.
- Rendering, presentation, layouts, texts and the other overlays: derived from
  the state of the modules and read by none of them. That an overlay is open is
  in `ClientModes`.
- Split screen and panes: panes are a layout; the clients are those modelled.
- Sockets: a wrapper of the operating system's; the networks of the modules
  stand for it, with loss, duplication and reordering.
- Telemetry, logs, summaries and the proxy's statistics: written, shown, and
  without effect on the protocol.
- Parsing of numbers and small text files, and the contents of strings and
  floats in packets: a text is what it parses to, a member only its encoding.

`components` in `PROJECT.json` lists every part with what is left out of it.
