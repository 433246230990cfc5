------------------------------- MODULE Combat -------------------------------
(***************************************************************************)
(* Shots, deaths and what is told of them: one server tick after another   *)
(* (AuthoritativeSimulation::stepWorld), the history of positions shots    *)
(* are evaluated against (LagCompensationService), scores, the events      *)
(* attached to snapshots, and the kill feed of each client.                *)
(* A client aims at what it has drawn: the newest snapshot, or what its    *)
(* interpolation buffer gives for a time some delay behind. Left out: the  *)
(* geometry of a shot (a ray meets whoever of the other team is evaluated  *)
(* to be in the cell aimed at, the one aimed at first), the cooldown of    *)
(* weapons, queues of commands (CommandPipeline), joining and leaving      *)
(* (ServerSessions), the control track, jumps that clear a client's buffer *)
(* (InterpolationBuffer; the two cells are near each other).               *)
(***************************************************************************)
EXTENDS Integers, Sequences, SequencesExt, FiniteSetsExt

CONSTANTS
  Sessions, Bots,   \* actor ids
  Order, BotOrder,  \* the same, in the order they are served
  Team,             \* team of each actor
  Movers,           \* bound: actors that leave their cell
  Remote,           \* bound: sessions whose snapshots are late or lost; the rest get each at once
  MaxHealth,        \* shots an actor survives, plus one
  RespawnTicks,     \* respawnDelaySeconds, in ticks
  Protection,       \* spawnProtectionSeconds, in server time
  MaxRewind,        \* maxRewindUs
  MaxSamples,       \* maxSamplesPerEntity of LagCompensationService
  Delay,            \* defaultInterpolationDelayMs while interpolating, in server time
  MaxBuffered,      \* maxSamplesPerEntity of a client's InterpolationBuffer
  TicksPerStep,     \* ticks run at the same server time (SessionFlowController)
  MaxTicks, MaxRepeats,  \* bounds: ticks, Hellos that arrive twice
  ToggleTick        \* bound: the ticks after which the host toggles the bots

Actors == Sessions \cup Bots
Cells == {0, 1}
Between == 2        \* blended from two samples
Nobody == 0
Spawn == 0
Modes == {"SeenPosition", "ServerPosition"}
NotDrawn == -1      \* the time of a picture that was never recorded

ASSUME ConstantsAssumption ==
  /\ Sessions \subseteq Nat \ {0} /\ Bots \subseteq Nat \ {0} /\ Sessions \cap Bots = {}
  /\ IsFiniteSet(Sessions) /\ IsFiniteSet(Bots)
  /\ Order \in Seq(Sessions) /\ ToSet(Order) = Sessions
  /\ BotOrder \in Seq(Bots) /\ ToSet(BotOrder) = Bots
  /\ Movers \subseteq Actors /\ Remote \subseteq Sessions
  /\ {MaxHealth, RespawnTicks, MaxSamples, MaxBuffered, TicksPerStep} \subseteq Nat \ {0}
  /\ {Protection, MaxRewind, Delay, MaxTicks, MaxRepeats} \subseteq Nat

VARIABLES
  server,   \* the world, its history and the events not yet sent; see Init
  tick, now,
  sent,     \* snapshots sent to each remote session; the network loses, repeats, reorders
  client,   \* the newest snapshot of each, what it draws from now and drew from before that,
            \* the kills it announced, and (history) whether it missed a snapshot
  repeats

vars == <<server, tick, now, sent, client, repeats>>

Sample(s, a, time) == [time |-> time, pos |-> s.pos[a], alive |-> s.hp[a] > 0]

\* fresh (history): of the first tick at its server time, the one the server records.
SnapshotOf(s, n, time, fresh) ==
  [seq |-> n, time |-> time, fresh |-> fresh, pos |-> s.pos,
   alive |-> [a \in Actors |-> s.hp[a] > 0], kills |-> s.pending, total |-> s.killed]

Picture(p) == [time |-> p.time, fresh |-> p.fresh, pos |-> p.pos, alive |-> p.alive]

\* What a client has to draw from.
View(newest, buffer) == [newest |-> newest, buffer |-> buffer]

Zero == [a \in Actors |-> 0]

Init ==
  /\ \E mode \in Modes :
       LET s == [mode |-> mode, pos |-> [a \in Actors |-> Spawn],
                 hp |-> [a \in Actors |-> MaxHealth], timer |-> Zero, protectedUntil |-> Zero,
                 kills |-> Zero, deaths |-> Zero, respawns |-> Zero,
                 scheduled |-> [b \in Bots |-> <<>>], botsActive |-> TRUE, botsShoot |-> TRUE,
                 hist |-> [a \in Actors |-> <<>>], seq |-> 0,
                 killed |-> 0, pending |-> <<>>, shots |-> {}]
       IN
       server = [s EXCEPT !.hist = [a \in Actors |-> <<Sample(s, a, 0)>>]]
  /\ LET first == SnapshotOf(server, 0, 0, TRUE)
         view == View(Picture(first), <<Picture(first)>>)
     IN  client = [c \in Sessions |->
                     [seen |-> first, before |-> view, view |-> view, feed |-> <<>>, gap |-> FALSE]]
  /\ sent = [c \in Remote |-> {}]
  /\ tick = 0 /\ now = 0 /\ repeats = 0

-----------------------------------------------------------------------------
(* LagCompensationService: what was where when. *)

Least(a, b) == IF a <= b THEN a ELSE b

\* All but the newest sample at or before the rewind window go, and the oldest beyond the cap.
Pruned(h, time) ==
  LET old == {i \in 2 .. Len(h) : time > MaxRewind /\ h[i].time <= time - MaxRewind}
      kept == SubSeq(h, Max(old \cup {1}), Len(h))
  IN
  SubSeq(kept, Max({1, Len(kept) - MaxSamples + 1}), Len(kept))

\* recordWorldState: one sample for a server time, the first.
Recorded(h, sample) ==
  IF h # <<>> /\ sample.time <= Last(h).time THEN h ELSE Pruned(Append(h, sample), sample.time)

ClampRewindTime(requested, current) == Max({Least(requested, current), current - MaxRewind})

Interpolated(from, to, time) ==
  [pos |-> IF time = to.time \/ from.pos = to.pos THEN to.pos ELSE Between, alive |-> to.alive]

Rewound(h, time) ==
  IF time <= h[1].time THEN h[1]
  ELSE IF time >= Last(h).time THEN Last(h)
  ELSE LET i == Min({j \in 2 .. Len(h) : h[j].time >= time}) IN Interpolated(h[i - 1], h[i], time)

\* The delay of the shooter's picture is forgotten.
MutRewindTime(shot) == shot.viewed

\* rewindTimeForTiming.
RewindTime(shot) == IF shot.viewed <= shot.delay THEN 0 ELSE shot.viewed - shot.delay

\* buildEvaluationTargetsForFire: rewound to the shooter's time, or as it is.
Evaluated(s, shot, current) ==
  [a \in Actors |->
     IF s.mode = "SeenPosition" THEN Rewound(s.hist[a], ClampRewindTime(RewindTime(shot), current))
     ELSE Sample(s, a, current)]

-----------------------------------------------------------------------------
(* processFireCommand. *)

IsSpawnProtected(s, a, current) == a \in Sessions /\ current < s.protectedUntil[a]

MayBeHit(s, shooter, a, current) ==
  a # shooter /\ ~IsSpawnProtected(s, a, current) /\ Team[a] # Team[shooter]

OnRay(s, shooter, shot, current) ==
  LET targets == Evaluated(s, shot, current) IN
  {a \in Actors : MayBeHit(s, shooter, a, current) /\ targets[a].alive /\ targets[a].pos = shot.cell}

HitOf(line, target) ==
  IF line = {} THEN Nobody ELSE IF target \in line THEN target ELSE Min(line)

\* A hit on a target that is already down counts as a kill again.
MutDamaged(s, shooter, victim) ==
  LET kills == s.hp[victim] <= 1 IN
  [s EXCEPT !.hp[victim] = IF @ = 0 THEN 0 ELSE @ - 1,
            !.kills[shooter] = IF kills THEN @ + 1 ELSE @,
            !.deaths[victim] = IF kills THEN @ + 1 ELSE @,
            !.killed = IF kills THEN @ + 1 ELSE @,
            !.pending = IF kills THEN Append(@, s.killed + 1) ELSE @]

\* Damage, and a kill on the way from alive to dead (recordKill, PlayerKilled).
Damaged(s, shooter, victim) ==
  LET kills == s.hp[victim] = 1 IN
  [s EXCEPT !.hp[victim] = IF @ = 0 THEN 0 ELSE @ - 1,
            !.kills[shooter] = IF kills THEN @ + 1 ELSE @,
            !.deaths[victim] = IF kills THEN @ + 1 ELSE @,
            !.killed = IF kills THEN @ + 1 ELSE @,
            !.pending = IF kills THEN Append(@, s.killed + 1) ELSE @]

\* shot: the target and cell aimed at, the time of the shooter's newest snapshot, its delay,
\* and (history) the time of the picture it aimed at.
Fired(s, shooter, shot, current) ==
  LET hit == HitOf(OnRay(s, shooter, shot, current), shot.target)
      noted == [s EXCEPT !.shots = @ \cup {[shooter |-> shooter, hit |-> hit, shot |-> shot,
                         fair |-> MayBeHit(s, shooter, shot.target, current)]}]
  IN
  IF hit = Nobody THEN noted ELSE Damaged(noted, shooter, hit)

-----------------------------------------------------------------------------
(* What a client draws and aims at. *)

\* InterpolationBuffer::pushSnapshot.
Pushed(buffer, picture) ==
  IF picture.time <= Last(buffer).time THEN buffer
  ELSE LET longer == Append(buffer, picture) IN
       SubSeq(longer, Max({1, Len(longer) - MaxBuffered + 1}), Len(longer))

\* interpolateState; a player whose health is above zero is drawn as living.
Blended(from, to, time) ==
  IF time = to.time THEN to
  ELSE [time |-> time, fresh |-> FALSE,
        pos |-> [a \in Actors |-> IF from.pos[a] = to.pos[a] THEN to.pos[a] ELSE Between],
        alive |-> [a \in Actors |-> to.alive[a] \/ (a \in Sessions /\ from.alive[a])]]

\* InterpolationBuffer::sample: the newest picture, also for a time before the oldest.
Sampled(buffer, time) ==
  IF time <= Head(buffer).time \/ time >= Last(buffer).time THEN Last(buffer)
  ELSE LET i == Min({j \in 2 .. Len(buffer) : buffer[j].time >= time}) IN
       Blended(buffer[i - 1], buffer[i], time)

\* updateInterpolatedRemoteEntities at the end of this frame or of the last, so with the
\* newest snapshot or the one before: as it is, or at its time plus what has elapsed since
\* less the delay. The delay goes with the command, the time elapsed does not.
Screens(c, current) ==
  UNION {{[picture |-> view.newest, delay |-> 0]}
           \cup {[picture |-> Sampled(view.buffer, Max({0, view.newest.time + elapsed - Delay})),
                  delay |-> Delay] : elapsed \in 0 .. current - view.newest.time} :
           view \in {client[c].before, client[c].view}}

\* buildCommand: the time of the newest snapshot, whichever the picture is of.
ShotAt(c, screen, target) ==
  [target |-> target, cell |-> screen.picture.pos[target],
   viewed |-> client[c].seen.time, delay |-> screen.delay,
   drawn |-> IF screen.picture.fresh THEN screen.picture.time ELSE NotDrawn]

\* What a client may ask for: a shot is aimed at a living opponent on its screen.
Idle == [kind |-> "idle"]
Allowed(c, current) ==
  {Idle} \cup {[kind |-> "move"] : a \in Movers \cap {c}}
    \cup UNION {{[kind |-> "fire", shot |-> ShotAt(c, screen, target)] :
                    target \in {a \in Actors : Team[a] # Team[c] /\ screen.picture.alive[a]}} :
                  screen \in Screens(c, current)}

-----------------------------------------------------------------------------
(* A tick: every session's command, the bots, the respawns of players. *)

\* applyQueuedCommands for one session; the dead do nothing.
SessionTurn(s, c, order, current) ==
  CASE s.hp[c] = 0 \/ order.kind = "idle" -> s
    [] s.hp[c] > 0 /\ order.kind = "move" -> [s EXCEPT !.pos[c] = 1 - @]
    [] s.hp[c] > 0 /\ order.kind = "fire" -> Fired(s, c, order.shot, current)

RespawnedBot(s, b) ==
  [s EXCEPT !.hp[b] = MaxHealth, !.pos[b] = Spawn, !.timer[b] = 0, !.respawns[b] = @ + 1]

DeadBotTurn(s, b) ==
  LET cleared == [s EXCEPT !.scheduled[b] = <<>>, !.timer[b] = @ + 1] IN
  IF cleared.timer[b] >= RespawnTicks THEN RespawnedBot(cleared, b) ELSE cleared

\* The director's choice: nothing, or a shot at a living opponent, sent at once or a tick late.
BotOrders == {Idle} \cup [kind : {"prompt", "late"}, target : Sessions]

Queued(s, b, order, current) ==
  IF order.kind = "idle" \/ ~s.botsShoot \/ s.hp[order.target] = 0 \/ Team[order.target] = Team[b] THEN s
  ELSE [s EXCEPT !.scheduled[b] = Append(@,
          [due |-> IF order.kind = "prompt" THEN current ELSE current + 1,
           shot |-> [target |-> order.target, cell |-> s.pos[order.target],
                     viewed |-> current, delay |-> 0, drawn |-> NotDrawn]])]

\* What is due is delivered; the weapon's cooldown lets one shot of it pass.
Delivered(s, b, current) ==
  LET due == SelectSeq(s.scheduled[b], LAMBDA p : p.due <= current)
      rest == [s EXCEPT !.scheduled[b] = SelectSeq(@, LAMBDA p : p.due > current)]
  IN
  IF due = <<>> \/ ~s.botsShoot THEN rest ELSE Fired(rest, b, Head(due).shot, current)

\* applyBotCommands for one bot.
BotTurn(s, b, order, current) ==
  IF s.hp[b] = 0 THEN DeadBotTurn(s, b)
  ELSE IF ~s.botsActive THEN [s EXCEPT !.scheduled[b] = <<>>, !.timer[b] = 0]
  ELSE Delivered(Queued([s EXCEPT !.timer[b] = 0], b, order, current), b, current)

\* advanceSessionRespawns, respawnSessionPlayer.
RespawnTurn(s, c, current) ==
  IF s.hp[c] > 0 THEN [s EXCEPT !.timer[c] = 0]
  ELSE IF s.timer[c] + 1 < RespawnTicks THEN [s EXCEPT !.timer[c] = @ + 1]
  ELSE [s EXCEPT !.hp[c] = MaxHealth, !.pos[c] = Spawn, !.timer[c] = 0,
                 !.protectedUntil[c] = current + Protection, !.respawns[c] = @ + 1]

\* The turns of stepWorld: the sessions' commands, the bots, the respawns of players.
Schedule ==
  [i \in 1 .. Len(Order) |-> [does |-> "command", actor |-> Order[i]]]
    \o [i \in 1 .. Len(BotOrder) |-> [does |-> "bot", actor |-> BotOrder[i]]]
    \o [i \in 1 .. Len(Order) |-> [does |-> "respawn", actor |-> Order[i]]]

Turn(s, turn, order, botOrder, current) ==
  CASE turn.does = "command" -> SessionTurn(s, turn.actor, order[turn.actor], current)
    [] turn.does = "bot" -> BotTurn(s, turn.actor, botOrder[turn.actor], current)
    [] turn.does = "respawn" -> RespawnTurn(s, turn.actor, current)

\* The one world after the first i turns.
AfterTurns(s, order, botOrder, current) ==
  LET after[i \in 0 .. Len(Schedule)] ==
        IF i = 0 THEN {s}
        ELSE {Turn(t, Schedule[i], order, botOrder, current) : t \in after[i - 1]}
  IN  after

\* stepWorld, then the sample of every actor.
Stepped(s, order, botOrder, current) ==
  {[t EXCEPT !.hist = [a \in Actors |-> Recorded(@[a], Sample(t, a, current))]] :
     t \in AfterTurns(s, order, botOrder, current)[Len(Schedule)]}

\* The events stay for the next snapshot too.
MutPublished(s) == [s EXCEPT !.seq = @ + 1]

\* publishSnapshots: the events go to all sessions and are forgotten.
Published(s) == [s EXCEPT !.seq = @ + 1, !.pending = <<>>]

\* applySnapshot and consumeCombatEvents, of a client v.
Applied(v, snapshot) ==
  [seen |-> snapshot, before |-> v.view,
   view |-> View(Picture(snapshot), Pushed(v.view.buffer, Picture(snapshot))),
   feed |-> v.feed \o snapshot.kills,
   gap |-> v.gap \/ snapshot.seq > v.seen.seq + 1]

\* The server time moves on with this tick (SessionFlowController).
Fresh(n) == n = 0 \/ (n - 1) % TicksPerStep = 0

TimeOfTick(n) == IF Fresh(n) THEN now + 1 ELSE now

\* tickOnce; whether a snapshot is due is Cadence's matter.
Tick(order, botOrder, publish) ==
  LET current == TimeOfTick(tick + 1) IN
  /\ tick' = tick + 1 /\ now' = current
  /\ \E stepped \in Stepped([server EXCEPT !.shots = {}], order, botOrder, current) :
       LET snapshot == SnapshotOf(stepped, stepped.seq + 1, current, Fresh(tick + 1)) IN
       IF publish
       THEN /\ server' = Published(stepped)
            /\ sent' = [c \in Remote |-> sent[c] \cup {snapshot}]
            /\ client' = [c \in Sessions |->
                            IF c \in Remote THEN client[c] ELSE Applied(client[c], snapshot)]
       ELSE server' = stepped /\ UNCHANGED <<sent, client>>
  /\ UNCHANGED repeats

\* A Hello that arrives twice: the present state with the events still pending, under the old number.
RefreshHello(c) ==
  /\ repeats < MaxRepeats /\ repeats' = repeats + 1
  /\ sent' = [sent EXCEPT ![c] = @ \cup {SnapshotOf(server, server.seq, now, Fresh(tick))}]
  /\ UNCHANGED <<server, tick, now, client>>

\* setBotsFrozen, setBotShootingEnabled.
ToggleBots ==
  /\ Bots # {} /\ tick = ToggleTick
  /\ server.botsActive
  /\ server' = [server EXCEPT !.botsActive = FALSE, !.scheduled = [b \in Bots |-> <<>>]]
  /\ UNCHANGED <<tick, now, sent, client, repeats>>

ToggleBotPeace ==
  /\ Bots # {} /\ tick = ToggleTick
  /\ server.botsShoot
  /\ server' = [server EXCEPT !.botsShoot = FALSE]
  /\ UNCHANGED <<tick, now, sent, client, repeats>>

\* A snapshot arrives, whichever of those sent; only a newer one is applied.
Receive(c, snapshot) ==
  /\ snapshot.seq > client[c].seen.seq
  /\ client' = [client EXCEPT ![c] = Applied(@, snapshot)]
  /\ UNCHANGED <<server, tick, now, sent, repeats>>

Next ==
  \/ /\ tick < MaxTicks
     /\ \E may \in {[c \in Sessions |-> Allowed(c, TimeOfTick(tick + 1))]} :
          \E order \in [Sessions -> UNION {may[c] : c \in Sessions}] :
            /\ \A c \in Sessions : order[c] \in may[c]
            /\ \E botOrder \in [Bots -> BotOrders], publish \in BOOLEAN : Tick(order, botOrder, publish)
  \/ \E c \in Remote : RefreshHello(c) \/ \E snapshot \in sent[c] : Receive(c, snapshot)
  \/ ToggleBots \/ ToggleBotPeace

Spec == Init /\ [][Next]_vars

-----------------------------------------------------------------------------
Sum(f) == Cardinality(UNION {{a} \X (1 .. f[a]) : a \in Actors})

\* The shots of players the history can do justice to: at a living opponent, drawn as it was
\* at a server time it still holds, whom nothing protects now.
Just(s) == s.fair /\ s.shooter \in Sessions /\ s.shot.drawn >= Max({0, now - MaxRewind})

\* Whoever aims at a living opponent drawn as he was the interpolation delay before the newest
\* snapshot, no longer ago than the rewind window, hits him wherever he has gone since, unless
\* he is protected (rewindTimeForTiming, LagCompensationService::rewindTargets).
SeenIsHit ==
  server.mode = "SeenPosition" =>
    \A s \in server.shots :
      (Just(s) /\ s.shot.drawn = s.shot.viewed - s.shot.delay) => s.hit = s.shot.target

\* What the host's menu says of this mode: targets are rewound to the shooter's view
\* (SessionDiscovery.cpp), so for one who interpolates to the picture he aimed at.
RewoundToView ==
  server.mode = "SeenPosition" =>
    \A s \in server.shots : Just(s) /\ s.shot.delay > 0 => s.hit = s.shot.target

\* Kills, deaths, respawns and health tell the same story: each death was one kill,
\* however many shots hit the body in that tick (recordKill, advanceSessionRespawns).
KillsAddUp ==
  /\ \A a \in Actors :
       server.deaths[a] = server.respawns[a] + (IF server.hp[a] = 0 THEN 1 ELSE 0)
  /\ Sum(server.kills) = server.killed /\ Sum(server.deaths) = server.killed

\* The kill feed of a client never tells a kill twice or out of order, and is complete
\* up to the scores shown with it when no snapshot was missed; a Hello that arrived
\* twice may repeat one (publishSnapshots, consumeCombatEvents).
FeedMatchesScores ==
  repeats = 0 =>
    \A c \in Sessions :
      /\ \A i \in 1 .. Len(client[c].feed) - 1 : client[c].feed[i] < client[c].feed[i + 1]
      /\ \A i \in 1 .. Len(client[c].feed) : client[c].feed[i] <= client[c].seen.total
      /\ ~client[c].gap => Len(client[c].feed) = client[c].seen.total
=============================================================================
