---------------------------- MODULE CommandReplay ----------------------------
(***************************************************************************)
(* What the host records of a session (CommandReplayRecorder) and what a   *)
(* playback makes of it (ReplayPlaybackRuntime): keyframes of the world    *)
(* whenever snapshots are published, every command applied in between, and *)
(* the simulation run again from a keyframe well before the tick asked     *)
(* for.  The control lane has its own commands, applied undelayed to       *)
(* ghosts, and its own keyframes.                                          *)
(* A body is the list of what has moved it since it was placed at its      *)
(* spawn: the free interpretation of the rules of movement.  A shot fells  *)
(* everybody else (Combat has who is hit).  Left out: bots, joining, leaving and changes  *)
(* of team or rate during a recording.                                     *)
(***************************************************************************)
EXTENDS Integers, Sequences, SequencesExt, FiniteSetsExt

CONSTANTS
  Actors,         \* peer ids of the sessions, each controlling its own player
  Order,          \* the order of sessions and of players
  Shooters,       \* bound: who may fire
  Delay,          \* ticks the proxy holds gameplay commands back
  RespawnTicks,   \* respawnDelaySeconds, in ticks
  SnapshotEvery,  \* ticks between snapshots
  Lookback,       \* replayLookbackTicksFor
  MaxTick, MaxCommands   \* bounds

ASSUME ConstantsAssumption ==
  /\ Actors \subseteq Nat \ {0}
  /\ Order \in Seq(Actors) /\ Range(Order) = Actors /\ Len(Order) = Cardinality(Actors)
  /\ Shooters \subseteq Actors
  /\ {RespawnTicks, SnapshotEvery} \subseteq Nat \ {0}
  /\ {Delay, Lookback, MaxTick, MaxCommands} \subseteq Nat

Full == 2
Hurt == 1      \* only in playback: blended from alive and dead
Dead == 0
Idle == "idle"
Kinds(a) == {"move"} \cup (IF a \in Shooters THEN {"fire"} ELSE {})

VARIABLES
  server,     \* world, sessions and ghosts; spawn is where a session's body is placed anew,
              \* placed the history of who was in the last tick
  underway,   \* gameplay commands the proxy still holds: [actor, seq, kind, due]
  next,       \* the number of each client's next command
  recording,
  demo,       \* the recorder's demo, its lists as sets, which ticks and numbers order;
              \* without keyframes it has never been started
  tick,
  happened    \* history: the world and the ghosts after every tick, from 0

vars == <<server, underway, next, recording, demo, tick, happened>>

NoDemo == [keyframes |-> {}, events |-> {}, first |-> 0, last |-> 0]

Shown(s) == [moved |-> s.moved, health |-> s.health, timer |-> s.timer, ghost |-> s.ghost,
             since |-> s.since, placed |-> s.placed]

Init ==
  /\ server = [moved |-> [a \in Actors |-> <<>>], health |-> [a \in Actors |-> Full],
               timer |-> [a \in Actors |-> 0], placed |-> {},
               spawn |-> [a \in Actors |-> <<>>], pending |-> {}, log |-> {},
               applied |-> [a \in Actors |-> 0],
               control |-> {}, ghost |-> [a \in Actors |-> <<>>], since |-> [a \in Actors |-> 0],
               appliedControl |-> [a \in Actors |-> 0], hasGhost |-> {}]
  /\ underway = {} /\ next = [a \in Actors |-> 1]
  /\ recording = FALSE /\ demo = NoDemo
  /\ tick = 0 /\ happened = <<Shown(server)>>

-----------------------------------------------------------------------------
(* The simulation, the same for the server and for a playback. *)

\* A body at rest stays where it is; one that moves comes to rest in its own time.
MovedBy(body, kind) == IF kind = Idle /\ body = <<>> THEN <<>> ELSE Append(body, kind)

\* What a session has queued, a map by the number of the command.
Queue(commands, a, after) == {c \in commands : c.actor = a /\ c.seq > after}
Others(commands, a) == {c \in commands : c.actor # a}

\* A body after the commands of a queue, in order.
Driven(body, queue) ==
  FoldLeft(LAMBDA b, c : MovedBy(b, c.kind), body, SetToSortSeq(queue, LAMBDA c, d : c.seq < d.seq))

Newest(queue, last) == IF queue = {} THEN last ELSE Max({c.seq : c \in queue})

Event(track, t, c) == [track |-> track, tick |-> t, command |-> c]
Log(track, t, queue) == {Event(track, t, c) : c \in queue}

\* applyQueuedCommands: all a session has queued, or one idle step.
Served(s, a, t) ==
  LET queue == Queue(s.pending, a, s.applied[a])
      emptied == [s EXCEPT !.pending = Others(@, a)]
  IN
  IF s.health[a] = Dead THEN [emptied EXCEPT !.control = Others(@, a)]
  ELSE IF Others(s.pending, a) = s.pending THEN [s EXCEPT !.moved[a] = MovedBy(@, Idle)]
  ELSE [emptied EXCEPT
          !.moved[a] = Driven(@, queue), !.applied[a] = Newest(queue, @),
          !.log = @ \cup Log("authoritative", t, queue),
          !.health = [b \in Actors |-> IF b # a /\ \E c \in queue : c.kind = "fire"
                                       THEN Dead ELSE @[b]]]

\* advanceSessionRespawns and respawnSessionPlayer.
Respawned(s) ==
  LET down == {a \in Actors : s.health[a] = Dead}
      up == {a \in down : s.timer[a] + 1 >= RespawnTicks}
  IN
  [s EXCEPT !.timer = [a \in Actors |-> IF a \in down \ up THEN @[a] + 1 ELSE 0],
            !.pending = {c \in @ : c.actor \notin down},
            !.control = {c \in @ : c.actor \notin down},
            !.hasGhost = @ \ down,
            !.placed = up,
            !.health = [a \in Actors |-> IF a \in up THEN Full ELSE @[a]],
            !.moved = [a \in Actors |-> IF a \in up THEN s.spawn[a] ELSE @[a]]]

\* The world after the first i sessions were served.
AfterTurns(s, t) ==
  LET after[i \in 0 .. Len(Order)] == IF i = 0 THEN s ELSE Served(after[i - 1], Order[i], t)
  IN  after

StepWorld(s, t) == Respawned(AfterTurns(s, t)[Len(Order)])

-----------------------------------------------------------------------------
(* The ghosts of the control lane. *)

IsReset(s, a) ==
  \/ a \notin s.hasGhost
  \/ s.health[a] = Dead
  \/ s.appliedControl[a] = 0 /\ \A c \in s.control : c.actor # a

\* syncControlPlayerStateFromAuthoritative, of every session.
Synced(s, t) ==
  LET reset == {a \in Actors : IsReset(s, a)} IN
  [s EXCEPT !.ghost = [a \in Actors |-> IF a \in reset THEN s.moved[a] ELSE @[a]],
            !.appliedControl = [a \in Actors |-> IF a \in reset THEN s.applied[a] ELSE @[a]],
            !.since = [a \in Actors |-> IF a \in reset THEN t ELSE @[a]],
            !.control = {c \in @ : c.actor \notin reset}, !.hasGhost = @ \cup reset]

\* The ghosts' step: whatever has arrived, or one idle step.  They do not meet.
GhostsStepped(s, t) ==
  LET synced == Synced(s, t)
      queue == [a \in Actors |-> Queue(synced.control, a, synced.appliedControl[a])]
  IN
  [synced EXCEPT
     !.ghost = [a \in Actors |-> IF Others(synced.control, a) = synced.control
                                 THEN MovedBy(@[a], Idle) ELSE Driven(@[a], queue[a])],
     !.appliedControl = [a \in Actors |-> Newest(queue[a], @[a])],
     !.log = @ \cup UNION {Log("control", t, queue[a]) : a \in Actors},
     !.control = {}]

-----------------------------------------------------------------------------
(* The session and its recorder. *)

\* A client sends a command on both tracks; the control track is not delayed.
SendCommand(a, kind) ==
  /\ MapThenSumSet(LAMBDA b : next[b] - 1, Actors) < MaxCommands /\ tick < MaxTick
  /\ next' = [next EXCEPT ![a] = @ + 1]
  /\ LET c == [actor |-> a, seq |-> next[a], kind |-> kind] IN
     /\ underway' = underway \cup {[command |-> c, due |-> tick + Delay]}
     /\ server' = IF c.seq > server.appliedControl[a]
                  THEN [server EXCEPT !.control = @ \cup {c}] ELSE server
  /\ UNCHANGED <<recording, demo, tick, happened>>

ActiveGhosts(s) ==
  {a \in s.hasGhost : s.appliedControl[a] > 0 \/ \E c \in s.control : c.actor = a}

Keyframes(s, t) ==
  {[track |-> "authoritative", tick |-> t, moved |-> s.moved, health |-> s.health],
   [track |-> "control", tick |-> t, ghosts |-> [a \in ActiveGhosts(s) |-> s.ghost[a]]]}

\* A keyframe is recorded when snapshots are published, after the step.
KeyframesOf(s, t) == IF t % SnapshotEvery = 0 THEN Keyframes(s, t) ELSE {}

\* One tick of the server: what has got through the proxy is queued, the world and
\* the ghosts step, and a recording gets what was applied.
Tick ==
  /\ tick < MaxTick
  /\ tick' = tick + 1
  /\ LET arrived == {u.command : u \in {u \in underway : u.due <= tick}}
         queued == {c \in arrived : c.seq > server.applied[c.actor]}
         s == GhostsStepped(StepWorld([server EXCEPT !.pending = @ \cup queued, !.log = {}],
                                      tick'), tick')
     IN
     /\ underway' = {u \in underway : u.due > tick}
     /\ server' = [s EXCEPT !.log = {}]
     /\ demo' = IF recording
                THEN [demo EXCEPT !.events = @ \cup s.log, !.last = tick',
                                  !.keyframes = @ \cup KeyframesOf(s, tick')]
                ELSE demo
     /\ happened' = Append(happened, Shown(s))
  /\ UNCHANGED <<next, recording>>

\* The host's key starts a new recording, which drops the last one, or ends it.
StartRecording ==
  /\ ~recording /\ tick < MaxTick
  /\ recording' = TRUE
  /\ demo' = [keyframes |-> Keyframes(server, tick), events |-> {}, first |-> tick, last |-> tick]
  /\ UNCHANGED <<server, underway, next, tick, happened>>

StopRecording ==
  /\ recording
  /\ recording' = FALSE
  /\ UNCHANGED <<server, underway, next, demo, tick, happened>>

Next ==
  \/ \E a \in Actors : \E kind \in Kinds(a) : SendCommand(a, kind)
  \/ Tick
  \/ StartRecording
  \/ StopRecording

Spec == Init /\ [][Next]_vars

-----------------------------------------------------------------------------
(* Playback. *)

KeyframesUpTo(track, t) == {k \in demo.keyframes : k.track = track /\ k.tick <= t}
LatestKeyframe(track, t) ==
  CHOOSE k \in KeyframesUpTo(track, t) : \A j \in KeyframesUpTo(track, t) : j.tick <= k.tick
EarliestKeyframe(track, t) ==
  LET later == {k \in demo.keyframes : k.track = track /\ k.tick >= t}
  IN CHOOSE k \in later : \A j \in later : j.tick >= k.tick

\* The keyframe a playback to t starts from: older than t needs, so that shots find the
\* positions they rewind to.
StartKeyframe(t) ==
  LatestKeyframe("authoritative",
                 IF t > demo.first + Lookback THEN t - Lookback ELSE demo.first)

EventsOf(track) == {e \in demo.events : e.track = track}

\* Mutant: the commands applied at the tick asked for are left out.
MutAppliedBefore(track, from, to) ==
  {e \in EventsOf(track) : e.tick > from /\ e.tick < to}

AppliedBetween(track, from, to) ==
  {e \in EventsOf(track) : e.tick > from /\ e.tick <= to}

HasCommands(a) == \E e \in EventsOf("authoritative") : e.command.actor = a

\* A body put to rest, without its momentum, where another has got.
AtRest(body) == IF body = <<>> THEN <<>> ELSE <<"placed">> \o body

\* buildReplaySessions: nothing of a session is recorded; it is made up from the keyframe
\* and the commands before it, without the time its player has been down, and its spawn is
\* where its player stands.
LastApplied(a, t) ==
  LET before == {e \in EventsOf("authoritative") : e.command.actor = a /\ e.tick <= t}
  IN  Newest({e.command : e \in before}, 0)

ReplaySessions(k) ==
  [server EXCEPT !.moved = k.moved, !.health = k.health, !.pending = {}, !.control = {},
                 !.timer = [a \in Actors |-> 0], !.placed = {},
                 !.spawn = [a \in Actors |-> AtRest(k.moved[a])],
                 !.applied = [a \in Actors |-> LastApplied(a, k.tick)]]

\* smoothKeyframeOnlyActors: an actor that no command has moved is blended from the
\* keyframes around t.
Smoothed(r, t) ==
  IF KeyframesUpTo("authoritative", t) = {}
     \/ \A k \in demo.keyframes : k.tick < t THEN r
  ELSE LET from == LatestKeyframe("authoritative", t)
           to == EarliestKeyframe("authoritative", t)
           Blend(x, y, between) == IF x = y \/ to.tick = from.tick THEN x ELSE between
       IN [r EXCEPT
             !.moved = [a \in Actors |-> IF HasCommands(a) THEN @[a]
                                         ELSE Blend(from.moved[a], to.moved[a], <<"between">>)],
             !.health = [a \in Actors |-> IF HasCommands(a) THEN @[a]
                                          ELSE Blend(from.health[a], to.health[a], Hurt)]]

CommandsAt(events, n) == {e.command : e \in {e \in events : e.tick = n}}

\* The world at the ticks from a keyframe on.
WorldsFrom(k, t) ==
  LET events == AppliedBetween("authoritative", k.tick, t)
      world[n \in k.tick .. t] ==
        IF n = k.tick THEN ReplaySessions(k)
        ELSE StepWorld([world[n - 1] EXCEPT !.pending = @ \cup CommandsAt(events, n)], n)
  IN  world

\* replayAuthoritativeWorldToTick
ReplayedWorld(t) == Smoothed(WorldsFrom(StartKeyframe(t), t)[t], t)

\* replayControlPlayersToTick: ghosts start from the last control keyframe.
GhostsMoved(ghosts, commands) ==
  [a \in DOMAIN ghosts |->
     LET queue == Queue(commands, a, 0)
     IN  IF queue = {} THEN MovedBy(ghosts[a], Idle) ELSE Driven(ghosts[a], queue)]

GhostsFrom(k, t) ==
  LET events == AppliedBetween("control", k.tick, t)
      ghosts[n \in k.tick .. t] ==
        IF n = k.tick THEN k.ghosts ELSE GhostsMoved(ghosts[n - 1], CommandsAt(events, n))
  IN  ghosts

ReplayedGhosts(t) == GhostsFrom(LatestKeyframe("control", t), t)[t]

-----------------------------------------------------------------------------
(* Properties. *)

At(t) == happened[t + 1]
Finished == ~recording /\ demo # NoDemo

TypeOK ==
  /\ tick \in 0..MaxTick /\ Len(happened) = tick + 1 /\ recording \in BOOLEAN
  /\ \A a \in Actors : next[a] \in 1..(MaxCommands + 1) /\ server.health[a] \in {Dead, Full}
  /\ \A a \in Actors : server.applied[a] < next[a] /\ server.appliedControl[a] < next[a]
  /\ demo.first <= demo.last /\ demo.last <= tick

\* Nobody was down in the keyframe a playback to t starts from, nor placed anew since.
NobodyPlaced(t) ==
  /\ \A a \in Actors : StartKeyframe(t).health[a] = Full
  /\ \A n \in StartKeyframe(t).tick + 1 .. t : At(n).placed = {}

\* A playback to any tick of a recording shows the world the server had then, from
\* whatever keyframe it starts: the keyframe, the commands after it and the numbers
\* applied before it say everything about who moved, shot and fell.  They do not say it of
\* who respawns on the way: whoever was down in the keyframe does so late, because the
\* time down is no part of it, and every body is placed where it stood in the keyframe
\* instead of at its spawn.  Actors without any command are blended between keyframes
\* (ReplayPlaybackRuntime::seekToTick, ServerRuntime::tickOnce).
PlaybackShowsWhatHappened ==
  Finished => \A t \in demo.first..demo.last :
    NobodyPlaced(t) =>
      \A r \in {ReplayedWorld(t)}, a \in Actors :
        HasCommands(a) \/ t \in {k.tick : k \in demo.keyframes} =>
          r.moved[a] = At(t).moved[a] /\ r.health[a] = At(t).health[a]

\* A playback of the control lane shows every ghost where it was, as long as it has not
\* been set back to its player since the keyframe (ReplayPlaybackRuntime, ghosts).
GhostsShowWhatHappened ==
  Finished => \A t \in demo.first..demo.last : \A k \in {LatestKeyframe("control", t)} :
    \A ghosts \in {ReplayedGhosts(t)} : \A a \in DOMAIN ghosts :
      At(t).since[a] <= k.tick => ghosts[a] = At(t).ghost[a]

\* Both lanes of a recording show what happened (ReplayPlaybackRuntime).
ReplaysShowWhatHappened == PlaybackShowsWhatHappened /\ GhostsShowWhatHappened
=============================================================================
