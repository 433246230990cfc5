---------------------------- MODULE ServerSessions ----------------------------
(***************************************************************************)
(* Who sits at the server: clients accepted, refreshed, disconnected,      *)
(* kicked and timed out; the players and roster entries they own; the      *)
(* actor each of them controls; teams and spectating; bots added, kicked,  *)
(* switched and respawned; and the tick that shoots, respawns and prunes.  *)
(*                                                                         *)
(* The server is single-threaded, so each handler and each tick is one     *)
(* step.  Peer ids are handed out again when a client has left, but parts  *)
(* of the state are keyed by peer id and bot id alone: what survives its   *)
(* owner is the subject of the properties.                                 *)
(*                                                                         *)
(* A player's health is living or dead; positions, movement, the commands  *)
(* (CommandPipeline), spawn protection, scores and the follow target of    *)
(* the camera are left out.                                                *)
(***************************************************************************)
EXTENDS Integers, Sequences, FiniteSets, Functions

CONSTANTS
  MaxPlayers,    \* config.maxPlayers: peer ids are 1 .. MaxPlayers
  SessionIds,    \* the session ids clients choose
  FirstBotId,    \* kFirstBotTransportTargetId
  MaxBots,       \* bound: bot ids are FirstBotId .. FirstBotId + MaxBots - 1
  InitialBots,   \* the bots spawned by the configuration
  RespawnTicks,  \* respawnDelaySeconds in ticks
  ClientTimeout  \* clientTimeoutUs in ticks; 0 switches the pruning off

ASSUME SessionsAssumption ==
  /\ MaxPlayers \in Nat \ {0}
  /\ FirstBotId \in Nat
  /\ FirstBotId > MaxPlayers
  /\ MaxBots \in Nat
  /\ InitialBots \in 0 .. MaxBots
  /\ RespawnTicks \in Nat \ {0}
  /\ ClientTimeout \in Nat

VARIABLES
  sessions,     \* the ClientSession of each connected peer id
  order,        \* the peer ids in the order of ServerGateway::sessions_
  players,      \* WorldState::players: the bodies, by actor id
  roster,       \* WorldState::roster, by actor id
  bindings,     \* gSessionControlStates: controlActorId, by peer id
  returnTeam,   \* spectatorReturnTeams_
  botTimer,     \* botRuntimeStates_: respawnTimerSeconds, by bot id
  strayReplies, \* history: replies that reached someone who did not ask
  earlyRespawns, \* history: actors that a tick respawned before the delay
  expired       \* history: peer ids a client has held until the tick pruned it

vars == <<sessions, order, players, roster, bindings, returnTeam, botTimer,
          strayReplies, earlyRespawns, expired>>

Peers    == 1 .. MaxPlayers
Bots     == FirstBotId .. (FirstBotId + MaxBots - 1)
Actors   == Peers \cup Bots
NoActor  == -1
HostPeer == 1

Playable == {"Attacker", "Defender"}
Team     == Playable \cup {"Spectator", "None"}

\* quiet: ticks since the client was heard; timer: the respawn timer in ticks;
\* played: this client has been on a playable team (history).
Session == [sid : SessionIds, team : Team, quiet : 0 .. ClientTimeout,
            timer : 0 .. (RespawnTicks - 1), played : BOOLEAN]

\* down: ticks the body has been found dead (history, as far as it matters).
Body   == [alive : BOOLEAN, down : 0 .. RespawnTicks]
Living == [alive |-> TRUE, down |-> 0]

Entry == [team : Team, isBot : BOOLEAN]

Put(f, k, v) == [x \in DOMAIN f \cup {k} |-> IF x = k THEN v ELSE f[x]]
Without(f, S) == Restrict(f, DOMAIN f \ S)
Erased(seq, S) == SelectSeq(seq, LAMBDA p : p \notin S)

-----------------------------------------------------------------------------
(* Who controls what.  The operators take the sessions, bindings and roster *)
(* because the code evaluates them in the middle of a handler.              *)

\* sessionControlStateFor: the stored state, or the default for the team.
ControlOf(ss, bs, p) ==
  IF p \in DOMAIN bs THEN bs[p]
  ELSE IF ss[p].team \in Playable THEN p ELSE NoActor

ControlledActor(ss, bs, p) ==
  IF ControlOf(ss, bs, p) = NoActor THEN p ELSE ControlOf(ss, bs, p)

\* participantStateFor: a session is on the team of the bot it controls.
ParticipantTeam(ss, bs, ro, p) ==
  LET a == ControlOf(ss, bs, p)
  IN  IF /\ ss[p].team # "Spectator"
         /\ a \notin {NoActor, p}
         /\ a \in DOMAIN ro
         /\ ro[a].team \in Playable
      THEN ro[a].team
      ELSE ss[p].team

RosterEntryOf(ss, bs, ro, p) ==
  [team |-> ParticipantTeam(ss, bs, ro, p), isBot |-> FALSE]

\* applySessionRosterState for the sessions in S.  An entry depends on the
\* entries of bots only, so the order within S does not matter.
WithRosterState(ss, bs, ro, S) ==
  [a \in S \cup DOMAIN ro |-> IF a \in S THEN RosterEntryOf(ss, bs, ro, a) ELSE ro[a]]

TeamCount(t) == Cardinality({a \in DOMAIN roster : roster[a].team = t})

BalancedTeam ==
  IF TeamCount("Attacker") <= TeamCount("Defender") THEN "Attacker" ELSE "Defender"

RosterBots == {a \in DOMAIN roster : roster[a].isBot}

\* One above the highest bot in the roster: the id of a removed last bot is
\* used again.
NextAvailableBotActorId ==
  IF RosterBots = {} THEN FirstBotId
  ELSE CHOOSE n \in FirstBotId .. (FirstBotId + MaxBots) :
         /\ n - 1 \in RosterBots
         /\ \A b \in RosterBots : b < n

\* Mutant of IsLowestFreePeerId: the next id by the number of sessions.
MutPeerIdByCount(p) == p = Cardinality(DOMAIN sessions) + 1

IsLowestFreePeerId(p) ==
  /\ p \in Peers \ DOMAIN sessions
  /\ \A q \in Peers \ DOMAIN sessions : p <= q

\* lastHeardTimeUs is refreshed before a request is looked at.
Heard(p) == [sessions EXCEPT ![p].quiet = 0]

-----------------------------------------------------------------------------
Init ==
  /\ sessions = <<>>
  /\ order = <<>>
  /\ LET initial == FirstBotId .. (FirstBotId + InitialBots - 1) IN
       /\ players = [b \in initial |-> Living]
       /\ \E team \in [initial -> Playable] :
            roster = [b \in initial |-> [team |-> team[b], isBot |-> TRUE]]
  /\ bindings = <<>>
  /\ returnTeam = [p \in Peers |-> "None"]
  /\ botTimer = [b \in Bots |-> 0]
  /\ strayReplies = {}
  /\ earlyRespawns = {}
  /\ expired = {}

-----------------------------------------------------------------------------
(* Clients come and go. *)

\* A new session id takes the lowest free peer id.  Control state and return
\* team are left as they are.
AcceptClient(sid, requested) ==
  /\ \A p \in DOMAIN sessions : sessions[p].sid # sid
  /\ \E p \in Peers :
       /\ IsLowestFreePeerId(p)
       /\ LET team == IF requested = "None" THEN BalancedTeam ELSE requested
              new  == [sid |-> sid, team |-> team, quiet |-> 0, timer |-> 0,
                       played |-> team \in Playable]
          IN  /\ sessions' = Put(sessions, p, new)
              /\ order' = Append(order, p)
              /\ players' = IF team \in Playable THEN Put(players, p, Living)
                                                 ELSE players
              /\ roster' = WithRosterState(sessions', bindings, roster, {p})
  /\ UNCHANGED <<bindings, returnTeam, botTimer, strayReplies, earlyRespawns,
                 expired>>

\* A Hello of a session that is connected already refreshes it, and writes its
\* roster entry again if there is a name in it.
RefreshClient(p) ==
  /\ sessions' = Heard(p)
  /\ roster' = WithRosterState(sessions, bindings, roster, {p})
  /\ UNCHANGED <<order, players, bindings, returnTeam, botTimer, strayReplies,
                 earlyRespawns, expired>>

\* Commands, a Hello without a name, or a request that is refused, only show
\* that the client lives.
HearClient(p) ==
  /\ sessions' = Heard(p)
  /\ UNCHANGED <<order, players, roster, bindings, returnTeam, botTimer,
                 strayReplies, earlyRespawns, expired>>

\* Mutant of Leave: the body stays in the world.
MutLeaveBody(ss, S) ==
  /\ sessions' = Without(ss, S)
  /\ order' = Erased(order, S)
  /\ players' = players
  /\ roster' = Without(roster, S)

\* removePlayer and the erasure of the sessions in S from the vector.
Leave(ss, S) ==
  /\ sessions' = Without(ss, S)
  /\ order' = Erased(order, S)
  /\ players' = Without(players, S)
  /\ roster' = Without(roster, S)

\* Mutant of Forget: only the return team is forgotten.
MutForgetTeamOnly(p) ==
  /\ bindings' = bindings
  /\ returnTeam' = [returnTeam EXCEPT ![p] = "None"]

Forget(p) ==
  /\ bindings' = Without(bindings, {p})
  /\ returnTeam' = [returnTeam EXCEPT ![p] = "None"]

DisconnectClient(p) ==
  /\ Leave(sessions, {p})
  /\ Forget(p)
  /\ expired' = expired \ {p}
  /\ UNCHANGED <<botTimer, strayReplies, earlyRespawns>>

-----------------------------------------------------------------------------
(* Teams. *)

\* Mutant of JoinTeam: the respawn timer of the previous body goes on.
MutJoinKeepsTimer(ss, p, t) ==
  /\ sessions' = [ss EXCEPT ![p].team = t, ![p].played = TRUE]
  /\ players' = Put(players, p, Living)
  /\ roster' = WithRosterState(sessions', bindings, roster, {p})

\* applyTeamChangeRequest: a new body, or the old one respawned.  The roster
\* is written before the control state is.
JoinTeam(ss, p, t) ==
  /\ sessions' = [ss EXCEPT ![p].team = t, ![p].timer = 0, ![p].played = TRUE]
  /\ players' = Put(players, p, Living)
  /\ roster' = WithRosterState(sessions', bindings, roster, {p})

Spectate(ss, p) ==
  /\ ss[p].team # "Spectator"
  /\ returnTeam' = [returnTeam EXCEPT ![p] = ss[p].team]
  /\ sessions' = [ss EXCEPT ![p].team = "Spectator"]
  /\ players' = Without(players, {p})
  /\ roster' = WithRosterState(sessions', bindings, Without(roster, {p}), {p})
  /\ bindings' = Put(bindings, p, NoActor)
  /\ UNCHANGED <<order, botTimer, earlyRespawns, expired>>

\* A request for no team ends spectating: back to the team played before, or
\* to the team selection.
LeaveSpectating(ss, p) ==
  /\ ss[p].team = "Spectator"
  /\ \/ /\ returnTeam[p] \in Playable
        /\ JoinTeam(ss, p, returnTeam[p])
        /\ bindings' = Put(bindings, p, p)
     \/ /\ returnTeam[p] \notin Playable
        /\ sessions' = [ss EXCEPT ![p].team = "None"]
        /\ players' = Without(players, {p})
        /\ roster' = WithRosterState(sessions', bindings, Without(roster, {p}), {p})
        /\ bindings' = bindings
  /\ UNCHANGED <<order, returnTeam, botTimer, earlyRespawns, expired>>

ChangeTeam(ss, p, t) ==
  /\ t \in Playable
  /\ t # ss[p].team
  /\ JoinTeam(ss, p, t)
  /\ bindings' = Put(bindings, p, p)
  /\ returnTeam' = [returnTeam EXCEPT ![p] = t]
  /\ UNCHANGED <<order, botTimer, earlyRespawns, expired>>

HandleTeamChangeRequest(ss, p, t) ==
  \/ t = "Spectator" /\ Spectate(ss, p)
  \/ t = "None" /\ LeaveSpectating(ss, p)
  \/ ChangeTeam(ss, p, t)

RequestTeam(p, t) ==
  /\ HandleTeamChangeRequest(Heard(p), p, t)
  /\ UNCHANGED strayReplies

-----------------------------------------------------------------------------
(* Control bindings. *)

MayEditControl(asker, p) == asker \in {HostPeer, p}

\* Mutant of IsLocalControlEligible: any actor on a team will do.
MutAnyActorEligible(a, p) == a \in DOMAIN roster /\ roster[a].team \in Playable

IsLocalControlEligible(a, p) ==
  /\ a \in DOMAIN roster
  /\ roster[a].team \in Playable
  /\ roster[a].isBot \/ a = p

\* control_actor_id: the session takes over the actor, and its team.
SwitchControl(asker, p, a) ==
  /\ MayEditControl(asker, p)
  /\ IsLocalControlEligible(a, p)
  /\ bindings' = Put(bindings, p, a)
  /\ sessions' = [Heard(asker) EXCEPT ![p].team = roster[a].team,
                                      ![p].played = TRUE]
  /\ roster' = WithRosterState(sessions', bindings', roster, {p})
  /\ UNCHANGED <<order, players, returnTeam, botTimer, strayReplies, earlyRespawns,
                 expired>>

\* follow_target_actor_id moves the camera to an actor on a team; the control
\* state is created with its default if there is none.
FollowTarget(asker, p) ==
  /\ MayEditControl(asker, p)
  /\ {a \in DOMAIN roster : roster[a].team \in Playable} # {}
  /\ bindings' = Put(bindings, p, ControlOf(sessions, bindings, p))
  /\ sessions' = Heard(asker)
  /\ roster' = WithRosterState(sessions', bindings', roster, {p})
  /\ UNCHANGED <<order, players, returnTeam, botTimer, strayReplies, earlyRespawns,
                 expired>>

-----------------------------------------------------------------------------
(* The host's administration and the bots. *)

AdminTeamOfSession(p, t) ==
  /\ p # HostPeer
  /\ t \in Playable \cup {"Spectator"}
  /\ HandleTeamChangeRequest(Heard(HostPeer), p, t)
  /\ UNCHANGED strayReplies

\* A bot switched to the other team is revived; its respawn timer is not
\* looked at.
AdminTeamOfBot(b, t) ==
  /\ b \in RosterBots
  /\ t \in Playable
  /\ t # roster[b].team
  /\ roster' = [roster EXCEPT ![b].team = t]
  /\ players' = [players EXCEPT ![b] = Living]
  /\ sessions' = Heard(HostPeer)
  /\ UNCHANGED <<order, bindings, returnTeam, botTimer, strayReplies, earlyRespawns,
                 expired>>

\* After the erasure the handler still answers through its pointer into the
\* vector: what follows the host has moved up, and past the end the destroyed
\* element still holds the host's peer id.
KickSession(p) ==
  LET i == CHOOSE j \in DOMAIN order : order[j] = HostPeer
      told == IF i <= Len(order') THEN order'[i] ELSE HostPeer
  IN  /\ p # HostPeer
      /\ Leave(Heard(HostPeer), {p})
      /\ Forget(p)
      /\ expired' = expired \ {p}
      /\ strayReplies' = IF told = HostPeer THEN strayReplies
                         ELSE strayReplies \cup {[asker |-> HostPeer, told |-> told]}
      /\ UNCHANGED <<botTimer, earlyRespawns>>

KickBot(b) ==
  /\ b \in RosterBots
  /\ players' = Without(players, {b})
  /\ roster' = Without(roster, {b})
  /\ sessions' = Heard(HostPeer)
  /\ UNCHANGED <<order, bindings, returnTeam, botTimer, strayReplies, earlyRespawns,
                 expired>>

SpawnBot(t) ==
  /\ NextAvailableBotActorId \in Bots
  /\ players' = Put(players, NextAvailableBotActorId, Living)
  /\ roster' = Put(roster, NextAvailableBotActorId, [team |-> t, isBot |-> TRUE])
  /\ sessions' = Heard(HostPeer)
  /\ UNCHANGED <<order, bindings, returnTeam, botTimer, strayReplies, earlyRespawns,
                 expired>>

AddBot(requested) ==
  SpawnBot(IF requested \in Playable THEN requested ELSE BalancedTeam)

\* The study action spawns an opponent ahead of the actor the host controls.
SpawnFrozenBotAhead ==
  LET a == ControlledActor(sessions, bindings, HostPeer)
  IN  /\ a \in DOMAIN players
      /\ players[a].alive
      /\ SpawnBot(IF sessions[HostPeer].team = "Attacker" THEN "Defender"
                                                         ELSE "Attacker")

-----------------------------------------------------------------------------
(* The tick. *)

Commanded(b) == \E p \in DOMAIN sessions : ControlledActor(sessions, bindings, p) = b

MasterlessBots == {b \in RosterBots : ~Commanded(b)}

\* Actors whose commands a session may send, or that the bot director moves.
Shooters ==
  {a \in DOMAIN players :
     /\ players[a].alive
     /\ \/ a \in MasterlessBots
        \/ \E p \in DOMAIN sessions :
             sessions[p].team \in Playable /\ ControlledActor(sessions, bindings, p) = a}

\* Roster entries are rewritten as the sessions' turns end, so a shot sees
\* each entry before or after; no friendly fire.
MayHit(a, v, synced) ==
  /\ a # v
  /\ \E ro \in {roster, synced} : ~(ro[a].team \in Playable /\ ro[a].team = ro[v].team)

\* Mutant of SyncedSessions: a session without commands leaves its entry alone.
MutSyncNone == {}

\* The sessions whose turn ends with applySessionRosterState: the controlled
\* actor exists.
SyncedSessions ==
  {p \in DOMAIN sessions : ControlledActor(sessions, bindings, p) \in DOMAIN players}

\* Mutant of RespawnDue: off by one.
MutRespawnLate(timer) == timer > RespawnTicks

RespawnDue(timer) == timer >= RespawnTicks

Capped(n) == IF n < RespawnTicks THEN n ELSE RespawnTicks

\* A body found dead in its turn, one shot in or before that turn included.
FoundDead(body, shot) ==
  [alive |-> FALSE, down |-> Capped((IF shot THEN 0 ELSE body.down) + 1)]

\* Mutant of Fate: the timer is not advanced.
MutFateWithoutClock(body, shot, timer) ==
  IF body.alive /\ ~shot
  THEN [body |-> body, timer |-> 0, respawned |-> FALSE, down |-> 0]
  ELSE [body |-> FoundDead(body, shot), timer |-> timer, respawned |-> FALSE,
        down |-> 0]

\* What became of an actor in the tick: its body, its timer, and whether it
\* respawned.
Fate(body, shot, timer) ==
  IF body.alive /\ ~shot
  THEN [body |-> body, timer |-> 0, respawned |-> FALSE, down |-> 0]
  ELSE LET found == FoundDead(body, shot)
       IN  IF RespawnDue(timer + 1)
           THEN [body |-> Living, timer |-> 0, respawned |-> TRUE,
                 down |-> found.down]
           ELSE [body |-> found, timer |-> timer + 1, respawned |-> FALSE,
                 down |-> found.down]

\* A bot that a session commands takes no turn: it does not respawn, and its
\* timer stands still.
BotFate(b, shot) ==
  IF Commanded(b)
  THEN [body |-> IF players[b].alive /\ ~shot THEN players[b]
                                              ELSE FoundDead(players[b], shot),
        timer |-> botTimer[b], respawned |-> FALSE, down |-> 0]
  ELSE Fate(players[b], shot, botTimer[b])

TimedOut(p) == ClientTimeout > 0 /\ sessions[p].quiet >= ClientTimeout

\* victim: the one actor shot before its turn comes; late: a bot shot by a
\* bot whose turn comes after its own.  More fall in the ticks that follow.
Tick(victim, late) ==
  LET embodied == {p \in DOMAIN sessions : sessions[p].team \in Playable /\ p \in DOMAIN players}
      bots     == RosterBots \cap DOMAIN players
      fate == [a \in embodied \cup bots |->
                 IF a \in bots THEN BotFate(a, a = victim)
                 ELSE Fate(players[a], a = victim, sessions[a].timer)]
      respawned == {a \in DOMAIN fate : fate[a].respawned}
      synced == WithRosterState(sessions, bindings, roster,
                                {p \in DOMAIN sessions : p \in respawned \/ p \in SyncedSessions})
      pruned == {p \in DOMAIN sessions : TimedOut(p)}
      ticked == [p \in DOMAIN sessions |->
                   [sessions[p] EXCEPT
                      !.timer = IF p \in embodied THEN fate[p].timer ELSE 0,
                      !.quiet = IF @ < ClientTimeout THEN @ + 1 ELSE @]]
  IN  /\ victim = NoActor \/
           /\ victim \in DOMAIN fate
           /\ players[victim].alive
           /\ \E a \in Shooters : MayHit(a, victim, synced)
      /\ late = NoActor \/
           /\ late \in bots
           /\ fate[late].body.alive
           /\ \E a \in MasterlessBots \cap DOMAIN fate :
                fate[a].body.alive /\ MayHit(a, late, synced)
      /\ sessions' = Without(ticked, pruned)
      /\ order' = Erased(order, pruned)
      /\ players' = Without([a \in DOMAIN players |->
                               IF a \notin DOMAIN fate THEN players[a]
                               ELSE IF a = late THEN [alive |-> FALSE, down |-> 0]
                               ELSE fate[a].body], pruned)
      /\ roster' = Without(synced, pruned)
      /\ botTimer' = [b \in Bots |-> IF b \in DOMAIN fate THEN fate[b].timer
                                                          ELSE botTimer[b]]
      /\ earlyRespawns' = earlyRespawns \cup
                            {a \in respawned : fate[a].down < RespawnTicks}
      /\ expired' = expired \cup pruned
      /\ UNCHANGED <<bindings, returnTeam, strayReplies>>

-----------------------------------------------------------------------------
AClientIsAccepted ==
  \E sid \in SessionIds, t \in Team : AcceptClient(sid, t)

AClientActs ==
  \E p \in DOMAIN sessions :
    \/ RefreshClient(p)
    \/ HearClient(p)
    \/ DisconnectClient(p)
    \/ \E t \in Team : RequestTeam(p, t)
    \/ \E q \in DOMAIN sessions :
         \/ FollowTarget(p, q)
         \/ \E a \in DOMAIN roster : SwitchControl(p, q, a)

TheHostAdministers ==
  /\ HostPeer \in DOMAIN sessions
  /\ \/ \E p \in DOMAIN sessions : \/ KickSession(p)
                                   \/ \E t \in Team : AdminTeamOfSession(p, t)
     \/ \E b \in RosterBots : \/ KickBot(b)
                              \/ \E t \in Playable : AdminTeamOfBot(b, t)
     \/ \E t \in Team : AddBot(t)
     \/ SpawnFrozenBotAhead

ATick ==
  \E victim \in DOMAIN players \cup {NoActor}, late \in RosterBots \cup {NoActor} :
    Tick(victim, late)

Next == AClientIsAccepted \/ AClientActs \/ TheHostAdministers \/ ATick

Spec == Init /\ [][Next]_vars

\* The runtime calls tickOnce on a timer, whatever the clients do.
LiveSpec == Spec /\ WF_vars(ATick)

-----------------------------------------------------------------------------
(* Properties. *)

IsPartial(f, D, R) == DOMAIN f \subseteq D /\ f \in [DOMAIN f -> R]

\* The type invariant.
TypeOK ==
  /\ IsPartial(sessions, Peers, Session)
  /\ order \in Seq(Peers)
  /\ IsPartial(players, Actors, Body)
  /\ IsPartial(roster, Actors, Entry)
  /\ IsPartial(bindings, Peers, Actors \cup {NoActor})
  /\ returnTeam \in [Peers -> Playable \cup {"None"}]
  /\ botTimer \in [Bots -> 0 .. (RespawnTicks - 1)]
  /\ strayReplies \subseteq [asker : Peers, told : Peers]
  /\ earlyRespawns \subseteq Actors
  /\ expired \subseteq Peers

\* Whoever comes, goes, times out, changes team or takes over a bot: the
\* roster lists exactly the connected clients and the bots, every bot has its
\* body, and no body is left to a client that is gone or that is on no team
\* (the vectors players, roster and sessions_ are edited by different
\* functions).
RosterMatchesSessions ==
  /\ DOMAIN roster \ RosterBots = DOMAIN sessions
  /\ RosterBots = DOMAIN players \cap Bots
  /\ \A p \in DOMAIN players \cap Peers :
       p \in DOMAIN sessions /\ sessions[p].team \in Playable

\* A session id sits at one peer id only, and the vector holds each connected
\* peer id once, whatever is erased from its middle.
SessionsDistinct ==
  /\ \A p, q \in DOMAIN sessions : sessions[p].sid = sessions[q].sid => p = q
  /\ {order[i] : i \in DOMAIN order} = DOMAIN sessions
  /\ Len(order) = Cardinality(DOMAIN sessions)

\* No client ever steers the body of another human, not even one whose peer id
\* it inherits with a stale control state (control_actor_id rejects "remote
\* humans" when the binding is made; this is about every later state).
NoRemoteHumanControlled ==
  \A p \in DOMAIN bindings : bindings[p] \in {NoActor, p} \cup Bots

\* A human player lies dead for exactly the delay, whatever its session does in
\* the meantime (advanceSessionRespawns): it does not respawn before, and it is
\* not found dead when the delay is over.
HumansDownForDelay ==
  /\ earlyRespawns \cap Peers = {}
  /\ \A p \in DOMAIN players \cap Peers : players[p].down < RespawnTicks

\* After a tick the roster shows every client in control of its own body on the
\* team it has chosen, although team changes and control switches write the
\* roster and the control state in different orders.
TickSettlesTeams ==
  [][(\E p \in DOMAIN sessions' \cap DOMAIN players' :
        /\ ControlOf(sessions', bindings', p) = p
        /\ roster'[p].team # sessions'[p].team) => ~ATick]_vars

\* Nothing a client leaves behind under its peer id is there for the next one:
\* control state and return team belong to a connected client, and the return
\* team to one that has been on a team, however their entries are written on
\* behalf of others.  Peer ids that the tick has pruned a client from are
\* excepted, until a client leaves them through disconnectClient again.
NothingOutlivesSession ==
  \A p \in Peers \ expired :
    /\ p \in DOMAIN bindings => p \in DOMAIN sessions
    /\ returnTeam[p] # "None" => p \in DOMAIN sessions /\ sessions[p].played

\* A client that has never been on a team leaves spectating for the team
\* selection, never straight into a team.
FirstExitSelectsTeam ==
  [][\A p \in DOMAIN sessions \cap DOMAIN sessions' :
       (/\ sessions[p].team = "Spectator"
        /\ ~sessions[p].played
        /\ sessions'[p].team \in Playable) => ~RequestTeam(p, "None")]_vars

\* The host's requests are answered to the host, a kick too, which erases an
\* element of sessions_ while handleControlPayload points into it.
RepliesReachAsker == strayReplies = {}

\* A dead bot stays down until the respawn delay is over (applyBotCommands
\* counts it in respawnTimerSeconds), whatever the host does with it meanwhile.
BotsStayDown == earlyRespawns \cap Bots = {}

\* Dead for a tick or more: a body may be shot again in the tick it respawns.
StillDead(a) == a \in DOMAIN players /\ ~players[a].alive /\ players[a].down > 0

\* A bot that no session commands any more does not stay dead: when its master
\* leaves, changes over or times out, applyBotCommands takes it up again.
MasterlessBotsRespawn ==
  \A b \in Bots : <>[](~Commanded(b)) => []<>(~StillDead(b))

\* A dead human respawns, leaves or changes team: none stays dead for ever,
\* even while it commands a bot (advanceSessionRespawns goes by the session,
\* not by the controlled actor).
HumansRespawn == \A p \in Peers : []<>(~StillDead(p))

\* Whoever dies comes back or goes, as long as no session commands the bot it is
\* (advanceSessionRespawns, applyBotCommands).
NobodyStaysDead == HumansRespawn /\ MasterlessBotsRespawn

\* Every dead bot respawns or is removed, also one that a session commands
\* (applyBotCommands skips those before its respawn timer).
BotsRespawn == \A b \in Bots : []<>(~StillDead(b))
=============================================================================
