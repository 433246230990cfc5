------------------------ MODULE ServerSessionsProofs ------------------------
(***************************************************************************)
(* For any number of peer ids, bots and ticks: who is connected, who has a *)
(* body, who steers whom and who is down agree after every handler and     *)
(* every tick.  Not proved: the order of the sessions in their vector,     *)
(* which none of the theorems needs.                                       *)
(***************************************************************************)
EXTENDS ServerSessions, TLAPS

\* A client on a team has been on one.
SessionsOK(ss) ==
  /\ DOMAIN ss \subseteq Peers
  /\ \A p \in DOMAIN ss : ss[p] \in Session /\ (ss[p].team \in Playable => ss[p].played)

\* The flag of a roster entry tells a bot by its id.
EntriesOK(ro) ==
  /\ DOMAIN ro \subseteq Actors
  /\ \A a \in DOMAIN ro : ro[a] \in Entry /\ (ro[a].isBot <=> a \in Bots)

\* A client's body belongs to a client on a team, and its session counts the ticks it is down.
BodiesOK(pl, ss) ==
  /\ DOMAIN pl \subseteq Actors
  /\ \A a \in DOMAIN pl : pl[a] \in Body
  /\ \A p \in DOMAIN pl \cap Peers :
       /\ p \in DOMAIN ss /\ ss[p].team \in Playable
       /\ pl[p].down = ss[p].timer /\ (pl[p].alive => pl[p].down = 0)

\* The roster lists the clients, and the bots that have a body.
SeatsOK(ss, pl, ro) ==
  /\ DOMAIN ro \cap Peers = DOMAIN ss
  /\ DOMAIN ro \cap Bots = DOMAIN pl \cap Bots

\* Nobody steers a human other than itself.
BindingsOK(bs) ==
  DOMAIN bs \subseteq Peers /\ \A p \in DOMAIN bs : bs[p] \in {NoActor, p} \cup Bots

\* What is kept by peer id is its present owner's.
LeftOK(ss, bs, rt, ex) ==
  \A p \in Peers \ ex :
    /\ p \in DOMAIN bs => p \in DOMAIN ss
    /\ rt[p] # "None" => p \in DOMAIN ss /\ ss[p].played

WorldOK(ss, pl, ro, bs) ==
  /\ SessionsOK(ss) /\ EntriesOK(ro) /\ BodiesOK(pl, ss) /\ SeatsOK(ss, pl, ro) /\ BindingsOK(bs)

ClocksOK ==
  /\ botTimer \in [Bots -> 0 .. (RespawnTicks - 1)]
  /\ earlyRespawns \cap Peers = {}
  /\ returnTeam \in [Peers -> Playable \cup {"None"}]

SessionsInv ==
  /\ WorldOK(sessions, players, roster, bindings)
  /\ LeftOK(sessions, bindings, returnTeam, expired)
  /\ ClocksOK

-----------------------------------------------------------------------------
(* Ids and small values. *)

LEMMA IdsApart ==
  /\ Peers \cap Bots = {} /\ NoActor \notin Actors /\ HostPeer \in Peers
  /\ \A p \in Peers : p \in Int
BY SessionsAssumption DEF Peers, Bots, Actors, NoActor, HostPeer

LEMMA Zeros ==
  /\ 0 \in 0 .. ClientTimeout /\ 0 \in 0 .. (RespawnTicks - 1) /\ Living \in Body
  /\ Living.down = 0
BY SessionsAssumption DEF Living, Body

(***************************************************************************)
(* The entries the server writes for its sessions.                         *)
(***************************************************************************)
LEMMA EntryTyped ==
  ASSUME NEW ss, SessionsOK(ss), NEW ro, EntriesOK(ro), NEW bs, NEW p \in DOMAIN ss
  PROVE  RosterEntryOf(ss, bs, ro, p) \in Entry /\ RosterEntryOf(ss, bs, ro, p).isBot = FALSE
<1>1. ss[p].team \in Team
  BY DEF SessionsOK, Session
<1>2. ParticipantTeam(ss, bs, ro, p) \in Team
  BY <1>1 DEF ParticipantTeam, Team
<1> QED
  BY <1>2 DEF RosterEntryOf, Entry

LEMMA RosterStateSound ==
  ASSUME NEW ss, SessionsOK(ss), NEW ro, EntriesOK(ro), NEW bs, NEW S \in SUBSET DOMAIN ss
  PROVE  /\ EntriesOK(WithRosterState(ss, bs, ro, S))
         /\ DOMAIN WithRosterState(ss, bs, ro, S) = S \cup DOMAIN ro
<1> DEFINE new == WithRosterState(ss, bs, ro, S)
<1>1. DOMAIN new = S \cup DOMAIN ro
  BY DEF WithRosterState
<1>2. S \subseteq Peers
  BY DEF SessionsOK
<1>3. ASSUME NEW a \in S \cup DOMAIN ro
      PROVE  new[a] \in Entry /\ (new[a].isBot <=> a \in Bots)
  <2>1. CASE a \in S
    <3>1. new[a] = RosterEntryOf(ss, bs, ro, a) /\ a \in DOMAIN ss
      BY <2>1 DEF WithRosterState
    <3>2. a \notin Bots
      BY <1>2, <2>1, IdsApart
    <3> QED
      BY <3>1, <3>2, EntryTyped
  <2>2. CASE a \notin S
    BY <1>3, <2>2 DEF WithRosterState, EntriesOK
  <2> QED
    BY <2>1, <2>2
<1> QED
  BY <1>1, <1>2, <1>3 DEF EntriesOK, Actors

\* An entry is changed or dropped.
LEMMA FewerEntries ==
  ASSUME NEW ro, EntriesOK(ro), NEW S
  PROVE  EntriesOK(Without(ro, S))
<1>1. DOMAIN Without(ro, S) = DOMAIN ro \ S /\ \A a \in DOMAIN ro \ S : Without(ro, S)[a] = ro[a]
  BY DEF Without, Restrict
<1> QED
  BY <1>1 DEF EntriesOK

(***************************************************************************)
(* Hearing a client changes nothing but how long it has been quiet.        *)
(***************************************************************************)
LEMMA HeardThere ==
  ASSUME NEW q, SessionsOK(sessions)
  PROVE  /\ DOMAIN Heard(q) = DOMAIN sessions
         /\ SessionsOK(Heard(q))
         /\ \A p \in DOMAIN sessions :
              /\ Heard(q)[p].team = sessions[p].team /\ Heard(q)[p].timer = sessions[p].timer
              /\ Heard(q)[p].played = sessions[p].played
<1>1. DOMAIN Heard(q) = DOMAIN sessions
  BY DEF Heard
<1>2. ASSUME NEW p \in DOMAIN sessions
      PROVE  /\ Heard(q)[p] \in Session
             /\ Heard(q)[p].team = sessions[p].team /\ Heard(q)[p].timer = sessions[p].timer
             /\ Heard(q)[p].played = sessions[p].played
  <2>1. sessions[p] \in Session
    BY DEF SessionsOK
  <2>2. Heard(q)[p] = sessions[p] \/ Heard(q)[p] = [sessions[p] EXCEPT !.quiet = 0]
    BY DEF Heard
  <2> QED
    BY <2>1, <2>2, Zeros DEF Session
<1> QED
  BY <1>1, <1>2 DEF SessionsOK

\* So it keeps what depends on the sessions.
LEMMA HeardWorld ==
  ASSUME SessionsInv, NEW q
  PROVE  /\ WorldOK(Heard(q), players, roster, bindings)
         /\ LeftOK(Heard(q), bindings, returnTeam, expired)
<1>1. SessionsOK(sessions)
  BY DEF SessionsInv, WorldOK
<1>2. BodiesOK(players, Heard(q)) /\ SeatsOK(Heard(q), players, roster)
  BY <1>1, HeardThere DEF SessionsInv, WorldOK, BodiesOK, SeatsOK
<1>3. LeftOK(Heard(q), bindings, returnTeam, expired)
  BY <1>1, HeardThere DEF SessionsInv, WorldOK, LeftOK, SessionsOK
<1> QED
  BY <1>1, <1>2, <1>3, HeardThere DEF SessionsInv, WorldOK

-----------------------------------------------------------------------------
(* Clients come and go. *)

LEMMA AcceptInv ==
  ASSUME SessionsInv, NEW sid \in SessionIds, NEW t \in Team, AcceptClient(sid, t)
  PROVE  SessionsInv'
<1> DEFINE team == IF t = "None" THEN BalancedTeam ELSE t
           new == [sid |-> sid, team |-> team, quiet |-> 0, timer |-> 0,
                   played |-> team \in Playable]
<1>1. PICK p \in Peers :
        /\ p \notin DOMAIN sessions /\ sessions' = Put(sessions, p, new)
        /\ players' = IF team \in Playable THEN Put(players, p, Living) ELSE players
        /\ roster' = WithRosterState(sessions', bindings, roster, {p})
  BY DEF AcceptClient, IsLowestFreePeerId
<1>2. UNCHANGED <<bindings, returnTeam, botTimer, earlyRespawns, expired>>
  BY DEF AcceptClient
<1>3. new \in Session /\ new.timer = 0 /\ new.team = team /\ new.played = (team \in Playable)
  BY Zeros DEF BalancedTeam, Team, Playable, Session
<1> HIDE DEF new, team
<1>4. DOMAIN sessions' = DOMAIN sessions \cup {p} /\ sessions'[p] = new
      /\ \A q \in DOMAIN sessions : sessions'[q] = sessions[q]
  BY <1>1 DEF Put
<1>5. SessionsOK(sessions')
  BY <1>1, <1>3, <1>4 DEF SessionsInv, WorldOK, SessionsOK
<1>6. EntriesOK(roster') /\ DOMAIN roster' = {p} \cup DOMAIN roster
  BY <1>1, <1>4, <1>5, RosterStateSound DEF SessionsInv, WorldOK
<1>7. p \notin DOMAIN players
  BY <1>1 DEF SessionsInv, WorldOK, BodiesOK
<1>8. DOMAIN players' = (IF team \in Playable THEN DOMAIN players \cup {p} ELSE DOMAIN players)
      /\ (team \in Playable => players'[p] = Living)
      /\ \A a \in DOMAIN players : players'[a] = players[a]
  BY <1>1, <1>7 DEF Put
<1>9. BodiesOK(players', sessions')
  BY <1>1, <1>3, <1>4, <1>7, <1>8, Zeros DEF SessionsInv, WorldOK, BodiesOK, Actors
<1>10. SeatsOK(sessions', players', roster')
  BY <1>1, <1>4, <1>6, <1>8, IdsApart DEF SessionsInv, WorldOK, SeatsOK
<1>11. LeftOK(sessions', bindings', returnTeam', expired')
  BY <1>1, <1>2, <1>4 DEF SessionsInv, LeftOK
<1> QED
  BY <1>2, <1>5, <1>6, <1>9, <1>10, <1>11 DEF SessionsInv, WorldOK, ClocksOK

LEMMA RefreshInv ==
  ASSUME SessionsInv, NEW p \in DOMAIN sessions, RefreshClient(p) \/ HearClient(p)
  PROVE  SessionsInv'
<1>1. /\ sessions' = Heard(p)
      /\ roster' = roster \/ roster' = WithRosterState(sessions, bindings, roster, {p})
      /\ UNCHANGED <<players, bindings, returnTeam, botTimer, earlyRespawns, expired>>
  BY DEF RefreshClient, HearClient
<1>2. EntriesOK(roster') /\ DOMAIN roster' = DOMAIN roster
  <2>1. p \in DOMAIN roster
    BY DEF SessionsInv, WorldOK, SeatsOK
  <2> QED
    BY <1>1, <2>1, RosterStateSound DEF SessionsInv, WorldOK
<1>3. WorldOK(sessions', players', roster', bindings')
  BY <1>1, <1>2, HeardWorld DEF WorldOK, SeatsOK
<1> QED
  BY <1>1, <1>3, HeardWorld DEF SessionsInv, ClocksOK

(***************************************************************************)
(* Whoever leaves takes body, entry, control state and return team along.  *)
(***************************************************************************)
LEMMA LeaveInv ==
  ASSUME SessionsInv, NEW q, NEW p \in DOMAIN sessions,
         Leave(Heard(q), {p}) \/ Leave(sessions, {p}), Forget(p), expired' = expired \ {p},
         UNCHANGED <<botTimer, earlyRespawns>>
  PROVE  SessionsInv'
<1>1. PICK ss : /\ WorldOK(ss, players, roster, bindings) /\ LeftOK(ss, bindings, returnTeam, expired)
                /\ Leave(ss, {p})
  BY HeardWorld DEF SessionsInv
<1>2. p \in Peers
  BY DEF SessionsInv, WorldOK, SessionsOK
<1>3. /\ DOMAIN sessions' = DOMAIN ss \ {p} /\ \A x \in DOMAIN sessions' : sessions'[x] = ss[x]
      /\ DOMAIN players' = DOMAIN players \ {p} /\ \A x \in DOMAIN players' : players'[x] = players[x]
      /\ DOMAIN roster' = DOMAIN roster \ {p}
      /\ roster' = Without(roster, {p})
  BY <1>1 DEF Leave, Without, Restrict
<1>4. DOMAIN bindings' = DOMAIN bindings \ {p} /\ \A x \in DOMAIN bindings' : bindings'[x] = bindings[x]
  BY DEF Forget, Without, Restrict
<1>5. returnTeam' = [returnTeam EXCEPT ![p] = "None"] /\ returnTeam \in [Peers -> Playable \cup {"None"}]
  BY DEF Forget, SessionsInv, ClocksOK
<1>6. SessionsOK(sessions') /\ EntriesOK(roster') /\ BindingsOK(bindings')
  BY <1>1, <1>3, <1>4, FewerEntries DEF WorldOK, SessionsOK, BindingsOK
<1>7. BodiesOK(players', sessions')
  BY <1>1, <1>3 DEF WorldOK, BodiesOK
<1>8. SeatsOK(sessions', players', roster')
  BY <1>1, <1>2, <1>3, IdsApart DEF WorldOK, SeatsOK
<1>9. LeftOK(sessions', bindings', returnTeam', expired')
  BY <1>1, <1>2, <1>3, <1>4, <1>5 DEF LeftOK
<1> QED
  BY <1>5, <1>6, <1>7, <1>8, <1>9 DEF SessionsInv, WorldOK, ClocksOK

-----------------------------------------------------------------------------
(* Teams. *)

\* A new body starts alive, with the timer of its session at zero.
LEMMA JoinWorld ==
  ASSUME NEW ss, WorldOK(ss, players, roster, bindings),
         NEW p \in DOMAIN ss, NEW t \in Playable, JoinTeam(ss, p, t)
  PROVE  /\ WorldOK(sessions', players', roster', bindings)
         /\ DOMAIN sessions' = DOMAIN ss /\ sessions'[p].played
         /\ \A q \in DOMAIN ss : q # p => sessions'[q] = ss[q]
<1>1. /\ sessions' = [ss EXCEPT ![p].team = t, ![p].timer = 0, ![p].played = TRUE]
      /\ players' = Put(players, p, Living)
      /\ roster' = WithRosterState(sessions', bindings, roster, {p})
  BY DEF JoinTeam
<1>2. ss[p] \in Session /\ p \in Peers /\ t \in Team
  BY DEF WorldOK, SessionsOK, Team
<1>3. DOMAIN sessions' = DOMAIN ss /\ \A q \in DOMAIN ss : q # p => sessions'[q] = ss[q]
  BY <1>1
<1>4. /\ sessions'[p] \in Session /\ sessions'[p].team = t
      /\ sessions'[p].timer = 0 /\ sessions'[p].played
  <2>1. sessions'[p] = [ss[p] EXCEPT !.team = t, !.timer = 0, !.played = TRUE]
    BY <1>1
  <2> QED
    BY <1>2, <2>1, Zeros DEF Session
<1>5. SessionsOK(sessions')
  BY <1>3, <1>4 DEF WorldOK, SessionsOK
<1>6. EntriesOK(roster') /\ DOMAIN roster' = {p} \cup DOMAIN roster
  <2>1. EntriesOK(roster) /\ {p} \in SUBSET DOMAIN sessions'
    BY <1>3 DEF WorldOK
  <2>2. EntriesOK(WithRosterState(sessions', bindings, roster, {p}))
    BY <1>5, <2>1, RosterStateSound
  <2> QED
    BY <1>1, <2>2 DEF WithRosterState
<1>7. DOMAIN players' = DOMAIN players \cup {p} /\ players'[p] = Living
      /\ \A a \in DOMAIN players : a # p => players'[a] = players[a]
  BY <1>1 DEF Put
<1>8. BodiesOK(players', sessions')
  BY <1>2, <1>3, <1>4, <1>7, Zeros DEF WorldOK, BodiesOK, Actors
<1>9. SeatsOK(sessions', players', roster')
  BY <1>2, <1>3, <1>6, <1>7, IdsApart DEF WorldOK, SeatsOK
<1> QED
  BY <1>3, <1>4, <1>5, <1>6, <1>8, <1>9 DEF WorldOK

\* Without a body on a team that is not played.
LEMMA StandAsideWorld ==
  ASSUME NEW ss, WorldOK(ss, players, roster, bindings),
         NEW p \in DOMAIN ss, NEW t \in {"Spectator", "None"},
         sessions' = [ss EXCEPT ![p].team = t],
         players' = Without(players, {p}),
         roster' = WithRosterState(sessions', bindings, Without(roster, {p}), {p})
  PROVE  /\ WorldOK(sessions', players', roster', bindings)
         /\ DOMAIN sessions' = DOMAIN ss /\ sessions'[p].played = ss[p].played
         /\ \A q \in DOMAIN ss : q # p => sessions'[q] = ss[q]
<1>1. ss[p] \in Session /\ p \in Peers /\ t \in Team /\ t \notin Playable
  BY DEF WorldOK, SessionsOK, Team, Playable
<1>2. DOMAIN sessions' = DOMAIN ss /\ \A q \in DOMAIN ss : q # p => sessions'[q] = ss[q]
  OBVIOUS
<1>3. /\ sessions'[p] \in Session /\ sessions'[p].team = t
      /\ sessions'[p].timer = ss[p].timer /\ sessions'[p].played = ss[p].played
  BY <1>1 DEF Session
<1>4. SessionsOK(sessions')
  BY <1>1, <1>2, <1>3 DEF WorldOK, SessionsOK
<1>5. EntriesOK(Without(roster, {p})) /\ DOMAIN Without(roster, {p}) = DOMAIN roster \ {p}
  BY FewerEntries DEF WorldOK, Without, Restrict
<1>6. EntriesOK(roster') /\ DOMAIN roster' = {p} \cup (DOMAIN roster \ {p})
  <2>1. {p} \in SUBSET DOMAIN sessions'
    BY <1>2
  <2>2. EntriesOK(WithRosterState(sessions', bindings, Without(roster, {p}), {p}))
    BY <1>4, <1>5, <2>1, RosterStateSound
  <2> QED
    BY <1>5, <2>2 DEF WithRosterState
<1>7. DOMAIN players' = DOMAIN players \ {p} /\ \A a \in DOMAIN players' : players'[a] = players[a]
  BY DEF Without, Restrict
<1>8. BodiesOK(players', sessions')
  BY <1>2, <1>7 DEF WorldOK, BodiesOK
<1>9. SeatsOK(sessions', players', roster')
  BY <1>1, <1>2, <1>6, <1>7, IdsApart DEF WorldOK, SeatsOK
<1> QED
  BY <1>2, <1>3, <1>4, <1>6, <1>8, <1>9 DEF WorldOK

(***************************************************************************)
(* What a client is bound to and its return team are written together with *)
(* the team; both belong to a client that is there.                        *)
(***************************************************************************)
LEMMA SpectateInv ==
  ASSUME SessionsInv, NEW q, NEW p \in DOMAIN sessions, Spectate(Heard(q), p)
  PROVE  SessionsInv'
<1> DEFINE ss == Heard(q)
<1>1. /\ WorldOK(ss, players, roster, bindings) /\ LeftOK(ss, bindings, returnTeam, expired)
      /\ p \in DOMAIN ss /\ p \in Peers
  BY HeardWorld, HeardThere DEF SessionsInv, WorldOK, SessionsOK
<1>2. /\ ss[p].team # "Spectator" /\ sessions' = [ss EXCEPT ![p].team = "Spectator"]
      /\ players' = Without(players, {p})
      /\ roster' = WithRosterState(sessions', bindings, Without(roster, {p}), {p})
      /\ returnTeam' = [returnTeam EXCEPT ![p] = ss[p].team]
      /\ bindings' = Put(bindings, p, NoActor)
      /\ UNCHANGED <<botTimer, earlyRespawns, expired>>
  BY DEF Spectate
<1> HIDE DEF ss
<1>3. /\ WorldOK(sessions', players', roster', bindings)
      /\ DOMAIN sessions' = DOMAIN ss /\ sessions'[p].played = ss[p].played
      /\ \A x \in DOMAIN ss : x # p => sessions'[x] = ss[x]
  BY <1>1, <1>2, StandAsideWorld
<1>4. DOMAIN bindings' = DOMAIN bindings \cup {p} /\ bindings'[p] = NoActor
      /\ \A x \in DOMAIN bindings : x # p => bindings'[x] = bindings[x]
  BY <1>2 DEF Put
<1>5. WorldOK(sessions', players', roster', bindings')
  BY <1>1, <1>3, <1>4 DEF WorldOK, BindingsOK
<1>6. ss[p].team \in Playable \cup {"None"} /\ (ss[p].team # "None" => ss[p].played)
  BY <1>1, <1>2 DEF WorldOK, SessionsOK, Session, Team
<1>7. LeftOK(sessions', bindings', returnTeam', expired') /\ ClocksOK'
  <2>1. returnTeam \in [Peers -> Playable \cup {"None"}]
    BY DEF SessionsInv, ClocksOK
  <2>2. LeftOK(sessions', bindings', returnTeam', expired')
    BY <1>1, <1>2, <1>3, <1>4, <1>6, <2>1 DEF LeftOK
  <2>3. returnTeam' \in [Peers -> Playable \cup {"None"}]
    BY <1>2, <1>6, <2>1
  <2> QED
    BY <1>2, <2>2, <2>3 DEF SessionsInv, ClocksOK
<1> QED
  BY <1>5, <1>7 DEF SessionsInv

LEMMA JoinInv ==
  ASSUME SessionsInv, NEW q, NEW p \in DOMAIN sessions, NEW t \in Playable,
         JoinTeam(Heard(q), p, t), bindings' = Put(bindings, p, p),
         returnTeam' = returnTeam \/ returnTeam' = [returnTeam EXCEPT ![p] = t],
         UNCHANGED <<botTimer, earlyRespawns, expired>>
  PROVE  SessionsInv'
<1> DEFINE ss == Heard(q)
<1>1. /\ WorldOK(ss, players, roster, bindings) /\ LeftOK(ss, bindings, returnTeam, expired)
      /\ p \in DOMAIN ss /\ p \in Peers /\ JoinTeam(ss, p, t)
  BY HeardWorld, HeardThere DEF SessionsInv, WorldOK, SessionsOK
<1> HIDE DEF ss
<1>2. /\ WorldOK(sessions', players', roster', bindings)
      /\ DOMAIN sessions' = DOMAIN ss /\ sessions'[p].played
      /\ \A x \in DOMAIN ss : x # p => sessions'[x] = ss[x]
  BY <1>1, JoinWorld
<1>3. DOMAIN bindings' = DOMAIN bindings \cup {p} /\ bindings'[p] = p
      /\ \A x \in DOMAIN bindings : x # p => bindings'[x] = bindings[x]
  BY DEF Put
<1>4. WorldOK(sessions', players', roster', bindings')
  BY <1>1, <1>2, <1>3 DEF WorldOK, BindingsOK
<1>5. returnTeam \in [Peers -> Playable \cup {"None"}]
  BY DEF SessionsInv, ClocksOK
<1>6. LeftOK(sessions', bindings', returnTeam', expired')
  BY <1>1, <1>2, <1>3, <1>5 DEF LeftOK
<1>7. returnTeam' \in [Peers -> Playable \cup {"None"}]
  BY <1>5
<1> QED
  BY <1>4, <1>6, <1>7 DEF SessionsInv, ClocksOK

LEMMA LeaveSpectatingInv ==
  ASSUME SessionsInv, NEW q, NEW p \in DOMAIN sessions, LeaveSpectating(Heard(q), p)
  PROVE  SessionsInv'
<1> DEFINE ss == Heard(q)
<1>1. CASE returnTeam[p] \in Playable
  BY <1>1, JoinInv DEF LeaveSpectating
<1>2. CASE returnTeam[p] \notin Playable
  <2>1. /\ WorldOK(ss, players, roster, bindings) /\ LeftOK(ss, bindings, returnTeam, expired)
        /\ p \in DOMAIN ss
    BY HeardWorld, HeardThere DEF SessionsInv, WorldOK
  <2>2. /\ sessions' = [ss EXCEPT ![p].team = "None"]
        /\ players' = Without(players, {p})
        /\ roster' = WithRosterState(sessions', bindings, Without(roster, {p}), {p})
        /\ UNCHANGED <<bindings, returnTeam, botTimer, earlyRespawns, expired>>
    BY <1>2 DEF LeaveSpectating
  <2> HIDE DEF ss
  <2>3. /\ WorldOK(sessions', players', roster', bindings)
        /\ DOMAIN sessions' = DOMAIN ss /\ sessions'[p].played = ss[p].played
        /\ \A x \in DOMAIN ss : x # p => sessions'[x] = ss[x]
    BY <2>1, <2>2, StandAsideWorld
  <2>4. LeftOK(sessions', bindings', returnTeam', expired')
    BY <2>1, <2>2, <2>3 DEF LeftOK
  <2> QED
    BY <2>2, <2>3, <2>4 DEF SessionsInv, ClocksOK
<1> QED
  BY <1>1, <1>2

LEMMA TeamChangeInv ==
  ASSUME SessionsInv, NEW q, NEW p \in DOMAIN sessions, NEW t,
         HandleTeamChangeRequest(Heard(q), p, t)
  PROVE  SessionsInv'
<1>1. CASE Spectate(Heard(q), p)
  BY <1>1, SpectateInv
<1>2. CASE LeaveSpectating(Heard(q), p)
  BY <1>2, LeaveSpectatingInv
<1>3. CASE ChangeTeam(Heard(q), p, t)
  BY <1>3, JoinInv DEF ChangeTeam
<1> QED
  BY <1>1, <1>2, <1>3 DEF HandleTeamChangeRequest

-----------------------------------------------------------------------------
(* Control bindings. *)

LEMMA SwitchControlInv ==
  ASSUME SessionsInv, NEW q \in DOMAIN sessions, NEW p \in DOMAIN sessions,
         NEW a \in DOMAIN roster, SwitchControl(q, p, a)
  PROVE  SessionsInv'
<1> DEFINE ss == Heard(q)
<1>1. /\ WorldOK(ss, players, roster, bindings) /\ LeftOK(ss, bindings, returnTeam, expired)
      /\ p \in DOMAIN ss /\ p \in Peers
  BY HeardWorld, HeardThere DEF SessionsInv, WorldOK, SessionsOK
<1>2. /\ roster[a].team \in Playable /\ (roster[a].isBot \/ a = p)
      /\ bindings' = Put(bindings, p, a)
      /\ sessions' = [ss EXCEPT ![p].team = roster[a].team, ![p].played = TRUE]
      /\ roster' = WithRosterState(sessions', bindings', roster, {p})
      /\ UNCHANGED <<players, returnTeam, botTimer, earlyRespawns, expired>>
  BY DEF SwitchControl, IsLocalControlEligible
<1> HIDE DEF ss
<1>3. a \in {NoActor, p} \cup Bots
  BY <1>1, <1>2 DEF WorldOK, EntriesOK
<1>4. DOMAIN sessions' = DOMAIN ss /\ \A x \in DOMAIN ss : x # p => sessions'[x] = ss[x]
  BY <1>2
<1>5. /\ sessions'[p] \in Session /\ sessions'[p].team \in Playable
      /\ sessions'[p].timer = ss[p].timer /\ sessions'[p].played
  <2> DEFINE t == roster[a].team
  <2>1. sessions'[p] = [ss[p] EXCEPT !.team = t, !.played = TRUE]
    BY <1>1, <1>2
  <2>2. ss[p] \in Session /\ t \in Playable /\ t \in Team
    BY <1>1, <1>2 DEF WorldOK, SessionsOK, Team
  <2> HIDE DEF t
  <2> QED
    BY <2>1, <2>2 DEF Session
<1>6. SessionsOK(sessions')
  BY <1>1, <1>4, <1>5 DEF WorldOK, SessionsOK
<1>7. EntriesOK(roster') /\ DOMAIN roster' = DOMAIN roster
  <2>1. EntriesOK(roster) /\ {p} \in SUBSET DOMAIN sessions' /\ p \in DOMAIN roster
    BY <1>1, <1>4 DEF WorldOK, SeatsOK
  <2>2. EntriesOK(WithRosterState(sessions', bindings', roster, {p}))
    BY <1>6, <2>1, RosterStateSound
  <2> QED
    BY <1>2, <2>1, <2>2 DEF WithRosterState
<1>8. BodiesOK(players', sessions')
  BY <1>1, <1>2, <1>4, <1>5 DEF WorldOK, BodiesOK
<1>9. SeatsOK(sessions', players', roster')
  BY <1>1, <1>2, <1>4, <1>7 DEF WorldOK, SeatsOK
<1>10. DOMAIN bindings' = DOMAIN bindings \cup {p} /\ bindings'[p] = a
       /\ \A x \in DOMAIN bindings : x # p => bindings'[x] = bindings[x]
  BY <1>2 DEF Put
<1>11. BindingsOK(bindings')
  BY <1>1, <1>3, <1>10 DEF WorldOK, BindingsOK
<1>12. LeftOK(sessions', bindings', returnTeam', expired')
  BY <1>1, <1>2, <1>4, <1>5, <1>10 DEF LeftOK
<1> QED
  BY <1>2, <1>6, <1>7, <1>8, <1>9, <1>11, <1>12 DEF SessionsInv, WorldOK, ClocksOK

LEMMA FollowTargetInv ==
  ASSUME SessionsInv, NEW q \in DOMAIN sessions, NEW p \in DOMAIN sessions, FollowTarget(q, p)
  PROVE  SessionsInv'
<1> DEFINE ss == Heard(q)
<1>1. /\ WorldOK(ss, players, roster, bindings) /\ LeftOK(ss, bindings, returnTeam, expired)
      /\ p \in DOMAIN ss /\ p \in Peers
  BY HeardWorld, HeardThere DEF SessionsInv, WorldOK, SessionsOK
<1>2. /\ bindings' = Put(bindings, p, ControlOf(sessions, bindings, p))
      /\ sessions' = ss /\ roster' = WithRosterState(sessions', bindings', roster, {p})
      /\ UNCHANGED <<players, returnTeam, botTimer, earlyRespawns, expired>>
  BY DEF FollowTarget
<1> HIDE DEF ss
<1>3. ControlOf(sessions, bindings, p) \in {NoActor, p} \cup Bots
  BY <1>1 DEF ControlOf, WorldOK, BindingsOK
<1>4. DOMAIN bindings' = DOMAIN bindings \cup {p} /\ BindingsOK(bindings')
  BY <1>1, <1>2, <1>3 DEF Put, WorldOK, BindingsOK
<1>5. EntriesOK(roster') /\ DOMAIN roster' = DOMAIN roster
  <2>1. SessionsOK(ss) /\ EntriesOK(roster) /\ {p} \in SUBSET DOMAIN ss /\ p \in DOMAIN roster
    BY <1>1 DEF WorldOK, SeatsOK
  <2>2. EntriesOK(WithRosterState(ss, bindings', roster, {p}))
    BY <2>1, RosterStateSound
  <2> QED
    BY <1>2, <2>1, <2>2 DEF WithRosterState
<1>6. WorldOK(sessions', players', roster', bindings')
  BY <1>1, <1>2, <1>4, <1>5 DEF WorldOK, SeatsOK
<1>7. LeftOK(sessions', bindings', returnTeam', expired')
  BY <1>1, <1>2, <1>4 DEF LeftOK
<1> QED
  BY <1>2, <1>6, <1>7 DEF SessionsInv, ClocksOK

-----------------------------------------------------------------------------
(* Bots come, go and change sides under their own ids. *)

LEMMA BotsInv ==
  ASSUME SessionsInv, NEW b \in Bots, sessions' = Heard(HostPeer),
         EntriesOK(roster'), DOMAIN players' \subseteq Actors,
         \A a \in DOMAIN players' : players'[a] \in Body,
         \A a \in Actors : a # b => (a \in DOMAIN roster' <=> a \in DOMAIN roster)
                                 /\ (a \in DOMAIN players' <=> a \in DOMAIN players),
         \A a \in DOMAIN players : a # b => players'[a] = players[a],
         b \in DOMAIN roster' <=> b \in DOMAIN players',
         UNCHANGED <<bindings, returnTeam, botTimer, earlyRespawns, expired>>
  PROVE  SessionsInv'
<1> DEFINE ss == Heard(HostPeer)
<1>1. /\ WorldOK(ss, players, roster, bindings) /\ LeftOK(ss, bindings, returnTeam, expired)
      /\ sessions' = ss
  BY HeardWorld
<1> HIDE DEF ss
<1>2. \A p \in Peers : p # b /\ p \in Actors
  BY IdsApart DEF Actors
<1>3. BodiesOK(players', sessions')
  BY <1>1, <1>2 DEF WorldOK, BodiesOK
<1>4. SeatsOK(sessions', players', roster')
  BY <1>1, <1>2 DEF WorldOK, SeatsOK, Actors
<1> QED
  BY <1>1, <1>3, <1>4 DEF SessionsInv, WorldOK, ClocksOK

LEMMA BotIsBot ==
  ASSUME SessionsInv, NEW b \in RosterBots
  PROVE  b \in Bots /\ b \in DOMAIN roster /\ b \in DOMAIN players /\ b \in Actors
BY DEF SessionsInv, WorldOK, EntriesOK, SeatsOK, RosterBots, Actors

LEMMA AdminTeamOfBotInv ==
  ASSUME SessionsInv, NEW b \in RosterBots, NEW t \in Playable, AdminTeamOfBot(b, t)
  PROVE  SessionsInv'
<1>1. /\ roster' = [roster EXCEPT ![b].team = t] /\ players' = [players EXCEPT ![b] = Living]
      /\ sessions' = Heard(HostPeer)
      /\ UNCHANGED <<bindings, returnTeam, botTimer, earlyRespawns, expired>>
  BY DEF AdminTeamOfBot
<1>2. b \in Bots /\ b \in DOMAIN roster /\ b \in DOMAIN players
  BY BotIsBot
<1>3. EntriesOK(roster)
  BY DEF SessionsInv, WorldOK
<1>4. DOMAIN roster' = DOMAIN roster /\ \A a \in DOMAIN roster : a # b => roster'[a] = roster[a]
  BY <1>1
<1>5. roster'[b] \in Entry /\ roster'[b].isBot = roster[b].isBot
  <2>1. roster'[b] = [roster[b] EXCEPT !.team = t]
    BY <1>1, <1>2
  <2> QED
    BY <1>2, <1>3, <2>1 DEF EntriesOK, Entry, Team
<1>6. EntriesOK(roster')
  BY <1>2, <1>3, <1>4, <1>5 DEF EntriesOK
<1>7. DOMAIN players' = DOMAIN players /\ DOMAIN players' \subseteq Actors
      /\ \A a \in DOMAIN players' : players'[a] \in Body
  BY <1>1, Zeros DEF SessionsInv, WorldOK, BodiesOK
<1> QED
  BY <1>1, <1>2, <1>4, <1>6, <1>7, BotsInv

LEMMA KickBotInv ==
  ASSUME SessionsInv, NEW b \in RosterBots, KickBot(b)
  PROVE  SessionsInv'
<1>1. /\ roster' = Without(roster, {b}) /\ players' = Without(players, {b})
      /\ sessions' = Heard(HostPeer)
      /\ UNCHANGED <<bindings, returnTeam, botTimer, earlyRespawns, expired>>
  BY DEF KickBot
<1>2. b \in Bots
  BY BotIsBot
<1>3. EntriesOK(roster') /\ DOMAIN roster' = DOMAIN roster \ {b}
  BY <1>1, FewerEntries DEF SessionsInv, WorldOK, Without, Restrict
<1>4. DOMAIN players' = DOMAIN players \ {b} /\ \A a \in DOMAIN players' : players'[a] = players[a]
  BY <1>1 DEF Without, Restrict
<1>5. DOMAIN players' \subseteq Actors /\ \A a \in DOMAIN players' : players'[a] \in Body
  BY <1>4 DEF SessionsInv, WorldOK, BodiesOK
<1> QED
  BY <1>1, <1>2, <1>3, <1>4, <1>5, BotsInv

LEMMA SpawnBotInv ==
  ASSUME SessionsInv, NEW t \in Playable, SpawnBot(t)
  PROVE  SessionsInv'
<1> DEFINE b == NextAvailableBotActorId
<1>1. /\ b \in Bots /\ sessions' = Heard(HostPeer)
      /\ players' = Put(players, b, Living)
      /\ roster' = Put(roster, b, [team |-> t, isBot |-> TRUE])
      /\ UNCHANGED <<bindings, returnTeam, botTimer, earlyRespawns, expired>>
  BY DEF SpawnBot
<1> HIDE DEF b
<1>2. DOMAIN roster' = DOMAIN roster \cup {b} /\ roster'[b] = [team |-> t, isBot |-> TRUE]
      /\ \A a \in DOMAIN roster : a # b => roster'[a] = roster[a]
  BY <1>1 DEF Put
<1>3. EntriesOK(roster')
  <2>1. roster'[b] \in Entry /\ roster'[b].isBot
    BY <1>2 DEF Entry, Team
  <2>2. EntriesOK(roster) /\ b \in Actors
    BY <1>1 DEF SessionsInv, WorldOK, Actors
  <2> QED
    BY <1>1, <1>2, <2>1, <2>2 DEF EntriesOK
<1>4. DOMAIN players' = DOMAIN players \cup {b} /\ players'[b] = Living
      /\ \A a \in DOMAIN players : a # b => players'[a] = players[a]
  BY <1>1 DEF Put
<1>5. DOMAIN players' \subseteq Actors /\ \A a \in DOMAIN players' : players'[a] \in Body
  BY <1>1, <1>4, Zeros DEF SessionsInv, WorldOK, BodiesOK, Actors
<1> QED
  BY <1>1, <1>2, <1>3, <1>4, <1>5, BotsInv

-----------------------------------------------------------------------------
(* The tick. *)

(***************************************************************************)
(* A body and its timer stay in step: the timer counts the ticks the body  *)
(* has been found dead, and who respawns has been down for the delay.      *)
(***************************************************************************)
LEMMA FateSound ==
  ASSUME NEW body \in Body, NEW timer \in 0 .. (RespawnTicks - 1), NEW shot \in BOOLEAN,
         shot => body.alive, body.down = timer, body.alive => body.down = 0
  PROVE  LET f == Fate(body, shot, timer) IN
           /\ f.body.down = f.timer /\ (f.body.alive => f.body.down = 0)
           /\ f.down \in Nat /\ (f.respawned => f.down >= RespawnTicks)
<1> DEFINE f == Fate(body, shot, timer)
<1>1. RespawnTicks \in Nat \ {0}
  BY SessionsAssumption
<1>2. CASE body.alive /\ ~shot
  BY <1>2 DEF Fate, Body
<1>3. CASE ~(body.alive /\ ~shot)
  <2>1. FoundDead(body, shot) = [alive |-> FALSE, down |-> timer + 1]
    <3>1. (IF shot THEN 0 ELSE body.down) = timer
      OBVIOUS
    <3>2. Capped(timer + 1) = timer + 1
      BY <1>1 DEF Capped
    <3> QED
      BY <3>1, <3>2 DEF FoundDead
  <2>2. f = IF timer + 1 >= RespawnTicks
            THEN [body |-> Living, timer |-> 0, respawned |-> TRUE, down |-> timer + 1]
            ELSE [body |-> [alive |-> FALSE, down |-> timer + 1], timer |-> timer + 1,
                  respawned |-> FALSE, down |-> timer + 1]
    BY <1>3, <2>1 DEF Fate, RespawnDue
  <2> QED
    BY <1>1, <2>2 DEF Living
<1> QED
  BY <1>2, <1>3

\* Whatever body meets it, it stays a body and its timer a timer.
LEMMA FateTyped ==
  ASSUME NEW body \in Body, NEW timer \in 0 .. (RespawnTicks - 1), NEW shot \in BOOLEAN
  PROVE  /\ Fate(body, shot, timer).body \in Body
         /\ Fate(body, shot, timer).timer \in 0 .. (RespawnTicks - 1)
         /\ FoundDead(body, shot) \in Body
<1>1. RespawnTicks \in Nat \ {0}
  BY SessionsAssumption
<1>2. FoundDead(body, shot) \in Body
  BY <1>1 DEF FoundDead, Capped, Body
<1>3. CASE body.alive /\ ~shot
  BY <1>1, <1>2, <1>3 DEF Fate
<1>4. CASE ~(body.alive /\ ~shot) /\ RespawnDue(timer + 1)
  BY <1>1, <1>2, <1>4, Zeros DEF Fate
<1>5. CASE ~(body.alive /\ ~shot) /\ ~RespawnDue(timer + 1)
  BY <1>1, <1>2, <1>5 DEF Fate, RespawnDue
<1> QED
  BY <1>3, <1>4, <1>5

LEMMA BotFateTyped ==
  ASSUME SessionsInv, NEW b \in RosterBots, NEW shot \in BOOLEAN
  PROVE  BotFate(b, shot).body \in Body /\ BotFate(b, shot).timer \in 0 .. (RespawnTicks - 1)
<1>1. players[b] \in Body /\ botTimer[b] \in 0 .. (RespawnTicks - 1)
  BY BotIsBot DEF SessionsInv, WorldOK, BodiesOK, ClocksOK
<1> QED
  BY <1>1, FateTyped DEF BotFate

LEMMA TickInv ==
  ASSUME SessionsInv, NEW victim, NEW late, Tick(victim, late)
  PROVE  SessionsInv'
<1> DEFINE embodied == {p \in DOMAIN sessions : sessions[p].team \in Playable /\ p \in DOMAIN players}
           bots     == RosterBots \cap DOMAIN players
           fate == [a \in embodied \cup bots |->
                      IF a \in bots THEN BotFate(a, a = victim)
                      ELSE Fate(players[a], a = victim, sessions[a].timer)]
           respawned == {a \in DOMAIN fate : fate[a].respawned}
           entered == {p \in DOMAIN sessions : p \in respawned \/ p \in SyncedSessions}
           synced == WithRosterState(sessions, bindings, roster, entered)
           pruned == {p \in DOMAIN sessions : TimedOut(p)}
           ticked == [p \in DOMAIN sessions |->
                        [sessions[p] EXCEPT
                           !.timer = IF p \in embodied THEN fate[p].timer ELSE 0,
                           !.quiet = IF @ < ClientTimeout THEN @ + 1 ELSE @]]
<1>1. /\ victim = NoActor \/ (victim \in DOMAIN fate /\ players[victim].alive)
      /\ late = NoActor \/ late \in bots
      /\ sessions' = Without(ticked, pruned)
      /\ players' = Without([a \in DOMAIN players |->
                               IF a \notin DOMAIN fate THEN players[a]
                               ELSE IF a = late THEN [alive |-> FALSE, down |-> 0]
                               ELSE fate[a].body], pruned)
      /\ roster' = Without(synced, pruned)
      /\ botTimer' = [b \in Bots |-> IF b \in DOMAIN fate THEN fate[b].timer ELSE botTimer[b]]
      /\ earlyRespawns' = earlyRespawns \cup {a \in respawned : fate[a].down < RespawnTicks}
      /\ expired' = expired \cup pruned
      /\ UNCHANGED <<bindings, returnTeam>>
  BY DEF Tick
<1>2. /\ SessionsOK(sessions) /\ EntriesOK(roster) /\ BodiesOK(players, sessions)
      /\ SeatsOK(sessions, players, roster) /\ BindingsOK(bindings)
      /\ LeftOK(sessions, bindings, returnTeam, expired) /\ ClocksOK
  BY DEF SessionsInv, WorldOK
<1>3. bots \subseteq Bots /\ embodied \subseteq Peers /\ embodied \cap bots = {}
      /\ \A p \in DOMAIN players \cap Peers : p \in embodied
  BY <1>2, BotIsBot, IdsApart DEF SessionsOK, BodiesOK
<1>4. ASSUME NEW p \in embodied
      PROVE  /\ fate[p].timer \in 0 .. (RespawnTicks - 1) /\ fate[p].body \in Body
             /\ fate[p].body.down = fate[p].timer
             /\ fate[p].body.alive => fate[p].body.down = 0
             /\ fate[p].down \in Nat /\ (fate[p].respawned => fate[p].down >= RespawnTicks)
  <2> DEFINE shot == p = victim
  <2>1. fate[p] = Fate(players[p], shot, sessions[p].timer)
    BY <1>3
  <2>2. players[p] \in Body /\ sessions[p].timer \in 0 .. (RespawnTicks - 1)
    BY <1>2 DEF SessionsOK, BodiesOK, Session
  <2>3. /\ players[p].down = sessions[p].timer /\ (players[p].alive => players[p].down = 0)
        /\ shot \in BOOLEAN /\ (shot => players[p].alive)
    BY <1>1, <1>2, <1>3, IdsApart DEF BodiesOK, Actors
  <2> HIDE DEF embodied, bots, fate, shot
  <2> QED
    BY <2>1, <2>2, <2>3, FateSound, FateTyped
<1>5. ASSUME NEW b \in bots
      PROVE  fate[b].timer \in 0 .. (RespawnTicks - 1) /\ fate[b].body \in Body
  <2>1. fate[b] = BotFate(b, b = victim)
    OBVIOUS
  <2>2. b \in RosterBots
    OBVIOUS
  <2> HIDE DEF bots, fate
  <2> QED
    BY <2>1, <2>2, BotFateTyped
<1>6. DOMAIN fate = embodied \cup bots /\ embodied \subseteq DOMAIN sessions
      /\ respawned \subseteq DOMAIN fate /\ pruned \subseteq DOMAIN sessions
      /\ entered \subseteq DOMAIN sessions /\ \A a \in respawned : fate[a].respawned
  OBVIOUS
<1>7. /\ DOMAIN ticked = DOMAIN sessions
      /\ \A p \in DOMAIN sessions :
           ticked[p] = [sessions[p] EXCEPT
                          !.timer = IF p \in embodied THEN fate[p].timer ELSE 0,
                          !.quiet = IF @ < ClientTimeout THEN @ + 1 ELSE @]
  OBVIOUS
<1> HIDE DEF embodied, bots, fate, respawned, entered, pruned, ticked
<1>8. ASSUME NEW p \in DOMAIN sessions
      PROVE  /\ ticked[p] \in Session /\ ticked[p].team = sessions[p].team
             /\ ticked[p].played = sessions[p].played
             /\ p \in embodied => ticked[p].timer = fate[p].timer
  <2> DEFINE tm == IF p \in embodied THEN fate[p].timer ELSE 0
             qt == IF sessions[p].quiet < ClientTimeout THEN sessions[p].quiet + 1 ELSE sessions[p].quiet
  <2>1. ticked[p] = [sessions[p] EXCEPT !.timer = tm, !.quiet = qt]
    BY <1>7
  <2>2. tm \in 0 .. (RespawnTicks - 1) /\ (p \in embodied => tm = fate[p].timer)
    BY <1>4, Zeros
  <2>3. sessions[p] \in Session
    BY <1>2 DEF SessionsOK
  <2>4. qt \in 0 .. ClientTimeout
    BY <2>3, SessionsAssumption DEF Session
  <2> HIDE DEF tm, qt
  <2> QED
    BY <2>1, <2>2, <2>3, <2>4 DEF Session
<1>9. /\ DOMAIN sessions' = DOMAIN sessions \ pruned
      /\ \A p \in DOMAIN sessions' : sessions'[p] = ticked[p]
  BY <1>1, <1>7 DEF Without, Restrict
<1>10. SessionsOK(sessions')
  BY <1>2, <1>8, <1>9 DEF SessionsOK
<1>11. EntriesOK(roster') /\ DOMAIN roster' = DOMAIN roster \ pruned
  <2>1. EntriesOK(synced) /\ DOMAIN synced = entered \cup DOMAIN roster
    BY <1>2, <1>6, RosterStateSound
  <2>2. entered \subseteq DOMAIN roster
    BY <1>2, <1>6 DEF SeatsOK
  <2> HIDE DEF synced
  <2> QED
    BY <1>1, <2>1, <2>2, FewerEntries DEF Without, Restrict
<1>12. /\ DOMAIN players' = DOMAIN players \ pruned
       /\ \A a \in DOMAIN players' :
            players'[a] = IF a \notin DOMAIN fate THEN players[a]
                          ELSE IF a = late THEN [alive |-> FALSE, down |-> 0]
                          ELSE fate[a].body
  BY <1>1 DEF Without, Restrict
<1>13. BodiesOK(players', sessions')
  <2>1. ASSUME NEW a \in DOMAIN players'
        PROVE  players'[a] \in Body
    <3>1. [alive |-> FALSE, down |-> 0] \in Body
      BY SessionsAssumption DEF Body
    <3> QED
      BY <1>2, <1>4, <1>5, <1>6, <1>12, <3>1 DEF BodiesOK
  <2>2. ASSUME NEW p \in DOMAIN players' \cap Peers
        PROVE  /\ p \in DOMAIN sessions' /\ sessions'[p].team \in Playable
               /\ players'[p].down = sessions'[p].timer
               /\ players'[p].alive => players'[p].down = 0
    <3>1. p \in embodied /\ p \in DOMAIN sessions' /\ sessions[p].team \in Playable
      BY <1>2, <1>3, <1>9, <1>12 DEF BodiesOK
    <3>2. p # late
      BY <1>1, <1>3, IdsApart DEF Actors
    <3>3. players'[p] = fate[p].body
      BY <1>6, <1>12, <3>1, <3>2
    <3> QED
      BY <1>4, <1>8, <1>9, <3>1, <3>3
  <2> QED
    BY <1>2, <1>12, <2>1, <2>2 DEF BodiesOK
<1>14. SeatsOK(sessions', players', roster')
  BY <1>2, <1>6, <1>9, <1>11, <1>12 DEF SeatsOK
<1>15. LeftOK(sessions', bindings', returnTeam', expired')
  BY <1>1, <1>2, <1>8, <1>9 DEF LeftOK
<1>16. ClocksOK'
  <2>1. botTimer' \in [Bots -> 0 .. (RespawnTicks - 1)]
    BY <1>1, <1>2, <1>4, <1>5, <1>6 DEF ClocksOK
  <2>2. earlyRespawns' \cap Peers = {}
    <3>1. ASSUME NEW a \in respawned, a \in Peers, fate[a].down < RespawnTicks
          PROVE  FALSE
      <4>1. a \in embodied
        BY <1>3, <1>6, <3>1, IdsApart
      <4> QED
        BY <1>4, <1>6, <3>1, <4>1, SessionsAssumption
    <3> QED
      BY <1>1, <1>2, <3>1 DEF ClocksOK
  <2> QED
    BY <1>1, <1>2, <2>1, <2>2 DEF ClocksOK
<1> QED
  BY <1>1, <1>2, <1>10, <1>11, <1>13, <1>14, <1>15, <1>16 DEF SessionsInv, WorldOK

(***************************************************************************)
(* Whoever controls its own body has its entry written in the tick.        *)
(***************************************************************************)
LEMMA TickSettles ==
  ASSUME NEW victim, NEW late, Tick(victim, late),
         NEW p \in DOMAIN sessions' \cap DOMAIN players', ControlOf(sessions', bindings', p) = p,
         SessionsInv
  PROVE  roster'[p].team = sessions'[p].team
<1>1. PICK ticked, body, entered, pruned :
        /\ sessions' = Without(ticked, pruned) /\ DOMAIN ticked = DOMAIN sessions
        /\ \A q \in DOMAIN sessions : ticked[q].team = sessions[q].team
        /\ players' = Without(body, pruned) /\ DOMAIN body = DOMAIN players
        /\ roster' = Without(WithRosterState(sessions, bindings, roster, entered), pruned)
        /\ SyncedSessions \subseteq entered
        /\ bindings' = bindings
  <2> DEFINE embodied == {q \in DOMAIN sessions : sessions[q].team \in Playable /\ q \in DOMAIN players}
             bots     == RosterBots \cap DOMAIN players
             fate == [a \in embodied \cup bots |->
                        IF a \in bots THEN BotFate(a, a = victim)
                        ELSE Fate(players[a], a = victim, sessions[a].timer)]
             respawned == {a \in DOMAIN fate : fate[a].respawned}
             entered == {q \in DOMAIN sessions : q \in respawned \/ q \in SyncedSessions}
             pruned == {q \in DOMAIN sessions : TimedOut(q)}
             ticked == [q \in DOMAIN sessions |->
                          [sessions[q] EXCEPT
                             !.timer = IF q \in embodied THEN fate[q].timer ELSE 0,
                             !.quiet = IF @ < ClientTimeout THEN @ + 1 ELSE @]]
             body == [a \in DOMAIN players |->
                        IF a \notin DOMAIN fate THEN players[a]
                        ELSE IF a = late THEN [alive |-> FALSE, down |-> 0]
                        ELSE fate[a].body]
  <2>1. /\ sessions' = Without(ticked, pruned) /\ players' = Without(body, pruned)
        /\ roster' = Without(WithRosterState(sessions, bindings, roster, entered), pruned)
        /\ bindings' = bindings
    BY DEF Tick
  <2>2. DOMAIN ticked = DOMAIN sessions /\ DOMAIN body = DOMAIN players /\ SyncedSessions \subseteq entered
    BY DEF SyncedSessions
  <2>3. ASSUME NEW q \in DOMAIN sessions
        PROVE  ticked[q].team = sessions[q].team
    BY DEF SessionsInv, WorldOK, SessionsOK, Session
  <2> HIDE DEF ticked, body, entered, pruned
  <2> QED
    BY <2>1, <2>2, <2>3
<1>2. /\ p \in DOMAIN sessions /\ p \in DOMAIN players /\ p \notin pruned
      /\ sessions'[p].team = sessions[p].team
  BY <1>1 DEF Without, Restrict
<1>3. ControlOf(sessions, bindings, p) = p
  BY <1>1, <1>2 DEF ControlOf
<1>4. p \in entered
  <2>1. p # NoActor
    BY <1>2, IdsApart DEF SessionsInv, WorldOK, SessionsOK, Actors
  <2>2. ControlledActor(sessions, bindings, p) = p
    BY <1>3, <2>1 DEF ControlledActor
  <2> QED
    BY <1>1, <1>2, <2>2 DEF SyncedSessions
<1>5. roster'[p] = RosterEntryOf(sessions, bindings, roster, p)
  BY <1>1, <1>2, <1>4 DEF Without, Restrict, WithRosterState
<1>6. ParticipantTeam(sessions, bindings, roster, p) = sessions[p].team
  BY <1>3 DEF ParticipantTeam
<1> QED
  BY <1>2, <1>5, <1>6 DEF RosterEntryOf

-----------------------------------------------------------------------------
LEMMA InitInv ==
  ASSUME Init
  PROVE  SessionsInv
<1> DEFINE initial == FirstBotId .. (FirstBotId + InitialBots - 1)
<1>1. PICK team \in [initial -> Playable] :
        roster = [b \in initial |-> [team |-> team[b], isBot |-> TRUE]]
  BY DEF Init
<1>2. sessions = <<>> /\ bindings = <<>> /\ players = [b \in initial |-> Living]
      /\ returnTeam = [p \in Peers |-> "None"] /\ botTimer = [b \in Bots |-> 0]
      /\ earlyRespawns = {}
  BY DEF Init
<1>3. initial \subseteq Bots
  BY SessionsAssumption DEF Bots
<1> HIDE DEF initial
<1>4. ASSUME NEW b \in initial
      PROVE  roster[b] \in Entry /\ roster[b].isBot
  <2>1. team[b] \in Team
    BY <1>1, <1>4 DEF Team
  <2> QED
    BY <1>1, <1>4, <2>1 DEF Entry
<1>5. EntriesOK(roster)
  BY <1>1, <1>3, <1>4 DEF EntriesOK, Actors
<1>6. SessionsOK(sessions) /\ BindingsOK(bindings) /\ LeftOK(sessions, bindings, returnTeam, expired)
  BY <1>2 DEF SessionsOK, BindingsOK, LeftOK
<1>7. BodiesOK(players, sessions) /\ SeatsOK(sessions, players, roster)
  BY <1>1, <1>2, <1>3, IdsApart, Zeros DEF BodiesOK, SeatsOK, Actors
<1>8. ClocksOK
  BY <1>2, Zeros DEF ClocksOK
<1> QED
  BY <1>5, <1>6, <1>7, <1>8 DEF SessionsInv, WorldOK

LEMMA ClientActsInv ==
  ASSUME SessionsInv, AClientActs
  PROVE  SessionsInv'
<1>1. PICK p \in DOMAIN sessions :
        \/ RefreshClient(p) \/ HearClient(p) \/ DisconnectClient(p)
        \/ \E t \in Team : RequestTeam(p, t)
        \/ \E q \in DOMAIN sessions : \/ FollowTarget(p, q)
                                      \/ \E a \in DOMAIN roster : SwitchControl(p, q, a)
  BY DEF AClientActs
<1>2. CASE RefreshClient(p) \/ HearClient(p)
  BY <1>2, RefreshInv
<1>3. CASE DisconnectClient(p)
  BY <1>3, LeaveInv DEF DisconnectClient
<1>4. CASE \E t \in Team : RequestTeam(p, t)
  BY <1>4, TeamChangeInv DEF RequestTeam
<1>5. CASE \E q \in DOMAIN sessions : \/ FollowTarget(p, q)
                                      \/ \E a \in DOMAIN roster : SwitchControl(p, q, a)
  BY <1>5, FollowTargetInv, SwitchControlInv
<1> QED
  BY <1>1, <1>2, <1>3, <1>4, <1>5

LEMMA HostAdministersInv ==
  ASSUME SessionsInv, TheHostAdministers
  PROVE  SessionsInv'
<1>1. CASE \E p \in DOMAIN sessions : KickSession(p)
  BY <1>1, LeaveInv DEF KickSession
<1>2. CASE \E p \in DOMAIN sessions, t \in Team : AdminTeamOfSession(p, t)
  BY <1>2, TeamChangeInv DEF AdminTeamOfSession
<1>3. CASE \E b \in RosterBots : KickBot(b) \/ \E t \in Playable : AdminTeamOfBot(b, t)
  BY <1>3, KickBotInv, AdminTeamOfBotInv
<1>4. CASE SpawnFrozenBotAhead \/ \E t \in Team : AddBot(t)
  <2>1. PICK t \in Playable : SpawnBot(t)
    BY <1>4 DEF SpawnFrozenBotAhead, AddBot, BalancedTeam, Playable
  <2> QED
    BY <2>1, SpawnBotInv
<1> QED
  BY <1>1, <1>2, <1>3, <1>4 DEF TheHostAdministers

LEMMA NextInv ==
  ASSUME SessionsInv, [Next]_vars
  PROVE  SessionsInv'
<1>1. CASE AClientIsAccepted
  BY <1>1, AcceptInv DEF AClientIsAccepted
<1>2. CASE ATick
  BY <1>2, TickInv DEF ATick
<1>3. CASE UNCHANGED vars
  BY <1>3 DEF vars, SessionsInv, WorldOK, SessionsOK, EntriesOK, BodiesOK, SeatsOK, BindingsOK,
              LeftOK, ClocksOK
<1> QED
  BY <1>1, <1>2, <1>3, ClientActsInv, HostAdministersInv DEF Next

(***************************************************************************)
(* The theorems.                                                           *)
(***************************************************************************)
\* Sessions, bodies, roster, control state and timers agree after every handler and tick
\* (ServerRuntime, ServerGateway, WorldState).
THEOREM SessionsInvariant == Spec => []SessionsInv
<1>1. Init => SessionsInv
  BY InitInv
<1>2. SessionsInv /\ [Next]_vars => SessionsInv'
  BY NextInv
<1> QED
  BY <1>1, <1>2, PTL DEF Spec

\* The roster lists exactly the connected clients and the bots, every bot has its body, and no
\* body is left to a client that is gone or on no team (removePlayer, applyTeamChangeRequest).
THEOREM RosterMatches == Spec => []RosterMatchesSessions
<1>1. SessionsInv => RosterMatchesSessions
  BY IdsApart DEF SessionsInv, WorldOK, EntriesOK, BodiesOK, SeatsOK, RosterMatchesSessions,
                  RosterBots, Actors
<1> QED
  BY <1>1, SessionsInvariant, PTL

\* No client ever steers the body of another human (control_actor_id).
THEOREM NoHumanSteered == Spec => []NoRemoteHumanControlled
<1>1. SessionsInv => NoRemoteHumanControlled
  BY DEF SessionsInv, WorldOK, BindingsOK, NoRemoteHumanControlled
<1> QED
  BY <1>1, SessionsInvariant, PTL

\* Control state and return team belong to a connected client (disconnectClient, kick).
THEOREM NothingLeft == Spec => []NothingOutlivesSession
<1>1. SessionsInv => NothingOutlivesSession
  BY DEF SessionsInv, LeftOK, NothingOutlivesSession
<1> QED
  BY <1>1, SessionsInvariant, PTL

\* A human lies dead for exactly the delay (advanceSessionRespawns).
THEOREM DownForDelay == Spec => []HumansDownForDelay
<1>1. ASSUME SessionsInv
      PROVE  HumansDownForDelay
  <2>1. ASSUME NEW p \in DOMAIN players \cap Peers
        PROVE  players[p].down < RespawnTicks
    <3>1. players[p].down = sessions[p].timer /\ sessions[p].timer \in 0 .. (RespawnTicks - 1)
      BY <1>1 DEF SessionsInv, WorldOK, BodiesOK, SessionsOK, Session
    <3> QED
      BY <3>1, SessionsAssumption
  <2> QED
    BY <1>1, <2>1 DEF SessionsInv, ClocksOK, HumansDownForDelay
<1> QED
  BY <1>1, SessionsInvariant, PTL

\* After a tick the roster shows every client in control of its own body on the team it has
\* chosen (applySessionRosterState).
THEOREM TicksSettleTeams == Spec => TickSettlesTeams
<1> DEFINE Unsettled == \E p \in DOMAIN sessions' \cap DOMAIN players' :
                          /\ ControlOf(sessions', bindings', p) = p
                          /\ roster'[p].team # sessions'[p].team
<1>1. SessionsInv /\ [Next]_vars => [Unsettled => ~ATick]_vars
  BY TickSettles DEF ATick
<1> QED
  BY <1>1, SessionsInvariant, PTL DEF Spec, TickSettlesTeams
=============================================================================
