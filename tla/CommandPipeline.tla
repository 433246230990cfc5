--------------------------- MODULE CommandPipeline ---------------------------
(***************************************************************************)
(* The path of one player's commands: the client numbers, records and      *)
(* sends them, an unreliable network carries them, the server queues them  *)
(* and applies them at its tick, and snapshots bring the acknowledgement   *)
(* and the authoritative state back to the client's prediction buffer.     *)
(*                                                                         *)
(* The session is accepted and stays; sessions that come and go are in     *)
(* ServerSessions.  The server is single-threaded: a tick is one round of  *)
(* BeginTick, ApplyCommand*, EndTick, and packets are handled between      *)
(* ticks only (phase = "idle").  The client is another process, and the    *)
(* network moves at any time.                                              *)
(*                                                                         *)
(* The state of a player is abstracted to the commands that produced it:   *)
(* the life it belongs to and the sequence numbers applied in that life.   *)
(***************************************************************************)
EXTENDS Integers, Sequences, FiniteSets

CONSTANTS
  HalfSpace,          \* 2^31: sequence numbers are unsigned, modulo 2 * HalfSpace
  RespawnTicks,       \* ticks from a death to the respawn
  MaxSeq,             \* bound: commands the client sends
  MaxKills,           \* bound: times other sessions kill the player
  MaxTeamDeliveries,  \* bound: team change requests that reach the server
  MaxSnapshots,       \* bound: snapshots published, fewer than half the sequence
                      \* space, which the code's rates take years to use up
  MaxRefreshes,       \* bound: repeated Hellos the server answers
  RepeatedSnapshots   \* bound: up to this number, snapshots are also published
                      \* when nothing changed since the previous one

ASSUME PipelineAssumption ==
  /\ HalfSpace \in Nat \ {0}
  /\ RespawnTicks \in Nat \ {0}
  /\ MaxSeq \in Nat \ {0}
  /\ MaxSeq < HalfSpace
  /\ MaxKills \in Nat
  /\ MaxTeamDeliveries \in Nat
  /\ MaxSnapshots \in Nat
  /\ MaxSnapshots < HalfSpace
  /\ MaxRefreshes \in Nat
  /\ RepeatedSnapshots \in Nat

VARIABLES
  \* the client
  commandSeq,          \* number of the last command built
  predicted,           \* PredictionBuffer::pendingCommands_, pushed in order
  base,                \* the state of the last snapshot, which predicted replays on
  lastAcked,           \* acknowledgement of the last snapshot applied
  hasSnapshot,
  lastSnapshotSeq,
  respawnPending,      \* the last snapshot applied showed the player dead
  localTeam,           \* the team the last snapshot showed
  pendingTeamRequest,  \* a team request rides on the next command
  \* the network: everything ever sent, so that a message may be lost
  \* (never delivered), duplicated and overtaken
  bundles,
  teamRequests,
  snapshots,
  \* the server's session and the player it owns
  phase,               \* where the tick is: "idle" between ticks
  team,
  alive,
  respawnTimer,
  life,                \* how often the player has been spawned
  applied,             \* the commands applied in this life
  pending,             \* ClientSession::pendingCommands, ordered by number
  lastApplied,         \* lastAppliedInputSeq = lastAckedInputSeq
  snapshotSeq,
  \* history and bounds
  executed,            \* every command ever applied, in order
  arrivedIn,           \* the life in which a command last entered pending
  published,           \* content of the last published snapshot
  kills,
  teamDeliveries,
  refreshes

clientVars == <<commandSeq, predicted, base, lastAcked, hasSnapshot,
                lastSnapshotSeq, respawnPending, localTeam, pendingTeamRequest>>
netVars    == <<bundles, teamRequests, snapshots>>
playerVars == <<team, alive, respawnTimer, life, applied>>
queueVars  == <<pending, lastApplied, arrivedIn, executed>>
boundVars  == <<published, kills, teamDeliveries, refreshes>>
vars == <<clientVars, netVars, phase, playerVars, queueVars, snapshotSeq, boundVars>>

Playable == {"Attacker", "Defender"}
Team     == Playable \cup {"Spectator"}
SeqNo    == 0 .. (2 * HalfSpace - 1)
Cmd      == 1 .. MaxSeq

\* Unsigned subtraction and increment modulo 2 * HalfSpace.
SeqDistance(c, r) == IF c >= r THEN c - r ELSE c - r + 2 * HalfSpace
NextSeq(s)        == IF s + 1 = 2 * HalfSpace THEN 0 ELSE s + 1

\* Mutant of IsNewer: duplicates are dropped but order is not looked at.
MutIsDifferent(c, r) == c # r

IsNewer(c, r) == c # r /\ SeqDistance(c, r) < HalfSpace

-----------------------------------------------------------------------------
(* Snapshots.  A spectator owns no player, and its snapshots carry a        *)
(* default-constructed, hence living, one.                                  *)

\* Mutants of AckedInput: the newest number queued, and an acknowledgement
\* that is reset with the player.
MutAckOnReceipt ==
  IF pending = {} THEN lastApplied
                  ELSE CHOOSE s \in pending : \A t \in pending : t <= s
MutAckOfThisLife == IF applied = <<>> THEN 0 ELSE lastApplied

AckedInput == lastApplied

Content(isAlive, in, inputs, onTeam, ack) ==
  [alive |-> isAlive, ack |-> ack, team |-> onTeam,
   state |-> IF onTeam \in Playable THEN [life |-> in, inputs |-> inputs]
                                    ELSE [life |-> 0, inputs |-> <<>>]]

SnapshotOf(seq, content) == [seq |-> seq, body |-> content]

FirstContent == Content(TRUE, 1, <<>>, "Attacker", 0)

-----------------------------------------------------------------------------
Init ==
  /\ commandSeq = 0
  /\ predicted = {}
  /\ base = [life |-> 0, inputs |-> <<>>]
  /\ lastAcked = 0
  /\ hasSnapshot = FALSE
  /\ lastSnapshotSeq = 0
  /\ respawnPending = FALSE
  /\ localTeam = "None"
  /\ pendingTeamRequest = FALSE
  /\ bundles = {}
  /\ teamRequests = {}
  /\ snapshots = {SnapshotOf(0, FirstContent)}
  /\ phase = "idle"
  /\ team = "Attacker"
  /\ alive = TRUE
  /\ respawnTimer = 0
  /\ life = 1
  /\ applied = <<>>
  /\ pending = {}
  /\ lastApplied = 0
  /\ snapshotSeq = 0
  /\ executed = <<>>
  /\ arrivedIn = [s \in Cmd |-> 0]
  /\ published = FirstContent
  /\ kills = 0
  /\ teamDeliveries = 0
  /\ refreshes = 0

-----------------------------------------------------------------------------
(* The client. *)

\* A command that carries a team request is refused by the server.
Send ==
  /\ commandSeq < MaxSeq
  /\ commandSeq' = commandSeq + 1
  /\ bundles' = bundles \cup {[seq |-> commandSeq', clean |-> ~pendingTeamRequest]}
  /\ pendingTeamRequest' = FALSE
  /\ UNCHANGED <<base, lastAcked, hasSnapshot, lastSnapshotSeq, respawnPending,
                 localTeam, teamRequests, snapshots, phase, playerVars,
                 queueVars, snapshotSeq, boundVars>>

\* A frame with input: the command is predicted, then sent.
SendInput ==
  /\ ~respawnPending
  /\ localTeam # "Spectator"
  /\ Send
  /\ predicted' = predicted \cup {commandSeq'}

\* A keepalive, or a frame while the user has switched prediction off: the
\* number is used up and the command is sent, but not recorded.
SendUnpredicted ==
  /\ Send
  /\ predicted' = predicted

RequestTeam(t) ==
  /\ t # localTeam
  /\ teamDeliveries < MaxTeamDeliveries
  /\ teamRequests' = teamRequests \cup {t}
  /\ pendingTeamRequest' = TRUE
  /\ UNCHANGED <<commandSeq, predicted, base, lastAcked, hasSnapshot,
                 lastSnapshotSeq, respawnPending, localTeam, bundles, snapshots,
                 phase, playerVars, queueVars, snapshotSeq, boundVars>>

\* Mutant of Reconciled: the acknowledged command itself stays.
MutReconciledBefore(ack) == {s \in predicted : ~(s < ack)}

\* PredictionBuffer::reconcile compares the raw numbers, not IsNewer.
Reconciled(ack) == {s \in predicted : ~(s <= ack)}

\* updateLocalDeathState resets the buffer while the player is dead and once
\* more when it is seen alive again.
ApplySnapshot(s) ==
  /\ lastSnapshotSeq' = s.seq
  /\ hasSnapshot' = TRUE
  /\ lastAcked' = s.body.ack
  /\ base' = s.body.state
  /\ localTeam' = s.body.team
  /\ respawnPending' = ~s.body.alive
  /\ predicted' = IF ~s.body.alive \/ respawnPending THEN {}
                  ELSE Reconciled(s.body.ack)
  /\ UNCHANGED <<commandSeq, pendingTeamRequest, netVars, phase, playerVars,
                 queueVars, snapshotSeq, boundVars>>

SnapshotAccepted(s) == ~hasSnapshot \/ IsNewer(s.seq, lastSnapshotSeq)

ReceiveSnapshot(s) ==
  /\ SnapshotAccepted(s)
  /\ ApplySnapshot(s)

-----------------------------------------------------------------------------
(* The server, between ticks. *)

ShouldAcceptGameplayCommand(b) ==
  /\ team \in Playable
  /\ b.seq # 0
  /\ b.seq \notin pending
  /\ IsNewer(b.seq, lastApplied)
  /\ b.clean

EnqueueCommandBundle(b) ==
  /\ phase = "idle"
  /\ ShouldAcceptGameplayCommand(b)
  /\ pending' = pending \cup {b.seq}
  /\ arrivedIn' = [arrivedIn EXCEPT ![b.seq] = life]
  /\ UNCHANGED <<clientVars, netVars, phase, playerVars, lastApplied, executed,
                 snapshotSeq, boundVars>>

\* Mutant of RespawnedQueue: the reset of the queue is missing.
MutQueueKept == pending

\* respawnSessionPlayer drops what the previous life left in the queue.
RespawnedQueue == {}

HandleTeamChangeRequest(t) ==
  /\ phase = "idle"
  /\ teamDeliveries < MaxTeamDeliveries
  /\ t # team
  /\ team' = t
  /\ teamDeliveries' = teamDeliveries + 1
  /\ \/ /\ t \in Playable
        /\ alive' = TRUE
        /\ respawnTimer' = 0
        /\ life' = life + 1
        /\ applied' = <<>>
        /\ pending' = RespawnedQueue
     \/ /\ t = "Spectator"
        /\ pending' = {}
        /\ alive' = TRUE
        /\ UNCHANGED <<respawnTimer, life, applied>>
  /\ UNCHANGED <<clientVars, netVars, phase, lastApplied, arrivedIn, executed,
                 snapshotSeq, published, kills, refreshes>>

\* A repeated Hello is answered with a snapshot of the present state under
\* the number of the last published one.
RefreshHello ==
  /\ phase = "idle"
  /\ refreshes < MaxRefreshes
  /\ refreshes' = refreshes + 1
  /\ snapshots' = snapshots \cup
       {SnapshotOf(snapshotSeq, Content(alive, life, applied, team, AckedInput))}
  /\ UNCHANGED <<clientVars, bundles, teamRequests, phase, playerVars, queueVars,
                 snapshotSeq, published, kills, teamDeliveries>>

-----------------------------------------------------------------------------
(* The server's tick. *)

\* Sessions earlier in the gateway's vector shoot first, then this session's
\* turn starts: a dead player's queue is dropped.
BeginTick(shot) ==
  /\ phase = "idle"
  /\ shot => team \in Playable /\ alive /\ kills < MaxKills
  /\ phase' = "commands"
  /\ kills' = IF shot THEN kills + 1 ELSE kills
  /\ alive' = (alive /\ ~shot)
  /\ pending' = IF team \in Playable /\ ~alive' THEN {} ELSE pending
  /\ UNCHANGED <<clientVars, netVars, team, respawnTimer, life, applied,
                 lastApplied, arrivedIn, executed, snapshotSeq, published,
                 teamDeliveries, refreshes>>

\* std::map keeps the queue sorted by the raw number.
First(s) == s \in pending /\ \A t \in pending : s <= t

\* One turn of the loop over pendingCommands.
ApplyCommand ==
  /\ phase = "commands"
  /\ team \in Playable
  /\ \E s \in pending :
       /\ First(s)
       /\ pending' = pending \ {s}
       /\ IF IsNewer(s, lastApplied)
            THEN /\ applied' = Append(applied, s)
                 /\ executed' = Append(executed, s)
                 /\ lastApplied' = s
            ELSE UNCHANGED <<applied, executed, lastApplied>>
  /\ UNCHANGED <<clientVars, netVars, phase, team, alive, respawnTimer, life,
                 arrivedIn, snapshotSeq, boundVars>>

\* Mutant of RespawnDue: off by one.
MutRespawnLate(timer) == timer > RespawnTicks

RespawnDue(timer) == timer >= RespawnTicks

\* Sessions later in the vector and the bots shoot, respawns advance, and the
\* tick may publish a snapshot, as the accumulator decides.
EndTick(shot, publish) ==
  /\ phase = "commands"
  /\ pending = {}
  /\ shot => team \in Playable /\ alive /\ kills < MaxKills
  /\ phase' = "idle"
  /\ kills' = IF shot THEN kills + 1 ELSE kills
  /\ LET dead    == team \in Playable /\ ~(alive /\ ~shot)
         timer   == IF dead THEN respawnTimer + 1 ELSE 0
         respawn == dead /\ RespawnDue(timer)
     IN  /\ alive' = (~dead \/ respawn)
         /\ respawnTimer' = IF respawn THEN 0 ELSE timer
         /\ life' = IF respawn THEN life + 1 ELSE life
         /\ applied' = IF respawn THEN <<>> ELSE applied
  /\ LET content == Content(alive', life', applied', team, AckedInput) IN
       IF publish
         THEN /\ snapshotSeq < MaxSnapshots
              /\ snapshotSeq < RepeatedSnapshots \/ content # published
              /\ snapshotSeq' = NextSeq(snapshotSeq)
              /\ snapshots' = snapshots \cup {SnapshotOf(snapshotSeq', content)}
              /\ published' = content
         ELSE UNCHANGED <<snapshotSeq, snapshots, published>>
  /\ UNCHANGED <<clientVars, bundles, teamRequests, team, pending, lastApplied,
                 arrivedIn, executed, teamDeliveries, refreshes>>

-----------------------------------------------------------------------------
Next ==
  \/ SendInput
  \/ SendUnpredicted
  \/ \E t \in Team : RequestTeam(t)
  \/ \E s \in snapshots : ReceiveSnapshot(s)
  \/ \E b \in bundles : EnqueueCommandBundle(b)
  \/ \E t \in teamRequests : HandleTeamChangeRequest(t)
  \/ RefreshHello
  \/ \E shot \in BOOLEAN : BeginTick(shot)
  \/ ApplyCommand
  \/ \E shot, publish \in BOOLEAN : EndTick(shot, publish)

Spec == Init /\ [][Next]_vars

(***************************************************************************)
(* Fairness.  The server ticks on a timer and its accumulator publishes    *)
(* every few ticks, so a tick that may publish something new sometimes     *)
(* does.  A client sends keepalives when it has no input.  A command sent  *)
(* over and over stands for the stream of later commands a real client     *)
(* sends: it is only the last one, under the bound MaxSeq, that must not   *)
(* be lost for ever.  The newest snapshot is delivered eventually.         *)
(***************************************************************************)
LiveSpec ==
  /\ Spec
  /\ WF_vars(SendInput \/ SendUnpredicted)
  /\ WF_vars(BeginTick(FALSE))
  /\ WF_vars(ApplyCommand)
  /\ WF_vars(EndTick(FALSE, FALSE))
  /\ SF_vars(EndTick(FALSE, TRUE))
  /\ SF_vars(\E b \in bundles : b.seq = MaxSeq /\ EnqueueCommandBundle(b))
  /\ WF_vars(\E s \in snapshots : s.seq = snapshotSeq /\ ReceiveSnapshot(s))

-----------------------------------------------------------------------------
(* Properties. *)

PlayerView == [life : Nat, inputs : Seq(Cmd)]
Bundle     == [seq : Cmd, clean : BOOLEAN]
Body       == [alive : BOOLEAN, ack : 0 .. MaxSeq, team : Team, state : PlayerView]
Snapshot   == [seq : SeqNo, body : Body]

ClientTypeOK ==
  /\ commandSeq \in 0 .. MaxSeq
  /\ predicted \in SUBSET Cmd
  /\ base \in PlayerView
  /\ lastAcked \in 0 .. MaxSeq
  /\ hasSnapshot \in BOOLEAN
  /\ lastSnapshotSeq \in SeqNo
  /\ respawnPending \in BOOLEAN
  /\ localTeam \in Team \cup {"None"}
  /\ pendingTeamRequest \in BOOLEAN

NetTypeOK ==
  /\ bundles \in SUBSET Bundle
  /\ teamRequests \in SUBSET Team
  /\ snapshots \in SUBSET Snapshot

PlayerTypeOK ==
  /\ team \in Team
  /\ alive \in BOOLEAN
  /\ respawnTimer \in 0 .. (RespawnTicks - 1)
  /\ life \in Nat
  /\ applied \in Seq(Cmd)

QueueTypeOK ==
  /\ pending \in SUBSET Cmd
  /\ lastApplied \in 0 .. MaxSeq
  /\ arrivedIn \in [Cmd -> Nat]
  /\ executed \in Seq(Cmd)

CounterTypeOK ==
  /\ phase \in {"idle", "commands"}
  /\ snapshotSeq \in SeqNo
  /\ kills \in 0 .. MaxKills
  /\ teamDeliveries \in 0 .. MaxTeamDeliveries
  /\ refreshes \in 0 .. MaxRefreshes

\* The type invariant of the client, the network, the session and its player.
TypeOK == ClientTypeOK /\ NetTypeOK /\ PlayerTypeOK /\ QueueTypeOK /\ CounterTypeOK

\* However the network duplicates, delays and reorders bundles, and however
\* deaths, team changes and ticks fall between them, the simulation applies a
\* command at most once and never after a later one (shouldAcceptGameplayCommand
\* and the loop of applyQueuedCommands).
ExecutedInOrderOnce ==
  \A i, j \in DOMAIN executed : i < j => executed[i] < executed[j]

\* The client never believes a command applied that the server has not
\* applied, so reconcile never forgets a command whose effect is still to come
\* (ClientSession::lastAckedInputSeq through buildSnapshotPacket to reconcile).
AckNeverAhead == lastAcked <= lastApplied

\* The predicted state replays the buffer on the last authoritative state: no
\* command contributes twice to it, and none out of order, although snapshots
\* overtake each other and the player dies, respawns and changes team
\* (PredictionBuffer::reconcile with ClientSyncRuntime::applySnapshot).
NoDoubleReplay ==
  \A i \in DOMAIN base.inputs, s \in predicted : base.inputs[i] < s

\* Commands queued for one life of the player are never applied in the next
\* one: death, respawn and team change each drop the queue in time.
AppliedInLifeOfArrival ==
  \A i \in DOMAIN applied : arrivedIn[applied[i]] = life

\* Once the client has stopped and its last command is a plain one, the
\* prediction dissolves into the authoritative state: the buffer empties and the
\* state it was replayed on is the server's.  A player who stays a spectator is
\* excepted, since nothing of it is applied.
PredictionConverges ==
  (/\ <>[](team \in Playable)
   /\ <>([seq |-> MaxSeq, clean |-> TRUE] \in bundles))
  => <>[](/\ predicted = {}
          /\ lastAcked = MaxSeq
          /\ base = [life |-> life, inputs |-> applied])

\* The pipeline implements the promise of OrderedInput.
Ordered == INSTANCE OrderedInput
             WITH issued <- commandSeq, done <- executed, learned <- lastAcked

ImplementsOrderedInput == Ordered!Spec

-----------------------------------------------------------------------------
(* The inductive invariant behind the properties, by the state it is about. *)

\* The queue and the history lie between the newest command applied and the
\* newest command sent.
QueueInv ==
  /\ executed = <<>> => lastApplied = 0
  /\ executed # <<>> => executed[Len(executed)] = lastApplied
  /\ \A i \in DOMAIN executed : executed[i] <= lastApplied
  /\ ExecutedInOrderOnce
  /\ lastApplied <= commandSeq
  /\ \A b \in bundles : b.seq <= commandSeq
  /\ \A s \in pending : s <= commandSeq

\* The queue belongs to the present life, and so does what was applied from it.
LifeInv ==
  /\ \A i \in DOMAIN applied : applied[i] <= lastApplied
  /\ AppliedInLifeOfArrival
  /\ \A s \in pending : arrivedIn[s] = life

\* Every snapshot ever sent acknowledges no more than was applied and shows
\* no more than it acknowledges; a newer one acknowledges no less.
SnapshotInv ==
  /\ snapshotSeq <= MaxSnapshots
  /\ \A x \in snapshots :
       /\ x.seq <= snapshotSeq
       /\ x.body.ack <= lastApplied
       /\ \A i \in DOMAIN x.body.state.inputs : x.body.state.inputs[i] <= x.body.ack
  /\ \A x, y \in snapshots : x.seq < y.seq => x.body.ack <= y.body.ack

\* The client's view is that of a snapshot, and its buffer starts after it.
ClientInv ==
  /\ AckNeverAhead
  /\ ~hasSnapshot => lastAcked = 0
  /\ lastSnapshotSeq <= snapshotSeq
  /\ \A i \in DOMAIN base.inputs : base.inputs[i] <= lastAcked
  /\ \A s \in predicted : lastAcked < s
  /\ \A x \in snapshots : lastSnapshotSeq < x.seq => lastAcked <= x.body.ack

PipelineInv == TypeOK /\ QueueInv /\ LifeInv /\ SnapshotInv /\ ClientInv
=============================================================================
