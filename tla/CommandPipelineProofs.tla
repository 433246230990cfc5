----------------------- MODULE CommandPipelineProofs -----------------------
(***************************************************************************)
(* Proofs about CommandPipeline.  PipelineInv is inductive: it holds       *)
(* initially and every action of Next preserves each of its five parts.    *)
(* None of the parts is inductive alone; each lemma below assumes the      *)
(* whole invariant before the step.                                        *)
(***************************************************************************)
EXTENDS CommandPipeline, TLAPS

(***************************************************************************)
(* Within half of the sequence space the modular comparison is the order   *)
(* of the numbers (isNewerSequence as long as nothing wraps).              *)
(***************************************************************************)
LEMMA NewerIsGreater ==
  ASSUME NEW c \in 0 .. (HalfSpace - 1), NEW r \in 0 .. (HalfSpace - 1)
  PROVE  IsNewer(c, r) <=> c > r
BY PipelineAssumption DEF IsNewer, SeqDistance

(***************************************************************************)
(* Appending a number to a sequence of numbers adds it at the end.         *)
(***************************************************************************)
LEMMA AppendAtEnd ==
  ASSUME NEW q \in Seq(Cmd), NEW s \in Cmd
  PROVE  /\ Append(q, s) \in Seq(Cmd)
         /\ Append(q, s) # <<>>
         /\ DOMAIN Append(q, s) = 1 .. (Len(q) + 1)
         /\ Len(Append(q, s)) = Len(q) + 1
         /\ Append(q, s)[Len(q) + 1] = s
         /\ \A i \in DOMAIN q : Append(q, s)[i] = q[i] /\ q[i] \in Nat
         /\ DOMAIN q = 1 .. Len(q)
         /\ Len(q) \in Nat
<1>1. \A i \in DOMAIN q : q[i] \in Cmd
  OBVIOUS
<1>2. \A c \in Cmd : c \in Nat
  BY DEF Cmd
<1>3. QED
  BY <1>1, <1>2

(***************************************************************************)
(* The invariant holds of an accepted session with an idle client.         *)
(***************************************************************************)
LEMMA InitInv == Init => PipelineInv
<1> SUFFICES ASSUME Init PROVE PipelineInv
  OBVIOUS
<1> USE PipelineAssumption
<1>1. TypeOK
  <2>1. ClientTypeOK
    <3>1. base \in PlayerView
      BY DEF Init, PlayerView
    <3>2. lastSnapshotSeq \in SeqNo
      BY DEF Init, SeqNo
    <3>3. 0 \in 0 .. MaxSeq
      OBVIOUS
    <3>4. /\ hasSnapshot \in BOOLEAN
          /\ respawnPending \in BOOLEAN
          /\ pendingTeamRequest \in BOOLEAN
      BY Zenon DEF Init
    <3>5. QED
      BY <3>1, <3>2, <3>3, <3>4 DEF Init, ClientTypeOK
  <2>2. NetTypeOK
    BY DEF Init, NetTypeOK, FirstContent, Content, SnapshotOf, Snapshot, Body,
           PlayerView, SeqNo, Team, Playable
  <2>3. PlayerTypeOK /\ QueueTypeOK /\ CounterTypeOK
    BY DEF Init, PlayerTypeOK, QueueTypeOK, CounterTypeOK, SeqNo, Team, Playable
  <2>4. QED
    BY <2>1, <2>2, <2>3 DEF TypeOK
<1>2. QueueInv
  BY DEF Init, QueueInv, ExecutedInOrderOnce
<1>3. LifeInv
  BY DEF Init, LifeInv, AppliedInLifeOfArrival
<1>4. SnapshotInv
  BY DEF Init, SnapshotInv, FirstContent, Content, SnapshotOf, Playable
<1>5. ClientInv
  BY DEF Init, ClientInv, AckNeverAhead, FirstContent, Content, SnapshotOf
<1>6. QED
  BY <1>1, <1>2, <1>3, <1>4, <1>5 DEF PipelineInv

-----------------------------------------------------------------------------
(* One lemma per action of Next. *)

(***************************************************************************)
(* Sending a command, predicted or not, takes a number above everything    *)
(* known to the client and to the server.                                  *)
(***************************************************************************)
LEMMA SendPreserves ==
  ASSUME PipelineInv, SendInput \/ SendUnpredicted
  PROVE  PipelineInv'
<1> USE PipelineAssumption DEF PipelineInv, TypeOK
<1>1. /\ predicted' \in {predicted, predicted \cup {commandSeq'}}
      /\ Send
  BY DEF SendInput, SendUnpredicted
<1> DEFINE sent == [seq |-> commandSeq', clean |-> ~pendingTeamRequest]
<1>2. commandSeq' = commandSeq + 1 /\ commandSeq \in Nat /\ commandSeq' \in Cmd
  BY <1>1 DEF Send, ClientTypeOK, Cmd
<1>3. (~pendingTeamRequest) \in BOOLEAN
  BY Zenon
<1>4. sent \in Bundle /\ sent.seq = commandSeq'
  BY <1>2, <1>3, Zenon DEF Bundle
<1>5. /\ commandSeq' = commandSeq + 1
      /\ commandSeq' \in Cmd
      /\ commandSeq \in Nat
      /\ \A b \in bundles' : b \in bundles \/ (b \in Bundle /\ b.seq = commandSeq')
      /\ UNCHANGED <<base, lastAcked, hasSnapshot, lastSnapshotSeq, respawnPending,
                     localTeam, teamRequests, snapshots, phase, playerVars,
                     queueVars, snapshotSeq, boundVars>>
      /\ pendingTeamRequest' = FALSE
  <2>1. bundles' = bundles \cup {sent}
    BY <1>1 DEF Send
  <2> HIDE DEF sent
  <2>2. QED
    BY <1>2, <1>1, <1>4, <2>1 DEF Send
<1>6. TypeOK'
  <2>1. ClientTypeOK'
    <3>1. commandSeq' \in 0 .. MaxSeq /\ predicted' \in SUBSET Cmd
      BY <1>1, <1>5 DEF ClientTypeOK, Cmd
    <3>2. QED
      BY <1>5, <3>1 DEF ClientTypeOK
  <2>2. NetTypeOK'
    BY <1>5 DEF NetTypeOK
  <2>3. PlayerTypeOK' /\ QueueTypeOK' /\ CounterTypeOK'
    BY <1>5 DEF PlayerTypeOK, QueueTypeOK, CounterTypeOK, playerVars, queueVars, boundVars
  <2>4. QED
    BY <2>1, <2>2, <2>3
<1>7. QueueInv'
  <2>1. \A b \in bundles' : b.seq <= commandSeq'
    BY <1>5 DEF QueueInv, NetTypeOK, Bundle, Cmd
  <2>2. \A s \in pending' : s <= commandSeq'
    BY <1>5 DEF QueueInv, QueueTypeOK, Cmd, queueVars
  <2>3. lastApplied' <= commandSeq'
    BY <1>5 DEF QueueInv, QueueTypeOK, queueVars
  <2>4. QED
    BY <1>5, <2>1, <2>2, <2>3 DEF QueueInv, ExecutedInOrderOnce, queueVars
<1>8. LifeInv'
  BY <1>5 DEF LifeInv, AppliedInLifeOfArrival, playerVars, queueVars
<1>9. SnapshotInv'
  BY <1>5 DEF SnapshotInv, queueVars
<1>10. ClientInv'
  <2>1. lastAcked < commandSeq'
    BY <1>5 DEF ClientTypeOK, QueueTypeOK, QueueInv, ClientInv, AckNeverAhead
  <2>2. \A s \in predicted' : lastAcked' < s
    BY <1>1, <1>5, <2>1 DEF ClientInv
  <2>3. QED
    BY <1>5, <2>2 DEF ClientInv, AckNeverAhead, queueVars
<1>11. QED
  BY <1>6, <1>7, <1>8, <1>9, <1>10

(***************************************************************************)
(* Asking for a team changes neither the queue nor the prediction.         *)
(***************************************************************************)
LEMMA RequestTeamPreserves ==
  ASSUME PipelineInv, NEW t \in Team, RequestTeam(t)
  PROVE  PipelineInv'
<1> USE DEF PipelineInv, TypeOK
<1>1. /\ teamRequests' = teamRequests \cup {t}
      /\ pendingTeamRequest' = TRUE
      /\ UNCHANGED <<commandSeq, predicted, base, lastAcked, hasSnapshot,
                     lastSnapshotSeq, respawnPending, localTeam, bundles,
                     snapshots, phase, playerVars, queueVars, snapshotSeq, boundVars>>
  BY DEF RequestTeam
<1>2. TypeOK'
  BY <1>1 DEF ClientTypeOK, NetTypeOK, PlayerTypeOK, QueueTypeOK, CounterTypeOK,
              playerVars, queueVars, boundVars
<1>3. QueueInv' /\ LifeInv'
  BY <1>1 DEF QueueInv, ExecutedInOrderOnce, LifeInv, AppliedInLifeOfArrival,
              playerVars, queueVars
<1>4. SnapshotInv' /\ ClientInv'
  BY <1>1 DEF SnapshotInv, ClientInv, AckNeverAhead, queueVars
<1>5. QED
  BY <1>2, <1>3, <1>4

(***************************************************************************)
(* Applying a snapshot moves the client to the acknowledgement it carries  *)
(* and leaves only newer commands in the buffer.                           *)
(***************************************************************************)
LEMMA ReceiveSnapshotPreserves ==
  ASSUME PipelineInv, NEW s \in snapshots, ReceiveSnapshot(s)
  PROVE  PipelineInv'
<1> USE PipelineAssumption DEF PipelineInv, TypeOK
<1>1. /\ lastSnapshotSeq' = s.seq
      /\ hasSnapshot' = TRUE
      /\ lastAcked' = s.body.ack
      /\ base' = s.body.state
      /\ localTeam' = s.body.team
      /\ predicted' \in SUBSET {c \in predicted : ~(c <= s.body.ack)}
      /\ UNCHANGED <<commandSeq, pendingTeamRequest, netVars, phase, playerVars,
                     queueVars, snapshotSeq, boundVars>>
  BY DEF ReceiveSnapshot, ApplySnapshot, Reconciled
<1>2. respawnPending' \in BOOLEAN
  BY Zenon DEF ReceiveSnapshot, ApplySnapshot
<1>3. /\ s.seq \in SeqNo
      /\ s.body.ack \in 0 .. MaxSeq
      /\ s.body.state \in PlayerView
      /\ s.body.team \in Team
  BY DEF NetTypeOK, Snapshot, Body
<1>4. TypeOK'
  <2>1. ClientTypeOK'
    BY <1>1, <1>2, <1>3 DEF ClientTypeOK
  <2>2. NetTypeOK' /\ PlayerTypeOK' /\ QueueTypeOK' /\ CounterTypeOK'
    BY <1>1 DEF NetTypeOK, PlayerTypeOK, QueueTypeOK, CounterTypeOK,
                netVars, playerVars, queueVars, boundVars
  <2>3. QED
    BY <2>1, <2>2
<1>5. QueueInv' /\ LifeInv'
  BY <1>1 DEF QueueInv, ExecutedInOrderOnce, LifeInv, AppliedInLifeOfArrival,
              netVars, playerVars, queueVars
<1>6. SnapshotInv'
  BY <1>1 DEF SnapshotInv, netVars, queueVars
<1>7. ClientInv'
  <2>1. \A c \in predicted' : lastAcked' < c
    BY <1>1, <1>3 DEF ClientTypeOK, Cmd
  <2>2. QED
    BY <1>1, <2>1 DEF ClientInv, SnapshotInv, AckNeverAhead, netVars, queueVars
<1>8. QED
  BY <1>4, <1>5, <1>6, <1>7

(***************************************************************************)
(* A command enters the queue only if it is newer than the last one        *)
(* applied, so the life stamped on it is not that of an applied command.   *)
(***************************************************************************)
LEMMA EnqueuePreserves ==
  ASSUME PipelineInv, NEW b \in bundles, EnqueueCommandBundle(b)
  PROVE  PipelineInv'
<1> USE PipelineAssumption DEF PipelineInv, TypeOK
<1>1. /\ IsNewer(b.seq, lastApplied)
      /\ pending' = pending \cup {b.seq}
      /\ arrivedIn' = [arrivedIn EXCEPT ![b.seq] = life]
      /\ UNCHANGED <<clientVars, netVars, phase, playerVars, lastApplied, executed,
                     snapshotSeq, boundVars>>
  BY DEF EnqueueCommandBundle, ShouldAcceptGameplayCommand
<1>2. b.seq \in Cmd /\ b.seq <= commandSeq
  BY DEF NetTypeOK, Bundle, QueueInv
<1>3. b.seq > lastApplied
  <2>1. b.seq \in 0 .. (HalfSpace - 1) /\ lastApplied \in 0 .. (HalfSpace - 1)
    BY <1>2 DEF QueueTypeOK, Cmd
  <2>2. QED
    BY <1>1, <2>1, NewerIsGreater
<1>4. TypeOK'
  <2>1. QueueTypeOK'
    BY <1>1, <1>2 DEF QueueTypeOK, PlayerTypeOK
  <2>2. ClientTypeOK' /\ NetTypeOK' /\ PlayerTypeOK' /\ CounterTypeOK'
    BY <1>1 DEF ClientTypeOK, NetTypeOK, PlayerTypeOK, CounterTypeOK,
                clientVars, netVars, playerVars, boundVars
  <2>3. QED
    BY <2>1, <2>2
<1>5. QueueInv'
  <2>1. UNCHANGED <<commandSeq, bundles, lastApplied, executed>>
    BY <1>1 DEF clientVars, netVars
  <2>2. \A c \in pending' : c <= commandSeq'
    BY <1>1, <1>2, <2>1 DEF QueueInv
  <2>3. QED
    BY <2>1, <2>2 DEF QueueInv, ExecutedInOrderOnce
<1>6. LifeInv'
  <2>1. \A i \in DOMAIN applied : applied[i] \in Cmd /\ applied[i] # b.seq
    BY <1>2, <1>3 DEF LifeInv, PlayerTypeOK, QueueTypeOK, Cmd
  <2>2. \A i \in DOMAIN applied : arrivedIn'[applied[i]] = arrivedIn[applied[i]]
    BY <1>1, <2>1 DEF QueueTypeOK
  <2>3. \A c \in pending' : arrivedIn'[c] = life
    BY <1>1, <1>2 DEF QueueTypeOK, LifeInv
  <2>4. QED
    BY <1>1, <2>2, <2>3 DEF LifeInv, AppliedInLifeOfArrival, playerVars
<1>7. SnapshotInv' /\ ClientInv'
  BY <1>1 DEF SnapshotInv, ClientInv, AckNeverAhead, clientVars, netVars
<1>8. QED
  BY <1>4, <1>5, <1>6, <1>7

(***************************************************************************)
(* A team change starts a new life with an empty queue, or ends the last   *)
(* one and empties the queue too.                                          *)
(***************************************************************************)
LEMMA TeamChangePreserves ==
  ASSUME PipelineInv, NEW t \in teamRequests, HandleTeamChangeRequest(t)
  PROVE  PipelineInv'
<1> USE PipelineAssumption DEF PipelineInv, TypeOK
<1>1. /\ team' = t
      /\ teamDeliveries < MaxTeamDeliveries
      /\ teamDeliveries' = teamDeliveries + 1
      /\ alive' = TRUE
      /\ pending' = {}
      /\ UNCHANGED <<clientVars, netVars, phase, lastApplied, arrivedIn, executed,
                     snapshotSeq, published, kills, refreshes>>
  BY DEF HandleTeamChangeRequest, RespawnedQueue
<1>2. \/ /\ respawnTimer' = 0
         /\ life' = life + 1
         /\ applied' = <<>>
      \/ UNCHANGED <<respawnTimer, life, applied>>
  BY DEF HandleTeamChangeRequest
<1>3. TypeOK'
  <2>1. ClientTypeOK' /\ NetTypeOK' /\ QueueTypeOK'
    BY <1>1 DEF ClientTypeOK, NetTypeOK, QueueTypeOK, clientVars, netVars
  <2>2. PlayerTypeOK'
    <3>1. team' \in Team /\ alive' \in BOOLEAN
      BY <1>1 DEF NetTypeOK
    <3>2. /\ respawnTimer' \in 0 .. (RespawnTicks - 1)
          /\ life' \in Nat
          /\ applied' \in Seq(Cmd)
      <4>1. CASE UNCHANGED <<respawnTimer, life, applied>>
        BY <4>1 DEF PlayerTypeOK
      <4>2. CASE respawnTimer' = 0 /\ life' = life + 1 /\ applied' = <<>>
        <5>1. 0 \in 0 .. (RespawnTicks - 1) /\ <<>> \in Seq(Cmd)
          OBVIOUS
        <5>2. life + 1 \in Nat
          BY DEF PlayerTypeOK
        <5>3. QED
          BY <4>2, <5>1, <5>2
      <4>3. QED
        BY <1>2, <4>1, <4>2
    <3>3. QED
      BY <3>1, <3>2 DEF PlayerTypeOK
  <2>3. CounterTypeOK'
    BY <1>1 DEF CounterTypeOK
  <2>4. QED
    BY <2>1, <2>2, <2>3
<1>4. QueueInv'
  BY <1>1 DEF QueueInv, ExecutedInOrderOnce, clientVars, netVars
<1>5. LifeInv'
  BY <1>1, <1>2 DEF LifeInv, AppliedInLifeOfArrival
<1>6. SnapshotInv' /\ ClientInv'
  BY <1>1 DEF SnapshotInv, ClientInv, AckNeverAhead, clientVars, netVars
<1>7. QED
  BY <1>3, <1>4, <1>5, <1>6

(***************************************************************************)
(* What the server puts into a snapshot is well-formed, carries the        *)
(* acknowledgement, and shows no command above it.                         *)
(***************************************************************************)
LEMMA ContentOfState ==
  ASSUME NEW isAlive \in BOOLEAN, NEW in \in Nat, NEW inputs \in Seq(Cmd),
         NEW onTeam \in Team, NEW ack \in 0 .. MaxSeq,
         \A i \in DOMAIN inputs : inputs[i] <= ack
  PROVE  LET c == Content(isAlive, in, inputs, onTeam, ack) IN
           /\ c \in Body
           /\ c.ack = ack
           /\ \A i \in DOMAIN c.state.inputs : c.state.inputs[i] <= ack
<1> DEFINE view == IF onTeam \in Playable THEN [life |-> in, inputs |-> inputs]
                                          ELSE [life |-> 0, inputs |-> <<>>]
<1>1. view \in PlayerView /\ \A i \in DOMAIN view.inputs : view.inputs[i] <= ack
  BY DEF PlayerView
<1> HIDE DEF view
<1>2. Content(isAlive, in, inputs, onTeam, ack)
        = [alive |-> isAlive, ack |-> ack, team |-> onTeam, state |-> view]
  BY DEF Content, view
<1>3. QED
  BY <1>1, <1>2 DEF Body

(***************************************************************************)
(* A snapshot of the present state, under the last number or the next one, *)
(* keeps what the invariant says of snapshots and of the client.           *)
(***************************************************************************)
LEMMA NewSnapshotPreserves ==
  ASSUME PipelineInv, NEW x \in Snapshot,
         x.body.ack = lastApplied,
         \A i \in DOMAIN x.body.state.inputs : x.body.state.inputs[i] <= x.body.ack,
         x.seq = snapshotSeq',
         snapshotSeq' = snapshotSeq \/ snapshotSeq' = snapshotSeq + 1,
         snapshotSeq' <= MaxSnapshots,
         snapshots' = snapshots \cup {x},
         UNCHANGED <<clientVars, lastApplied>>
  PROVE  SnapshotInv' /\ ClientInv'
<1> USE PipelineAssumption DEF PipelineInv, TypeOK
<1>1. /\ snapshotSeq \in Nat
      /\ snapshotSeq <= snapshotSeq'
      /\ \A y \in snapshots : y.seq \in Nat /\ y.seq <= snapshotSeq /\ y.body.ack <= lastApplied
  BY DEF CounterTypeOK, NetTypeOK, Snapshot, SnapshotInv, SeqNo
<1>2. lastApplied' = lastApplied /\ lastApplied \in Nat
  BY DEF QueueTypeOK
<1>3. SnapshotInv'
  <2>1. \A y \in snapshots' :
          /\ y.seq <= snapshotSeq'
          /\ y.body.ack <= lastApplied'
          /\ \A i \in DOMAIN y.body.state.inputs : y.body.state.inputs[i] <= y.body.ack
    BY <1>1, <1>2 DEF SnapshotInv
  <2>2. \A y, z \in snapshots' : y.seq < z.seq => y.body.ack <= z.body.ack
    BY <1>1, <1>2 DEF SnapshotInv
  <2>3. QED
    BY <2>1, <2>2 DEF SnapshotInv
<1>4. ClientInv'
  <2>1. lastSnapshotSeq <= snapshotSeq'
    BY <1>1 DEF ClientInv, ClientTypeOK, SeqNo
  <2>2. \A y \in snapshots' : lastSnapshotSeq < y.seq => lastAcked <= y.body.ack
    BY DEF ClientInv, AckNeverAhead
  <2>3. QED
    BY <1>2, <2>1, <2>2 DEF ClientInv, AckNeverAhead, clientVars
<1>5. QED
  BY <1>3, <1>4

(***************************************************************************)
(* Answering a repeated Hello adds a snapshot under the last number.       *)
(***************************************************************************)
LEMMA RefreshPreserves ==
  ASSUME PipelineInv, RefreshHello
  PROVE  PipelineInv'
<1> USE PipelineAssumption DEF PipelineInv, TypeOK
<1> DEFINE content == Content(alive, life, applied, team, AckedInput)
           x       == SnapshotOf(snapshotSeq, content)
<1>1. /\ refreshes < MaxRefreshes
      /\ refreshes' = refreshes + 1
      /\ snapshots' = snapshots \cup {x}
      /\ UNCHANGED <<clientVars, bundles, teamRequests, phase, playerVars, queueVars,
                     snapshotSeq, published, kills, teamDeliveries>>
  BY DEF RefreshHello
<1>2. /\ content \in Body
      /\ content.ack = lastApplied
      /\ \A i \in DOMAIN content.state.inputs : content.state.inputs[i] <= content.ack
  BY ContentOfState DEF PlayerTypeOK, QueueTypeOK, LifeInv, AckedInput
<1> HIDE DEF content
<1>3. x \in Snapshot /\ x.seq = snapshotSeq /\ x.body = content
  BY <1>2 DEF SnapshotOf, Snapshot, CounterTypeOK
<1> HIDE DEF x
<1>4. TypeOK'
  <2>1. NetTypeOK'
    BY <1>1, <1>3 DEF NetTypeOK
  <2>2. CounterTypeOK'
    BY <1>1 DEF CounterTypeOK
  <2>3. ClientTypeOK' /\ PlayerTypeOK' /\ QueueTypeOK'
    BY <1>1 DEF ClientTypeOK, PlayerTypeOK, QueueTypeOK, clientVars, playerVars, queueVars
  <2>4. QED
    BY <2>1, <2>2, <2>3
<1>5. QueueInv' /\ LifeInv'
  BY <1>1 DEF QueueInv, ExecutedInOrderOnce, LifeInv, AppliedInLifeOfArrival,
              clientVars, playerVars, queueVars
<1>6. SnapshotInv' /\ ClientInv'
  <2>1. snapshotSeq' = snapshotSeq /\ snapshotSeq <= MaxSnapshots
    BY <1>1 DEF SnapshotInv
  <2>2. UNCHANGED <<clientVars, lastApplied>>
    BY <1>1 DEF queueVars
  <2>3. QED
    BY <1>1, <1>2, <1>3, <2>1, <2>2, NewSnapshotPreserves
<1>7. QED
  BY <1>4, <1>5, <1>6

(***************************************************************************)
(* The start of a tick may kill the player and then drops the queue.       *)
(***************************************************************************)
LEMMA BeginTickPreserves ==
  ASSUME PipelineInv, NEW shot \in BOOLEAN, BeginTick(shot)
  PROVE  PipelineInv'
<1> USE PipelineAssumption DEF PipelineInv, TypeOK
<1>1. /\ shot => kills < MaxKills
      /\ phase' = "commands"
      /\ kills' = IF shot THEN kills + 1 ELSE kills
      /\ pending' \in {pending, {}}
      /\ UNCHANGED <<clientVars, netVars, team, respawnTimer, life, applied,
                     lastApplied, arrivedIn, executed, snapshotSeq, published,
                     teamDeliveries, refreshes>>
  BY DEF BeginTick
<1>2. alive' \in BOOLEAN
  BY Zenon DEF BeginTick
<1>3. TypeOK'
  <2>1. PlayerTypeOK'
    BY <1>1, <1>2 DEF PlayerTypeOK
  <2>2. QueueTypeOK'
    BY <1>1 DEF QueueTypeOK
  <2>3. CounterTypeOK'
    BY <1>1 DEF CounterTypeOK
  <2>4. ClientTypeOK' /\ NetTypeOK'
    BY <1>1 DEF ClientTypeOK, NetTypeOK, clientVars, netVars
  <2>5. QED
    BY <2>1, <2>2, <2>3, <2>4
<1>4. QueueInv' /\ LifeInv'
  BY <1>1 DEF QueueInv, ExecutedInOrderOnce, LifeInv, AppliedInLifeOfArrival,
              clientVars, netVars
<1>5. SnapshotInv' /\ ClientInv'
  BY <1>1 DEF SnapshotInv, ClientInv, AckNeverAhead, clientVars, netVars
<1>6. QED
  BY <1>3, <1>4, <1>5

(***************************************************************************)
(* Applying the first command of the queue appends a number above every    *)
(* number applied before.                                                  *)
(***************************************************************************)
LEMMA ApplyCommandPreserves ==
  ASSUME PipelineInv, ApplyCommand
  PROVE  PipelineInv'
<1> USE PipelineAssumption DEF PipelineInv, TypeOK
<1>1. PICK s \in pending :
        /\ pending' = pending \ {s}
        /\ IF IsNewer(s, lastApplied)
             THEN /\ applied' = Append(applied, s)
                  /\ executed' = Append(executed, s)
                  /\ lastApplied' = s
             ELSE UNCHANGED <<applied, executed, lastApplied>>
        /\ UNCHANGED <<clientVars, netVars, phase, team, alive, respawnTimer, life,
                       arrivedIn, snapshotSeq, boundVars>>
  BY DEF ApplyCommand
<1>2. /\ s \in Cmd
      /\ s <= commandSeq
      /\ arrivedIn[s] = life
  BY DEF QueueTypeOK, QueueInv, LifeInv
<1>3. UNCHANGED <<commandSeq, bundles, arrivedIn, life>>
  BY <1>1 DEF clientVars, netVars
<1>4. TypeOK'
  <2>1. ClientTypeOK' /\ NetTypeOK' /\ CounterTypeOK'
    BY <1>1 DEF ClientTypeOK, NetTypeOK, CounterTypeOK, clientVars, netVars, boundVars
  <2>2. PlayerTypeOK' /\ QueueTypeOK'
    <3>1. /\ applied' \in Seq(Cmd)
          /\ executed' \in Seq(Cmd)
          /\ lastApplied' \in 0 .. MaxSeq
          /\ pending' \in SUBSET Cmd
      <4>1. /\ Append(applied, s) \in Seq(Cmd)
            /\ Append(executed, s) \in Seq(Cmd)
        BY <1>2, AppendAtEnd DEF PlayerTypeOK, QueueTypeOK
      <4>2. s \in 0 .. MaxSeq
        BY <1>2 DEF Cmd
      <4>3. QED
        BY <1>1, <4>1, <4>2 DEF PlayerTypeOK, QueueTypeOK
    <3>2. QED
      BY <1>1, <3>1 DEF PlayerTypeOK, QueueTypeOK
  <2>3. QED
    BY <2>1, <2>2
<1>5. CASE IsNewer(s, lastApplied)
  <2>1. s > lastApplied
    <3>1. s \in 0 .. (HalfSpace - 1) /\ lastApplied \in 0 .. (HalfSpace - 1)
      BY <1>2 DEF QueueTypeOK, Cmd
    <3>2. QED
      BY <1>5, <3>1, NewerIsGreater
  <2>2. /\ applied' = Append(applied, s)
        /\ executed' = Append(executed, s)
        /\ lastApplied' = s
    BY <1>1, <1>5
  <2>3. s \in Nat /\ lastApplied \in Nat
    BY <1>2 DEF QueueTypeOK, Cmd
  <2>4. QueueInv'
    <3>1. /\ executed' # <<>>
          /\ DOMAIN executed = 1 .. Len(executed)
          /\ DOMAIN executed' = 1 .. (Len(executed) + 1)
          /\ Len(executed') = Len(executed) + 1
          /\ executed'[Len(executed) + 1] = s
          /\ \A i \in DOMAIN executed : executed'[i] = executed[i] /\ executed[i] \in Nat
          /\ Len(executed) \in Nat
      BY <1>2, <2>2, AppendAtEnd DEF QueueTypeOK
    <3>2. \A i \in DOMAIN executed : executed'[i] < s
      BY <2>1, <2>3, <3>1 DEF QueueInv
    <3>3. \A i \in DOMAIN executed' : i \in DOMAIN executed \/ i = Len(executed) + 1
      BY <3>1
    <3>4. \A i \in DOMAIN executed' : executed'[i] <= lastApplied'
      BY <2>2, <2>3, <3>1, <3>2, <3>3
    <3>5. ExecutedInOrderOnce'
      BY <2>3, <3>1, <3>2, <3>3 DEF QueueInv, ExecutedInOrderOnce
    <3>6. QED
      BY <1>1, <1>2, <1>3, <2>2, <3>1, <3>4, <3>5 DEF QueueInv
  <2>5. LifeInv'
    <3>1. /\ DOMAIN applied = 1 .. Len(applied)
          /\ DOMAIN applied' = 1 .. (Len(applied) + 1)
          /\ applied'[Len(applied) + 1] = s
          /\ \A i \in DOMAIN applied : applied'[i] = applied[i] /\ applied[i] \in Nat
          /\ Len(applied) \in Nat
      BY <1>2, <2>2, AppendAtEnd DEF PlayerTypeOK
    <3>2. \A i \in DOMAIN applied' : i \in DOMAIN applied \/ i = Len(applied) + 1
      BY <3>1
    <3>3. \A i \in DOMAIN applied' : applied'[i] <= lastApplied'
      BY <2>1, <2>2, <2>3, <3>1, <3>2 DEF LifeInv
    <3>4. \A i \in DOMAIN applied' : arrivedIn[applied'[i]] = life
      BY <1>2, <3>1, <3>2 DEF LifeInv, AppliedInLifeOfArrival
    <3>5. QED
      BY <1>1, <1>3, <3>3, <3>4 DEF LifeInv, AppliedInLifeOfArrival
  <2>6. SnapshotInv'
    <3>1. UNCHANGED <<snapshots, snapshotSeq>>
      BY <1>1 DEF netVars
    <3>2. \A x \in snapshots : x.body.ack <= lastApplied'
      BY <1>2, <2>1, <2>2
         DEF SnapshotInv, NetTypeOK, Snapshot, Body, QueueTypeOK, Cmd
    <3>3. QED
      BY <3>1, <3>2 DEF SnapshotInv
  <2>7. ClientInv'
    <3>1. lastAcked <= lastApplied'
      BY <1>2, <2>1, <2>2 DEF ClientInv, AckNeverAhead, ClientTypeOK, QueueTypeOK, Cmd
    <3>2. QED
      BY <1>1, <3>1 DEF ClientInv, AckNeverAhead, clientVars, netVars
  <2>8. QED
    BY <1>4, <2>4, <2>5, <2>6, <2>7
<1>6. CASE ~IsNewer(s, lastApplied)
  <2>1. UNCHANGED <<applied, executed, lastApplied>>
    BY <1>1, <1>6
  <2>2. QueueInv' /\ LifeInv'
    BY <1>1, <1>3, <2>1 DEF QueueInv, ExecutedInOrderOnce, LifeInv, AppliedInLifeOfArrival
  <2>3. SnapshotInv' /\ ClientInv'
    BY <1>1, <2>1 DEF SnapshotInv, ClientInv, AckNeverAhead, clientVars, netVars
  <2>4. QED
    BY <1>4, <2>2, <2>3
<1>7. QED
  BY <1>5, <1>6

(***************************************************************************)
(* The end of a tick may kill the player, may respawn it with nothing      *)
(* queued, and may publish a snapshot of the outcome.                      *)
(***************************************************************************)
LEMMA EndTickPreserves ==
  ASSUME PipelineInv, NEW shot \in BOOLEAN, NEW publish \in BOOLEAN,
         EndTick(shot, publish)
  PROVE  PipelineInv'
<1> USE PipelineAssumption DEF PipelineInv, TypeOK
<1> DEFINE dead    == team \in Playable /\ ~(alive /\ ~shot)
           timer   == IF dead THEN respawnTimer + 1 ELSE 0
           respawn == dead /\ RespawnDue(timer)
           content == Content(alive', life', applied', team, AckedInput)
           x       == SnapshotOf(snapshotSeq', content)
<1>1. /\ pending = {}
      /\ shot => kills < MaxKills
      /\ phase' = "idle"
      /\ kills' = IF shot THEN kills + 1 ELSE kills
      /\ UNCHANGED <<clientVars, bundles, teamRequests, team, pending, lastApplied,
                     arrivedIn, executed, teamDeliveries, refreshes>>
  BY DEF EndTick
<1>2. /\ respawnTimer' = IF respawn THEN 0 ELSE timer
      /\ life' = IF respawn THEN life + 1 ELSE life
      /\ applied' = IF respawn THEN <<>> ELSE applied
  BY DEF EndTick
<1>3. alive' \in BOOLEAN
  BY Zenon DEF EndTick
<1>4. \/ /\ snapshotSeq < MaxSnapshots
         /\ snapshotSeq' = NextSeq(snapshotSeq)
         /\ snapshots' = snapshots \cup {x}
      \/ UNCHANGED <<snapshotSeq, snapshots>>
  BY DEF EndTick
<1>5. /\ applied' \in Seq(Cmd)
      /\ life' \in Nat
      /\ \A i \in DOMAIN applied' : applied'[i] <= lastApplied /\ arrivedIn[applied'[i]] = life'
  BY <1>2 DEF PlayerTypeOK, LifeInv, AppliedInLifeOfArrival
<1>6. PlayerTypeOK'
  <2>1. respawnTimer' \in 0 .. (RespawnTicks - 1)
    BY <1>2 DEF PlayerTypeOK, RespawnDue
  <2>2. QED
    BY <1>1, <1>3, <1>5, <2>1 DEF PlayerTypeOK
<1>7. QueueTypeOK' /\ ClientTypeOK'
  BY <1>1 DEF QueueTypeOK, ClientTypeOK, clientVars
<1>8. QueueInv'
  BY <1>1 DEF QueueInv, ExecutedInOrderOnce, clientVars
<1>9. LifeInv'
  BY <1>1, <1>5 DEF LifeInv, AppliedInLifeOfArrival
<1>10. kills' \in 0 .. MaxKills
  BY <1>1 DEF CounterTypeOK
<1>11. CASE UNCHANGED <<snapshotSeq, snapshots>>
  <2>1. NetTypeOK' /\ CounterTypeOK'
    BY <1>1, <1>10, <1>11 DEF NetTypeOK, CounterTypeOK
  <2>2. SnapshotInv' /\ ClientInv'
    BY <1>1, <1>11 DEF SnapshotInv, ClientInv, AckNeverAhead, clientVars
  <2>3. QED
    BY <1>6, <1>7, <1>8, <1>9, <2>1, <2>2
<1>12. CASE /\ snapshotSeq < MaxSnapshots
            /\ snapshotSeq' = NextSeq(snapshotSeq)
            /\ snapshots' = snapshots \cup {x}
  <2>1. /\ snapshotSeq' = snapshotSeq + 1
        /\ snapshotSeq' \in SeqNo
        /\ snapshotSeq' <= MaxSnapshots
    BY <1>12 DEF NextSeq, SeqNo, CounterTypeOK
  <2>2. /\ content \in Body
        /\ content.ack = lastApplied
        /\ \A i \in DOMAIN content.state.inputs : content.state.inputs[i] <= content.ack
    BY <1>3, <1>5, ContentOfState DEF PlayerTypeOK, QueueTypeOK, AckedInput
  <2> HIDE DEF content
  <2>3. x \in Snapshot /\ x.seq = snapshotSeq' /\ x.body = content
    BY <2>1, <2>2 DEF SnapshotOf, Snapshot
  <2> HIDE DEF x
  <2>4. NetTypeOK' /\ CounterTypeOK'
    BY <1>1, <1>10, <1>12, <2>1, <2>3 DEF NetTypeOK, CounterTypeOK
  <2>5. SnapshotInv' /\ ClientInv'
    BY <1>1, <1>12, <2>1, <2>2, <2>3, NewSnapshotPreserves
  <2>6. QED
    BY <1>6, <1>7, <1>8, <1>9, <2>4, <2>5
<1>13. QED
  BY <1>4, <1>11, <1>12

-----------------------------------------------------------------------------

\* A stuttering step changes no variable, so the invariant, a formula about
\* these variables alone, is kept.
LEMMA StutterPreserves ==
  ASSUME PipelineInv, UNCHANGED vars
  PROVE  PipelineInv'
<1> USE DEF PipelineInv, TypeOK, vars, clientVars, netVars, playerVars, queueVars, boundVars
<1>1. TypeOK'
  BY DEF ClientTypeOK, NetTypeOK, PlayerTypeOK, QueueTypeOK, CounterTypeOK
<1>2. QueueInv' /\ LifeInv'
  BY DEF QueueInv, ExecutedInOrderOnce, LifeInv, AppliedInLifeOfArrival
<1>3. SnapshotInv' /\ ClientInv'
  BY DEF SnapshotInv, ClientInv, AckNeverAhead
<1>4. QED
  BY <1>1, <1>2, <1>3

(***************************************************************************)
(* The invariant is inductive.                                             *)
(***************************************************************************)
LEMMA NextPreserves == PipelineInv /\ [Next]_vars => PipelineInv'
<1> SUFFICES ASSUME PipelineInv, [Next]_vars PROVE PipelineInv'
  OBVIOUS
<1>1. CASE SendInput \/ SendUnpredicted
  BY <1>1, SendPreserves
<1>2. ASSUME NEW t \in Team, RequestTeam(t) PROVE PipelineInv'
  BY <1>2, RequestTeamPreserves
<1>3. ASSUME NEW s \in snapshots, ReceiveSnapshot(s) PROVE PipelineInv'
  BY <1>3, ReceiveSnapshotPreserves
<1>4. ASSUME NEW b \in bundles, EnqueueCommandBundle(b) PROVE PipelineInv'
  BY <1>4, EnqueuePreserves
<1>5. ASSUME NEW t \in teamRequests, HandleTeamChangeRequest(t) PROVE PipelineInv'
  BY <1>5, TeamChangePreserves
<1>6. CASE RefreshHello
  BY <1>6, RefreshPreserves
<1>7. ASSUME NEW shot \in BOOLEAN, BeginTick(shot) PROVE PipelineInv'
  BY <1>7, BeginTickPreserves
<1>8. CASE ApplyCommand
  BY <1>8, ApplyCommandPreserves
<1>9. ASSUME NEW shot \in BOOLEAN, NEW publish \in BOOLEAN, EndTick(shot, publish)
      PROVE  PipelineInv'
  BY <1>9, EndTickPreserves
<1>10. CASE UNCHANGED vars
  BY <1>10, StutterPreserves
<1>11. QED
  BY <1>1, <1>2, <1>3, <1>4, <1>5, <1>6, <1>7, <1>8, <1>9, <1>10 DEF Next

(***************************************************************************)
(* PipelineInv holds in every reachable state, for every value of the      *)
(* constants.                                                              *)
(***************************************************************************)
THEOREM PipelineInvariant == Spec => []PipelineInv
<1>1. QED
  BY InitInv, NextPreserves, PTL DEF Spec

(***************************************************************************)
(* Every variable of the pipeline keeps its type, the respawn timer below  *)
(* the delay and the sequence numbers within their range.                  *)
(***************************************************************************)
THEOREM TypeCorrect == Spec => []TypeOK
<1>1. PipelineInv => TypeOK
  BY DEF PipelineInv
<1>2. QED
  BY <1>1, PipelineInvariant, PTL

(***************************************************************************)
(* Whatever the network does, a command is applied at most once and never  *)
(* after a later one.                                                      *)
(***************************************************************************)
THEOREM InOrderOnce == Spec => []ExecutedInOrderOnce
<1>1. PipelineInv => ExecutedInOrderOnce
  BY DEF PipelineInv, QueueInv
<1>2. QED
  BY <1>1, PipelineInvariant, PTL

(***************************************************************************)
(* The client never believes a command applied that was not.               *)
(***************************************************************************)
THEOREM AckSound == Spec => []AckNeverAhead
<1>1. PipelineInv => AckNeverAhead
  BY DEF PipelineInv, ClientInv
<1>2. QED
  BY <1>1, PipelineInvariant, PTL

(***************************************************************************)
(* No command contributes twice, or out of order, to the predicted state.  *)
(***************************************************************************)
THEOREM ReplayOnce == Spec => []NoDoubleReplay
<1>1. PipelineInv => NoDoubleReplay
  <2> SUFFICES ASSUME PipelineInv, NEW i \in DOMAIN base.inputs, NEW s \in predicted
               PROVE  base.inputs[i] < s
    BY DEF NoDoubleReplay
  <2>1. base.inputs[i] <= lastAcked /\ lastAcked < s
    BY DEF PipelineInv, ClientInv
  <2>2. base.inputs \in Seq(Cmd) /\ s \in Cmd /\ lastAcked \in Nat
    BY DEF PipelineInv, TypeOK, ClientTypeOK, PlayerView
  <2>3. base.inputs[i] \in Cmd
    BY <2>2
  <2>4. QED
    BY <2>1, <2>2, <2>3 DEF Cmd
<1>2. QED
  BY <1>1, PipelineInvariant, PTL

(***************************************************************************)
(* What was queued for one life is never applied in the next one.          *)
(***************************************************************************)
THEOREM LifeOfArrival == Spec => []AppliedInLifeOfArrival
<1>1. PipelineInv => AppliedInLifeOfArrival
  BY DEF PipelineInv, LifeInv
<1>2. QED
  BY <1>1, PipelineInvariant, PTL

-----------------------------------------------------------------------------
(* Refinement of OrderedInput. *)

(***************************************************************************)
(* Every step of the pipeline is a step of OrderedInput or leaves its      *)
(* variables alone: sending issues, applying a newer command applies, and  *)
(* receiving a snapshot learns, where nothing learned is ever unlearned    *)
(* because a newer snapshot acknowledges no less.                          *)
(***************************************************************************)
LEMMA OrderedStep ==
  ASSUME PipelineInv, [Next]_vars
  PROVE  [Ordered!Next]_(Ordered!vars)
<1> USE PipelineAssumption DEF PipelineInv, TypeOK
<1> DEFINE still == UNCHANGED <<commandSeq, executed, lastAcked>>
<1>1. Ordered!LastDone = lastApplied /\ lastApplied \in Nat
  BY DEF Ordered!LastDone, QueueInv, QueueTypeOK
<1>2. still => UNCHANGED Ordered!vars
  BY DEF Ordered!vars
<1>3. CASE SendInput \/ SendUnpredicted
  <2>1. commandSeq' = commandSeq + 1 /\ UNCHANGED <<executed, lastAcked>>
    BY <1>3 DEF SendInput, SendUnpredicted, Send, queueVars
  <2>2. QED
    BY <2>1 DEF Ordered!Next, Ordered!Issue
<1>4. ASSUME NEW s \in snapshots, ReceiveSnapshot(s)
      PROVE  Ordered!Learn
  <2>1. lastAcked' = s.body.ack /\ UNCHANGED <<commandSeq, executed>>
    BY <1>4 DEF ReceiveSnapshot, ApplySnapshot, queueVars
  <2>2. s.body.ack \in Nat /\ lastAcked \in Nat /\ s.body.ack <= lastApplied
    BY DEF NetTypeOK, Snapshot, Body, ClientTypeOK, SnapshotInv
  <2>3. lastAcked <= s.body.ack
    <3>1. CASE ~hasSnapshot
      BY <2>2, <3>1 DEF ClientInv
    <3>2. CASE IsNewer(s.seq, lastSnapshotSeq)
      <4>1. /\ s.seq \in 0 .. (HalfSpace - 1)
            /\ lastSnapshotSeq \in 0 .. (HalfSpace - 1)
        <5>1. s.seq \in SeqNo /\ s.seq <= snapshotSeq
          BY DEF NetTypeOK, Snapshot, SnapshotInv
        <5>2. snapshotSeq \in SeqNo /\ snapshotSeq <= MaxSnapshots
          BY DEF CounterTypeOK, SnapshotInv
        <5>3. lastSnapshotSeq \in SeqNo /\ lastSnapshotSeq <= snapshotSeq
          BY DEF ClientTypeOK, ClientInv
        <5>4. QED
          BY <5>1, <5>2, <5>3 DEF SeqNo
      <4>2. lastSnapshotSeq < s.seq
        BY <3>2, <4>1, NewerIsGreater
      <4>3. QED
        BY <4>2 DEF ClientInv
    <3>3. QED
      BY <1>4, <3>1, <3>2 DEF ReceiveSnapshot, SnapshotAccepted
  <2>4. QED
    BY <1>1, <2>1, <2>2, <2>3 DEF Ordered!Learn
<1>5. CASE ApplyCommand
  <2>1. PICK s \in pending :
          /\ IF IsNewer(s, lastApplied)
               THEN executed' = Append(executed, s)
               ELSE UNCHANGED executed
          /\ UNCHANGED <<commandSeq, lastAcked>>
    BY <1>5 DEF ApplyCommand, clientVars
  <2>2. s \in Cmd /\ s <= commandSeq /\ commandSeq \in Nat
    BY DEF QueueTypeOK, QueueInv, ClientTypeOK
  <2>3. CASE IsNewer(s, lastApplied)
    <3>1. s \in 0 .. (HalfSpace - 1) /\ lastApplied \in 0 .. (HalfSpace - 1)
      BY <2>2 DEF QueueTypeOK, Cmd
    <3>2. lastApplied < s
      BY <2>3, <3>1, NewerIsGreater
    <3>3. s \in (Ordered!LastDone + 1) .. commandSeq
      BY <1>1, <2>2, <3>2 DEF Cmd
    <3>4. Ordered!Apply
      BY <2>1, <2>3, <3>3 DEF Ordered!Apply
    <3>5. QED
      BY <3>4 DEF Ordered!Next
  <2>4. QED
    BY <1>2, <2>1, <2>3
<1>6. ASSUME NEW t \in Team, RequestTeam(t) PROVE still
  BY <1>6 DEF RequestTeam, queueVars
<1>7. ASSUME NEW b \in bundles, EnqueueCommandBundle(b) PROVE still
  BY <1>7 DEF EnqueueCommandBundle, clientVars
<1>8. ASSUME NEW t \in teamRequests, HandleTeamChangeRequest(t) PROVE still
  BY <1>8 DEF HandleTeamChangeRequest, clientVars
<1>9. CASE RefreshHello
  BY <1>2, <1>9 DEF RefreshHello, clientVars, queueVars
<1>10. ASSUME NEW shot \in BOOLEAN, BeginTick(shot) PROVE still
  BY <1>10 DEF BeginTick, clientVars
<1>11. ASSUME NEW shot \in BOOLEAN, NEW publish \in BOOLEAN, EndTick(shot, publish)
       PROVE  still
  BY <1>11 DEF EndTick, clientVars
<1>12. CASE UNCHANGED vars
  BY <1>2, <1>12 DEF vars, clientVars, queueVars
<1>13. QED
  <2> HIDE DEF still
  <2>1. QED
    BY <1>2, <1>3, <1>4, <1>5, <1>6, <1>7, <1>8, <1>9, <1>10, <1>11, <1>12
       DEF Next, Ordered!Next

(***************************************************************************)
(* The pipeline implements OrderedInput: the commands the client numbers   *)
(* are applied in order and at most once, and the client learns of them,   *)
(* never too early and never going back.                                   *)
(***************************************************************************)
THEOREM Refinement == Spec => ImplementsOrderedInput
<1>1. Init => Ordered!Init
  BY DEF Init, Ordered!Init
<1>2. PipelineInv /\ [Next]_vars => [Ordered!Next]_(Ordered!vars)
  BY OrderedStep
<1>3. QED
  BY <1>1, <1>2, PipelineInvariant, PTL DEF Spec, ImplementsOrderedInput, Ordered!Spec
=============================================================================
