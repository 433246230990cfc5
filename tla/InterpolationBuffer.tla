------------------------- MODULE InterpolationBuffer -------------------------
(***************************************************************************)
(* How a client shows the other actors: the histories of positions it      *)
(* collects from snapshots (InterpolationBuffer::pushSnapshot), the time   *)
(* it looks at, a little behind the server's, and the position it draws    *)
(* there (sample).  The network loses, repeats and reorders snapshots.     *)
(* The same code keeps the ghosts of the control track, whose histories    *)
(* are forgotten when a snapshot has none (ClientRuntime::applySnapshot).  *)
(* Left out: velocity, angles, radius and health, which are blended like   *)
(* the position, and the flag of being alive, taken from the later sample. *)
(***************************************************************************)
EXTENDS Integers, Sequences

CONSTANTS
  Actors,
  Positions,         \* on a line
  TeleportDistance,  \* teleportDistance
  MaxSamples,        \* maxSamplesPerEntity
  Delay,             \* defaultInterpolationDelayMs of the snapshot rate
  AreGhosts,         \* whether these are the actors of the control track
  MaxTime, MaxSnapshots, MaxElapsed  \* bounds

ASSUME BufferAssumption ==
  /\ Positions \subseteq Nat /\ TeleportDistance \in Nat
  /\ MaxSamples \in Nat \ {0} /\ Delay \in Nat /\ AreGhosts \in BOOLEAN
  /\ {MaxTime, MaxSnapshots, MaxElapsed} \subseteq Nat

VARIABLES
  sent,         \* every snapshot the server has sent; any of them may arrive
  now, seq,     \* server time of the last one, and its number
  newest,       \* the snapshot applied last
  elapsed,      \* clockUs_ - latestSnapshotReceiveUs_
  histories,    \* samples of each actor, oldest first
  interpolates  \* interpolationEnabled_

vars == <<sent, now, seq, newest, elapsed, histories, interpolates>>

Snapshot(n, time, present, pos) == [seq |-> n, time |-> time, present |-> present, pos |-> pos]

\* No actor is shown before a snapshot has come.
NoSnapshot == Snapshot(0, 0, {}, <<>>)

Forgotten == [a \in Actors |-> <<>>]

Init ==
  /\ sent = {} /\ now = 0 /\ seq = 0
  /\ newest = NoSnapshot /\ elapsed = 0
  /\ histories = Forgotten /\ interpolates = TRUE

-----------------------------------------------------------------------------
(* Collecting. *)

Distance(p, q) == IF p <= q THEN q - p ELSE p - q

\* A jump is blended like any other movement.
MutKept(h, position) == h

\* What was before a jump is not blended with what comes after it.
Kept(h, position) ==
  IF h # <<>> /\ Distance(h[Len(h)].pos, position) > TeleportDistance THEN <<>> ELSE h

\* The oldest sample beyond the cap goes.
Capped(h) == IF Len(h) > MaxSamples THEN Tail(h) ELSE h

Pushed(h, time, position) ==
  IF h # <<>> /\ time <= h[Len(h)].time THEN h
  ELSE Capped(Append(Kept(h, position), [time |-> time, pos |-> position]))

\* pushSnapshot; an actor that is not in the snapshot keeps its history.
PushSnapshot(s) ==
  [a \in Actors |-> IF a \in s.present THEN Pushed(histories[a], s.time, s.pos[a]) ELSE histories[a]]

-----------------------------------------------------------------------------
(* Sampling.  A position is a fraction: pos over over. *)

Exactly(position) == [pos |-> position, over |-> 1]

Blend(from, to, time) ==
  [pos |-> from.pos * (to.time - time) + to.pos * (time - from.time), over |-> to.time - from.time]

Straddles(h, i, time) == h[i - 1].time <= time /\ time <= h[i].time

\* Whichever straddles: a sample that two pairs share is shown as it is.
Sampled(h, time) ==
  IF time <= h[1].time \/ time >= h[Len(h)].time THEN Exactly(h[Len(h)].pos)
  ELSE LET i == CHOOSE j \in 2 .. Len(h) : Straddles(h, j, time) IN Blend(h[i - 1], h[i], time)

\* The server's time as the client reckons it, less the delay.
TargetTime ==
  LET estimated == newest.time + elapsed IN IF estimated > Delay THEN estimated - Delay ELSE 0

\* sampleRemoteActorsForPresentation, for an actor of the newest snapshot.
Shown(a) ==
  IF interpolates THEN Sampled(histories[a], TargetTime) ELSE Exactly(newest.pos[a])

-----------------------------------------------------------------------------
\* Two ticks of a network step have the same server time.
Publish(time, present, pos) ==
  LET s == Snapshot(seq + 1, time, present, pos) IN
  /\ seq < MaxSnapshots /\ time \in {now, now + 1} /\ time <= MaxTime
  /\ sent' = sent \cup {s} /\ seq' = s.seq /\ now' = time
  /\ UNCHANGED <<newest, elapsed, histories, interpolates>>

\* ClientRuntime::applySnapshot, for a number above the last.
Receive(s) ==
  /\ s.seq > newest.seq
  /\ newest' = s /\ elapsed' = 0
  /\ histories' = IF AreGhosts /\ s.present = {} THEN Forgotten ELSE PushSnapshot(s)
  /\ UNCHANGED <<sent, now, seq, interpolates>>

\* A frame without a snapshot.
Frame ==
  /\ elapsed < MaxElapsed /\ elapsed' = elapsed + 1
  /\ UNCHANGED <<sent, now, seq, newest, histories, interpolates>>

ToggleInterpolation ==
  /\ interpolates' = ~interpolates
  /\ UNCHANGED <<sent, now, seq, newest, elapsed, histories>>

Next ==
  \/ \E time \in 0 .. MaxTime, present \in SUBSET Actors :
       \E pos \in [present -> Positions] : Publish(time, present, pos)
  \/ \E s \in sent : Receive(s)
  \/ Frame \/ ToggleInterpolation

Spec == Init /\ [][Next]_vars

-----------------------------------------------------------------------------
\* Actor a was at position at that time, as far as the server has told anybody.
WasThere(a, time, position) ==
  \E s \in sent : a \in s.present /\ s.time = time /\ s.pos[a] = position

\* Two places a was in, before and after the time looked at, with no jump between them.
IsBetween(a, picture) ==
  \E s, t \in sent :
    /\ a \in s.present /\ a \in t.present
    /\ s.time < t.time /\ s.time <= TargetTime /\ TargetTime <= t.time
    /\ Distance(s.pos[a], t.pos[a]) <= TeleportDistance
    /\ picture = Blend([time |-> s.time, pos |-> s.pos[a]], [time |-> t.time, pos |-> t.pos[a]], TargetTime)

\* Whatever was lost or overtaken, an actor is drawn where it was at the time of
\* the newest snapshot, or on the way between two places it was in before and
\* after the time looked at, never on the way of a jump
\* (InterpolationBuffer::sample, pushSnapshot).
ShownWasThere ==
  \A a \in newest.present :
    (\E p \in Positions : Shown(a) = Exactly(p) /\ WasThere(a, newest.time, p))
      \/ IsBetween(a, Shown(a))
=============================================================================
