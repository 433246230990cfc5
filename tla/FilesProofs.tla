----------------------------- MODULE FilesProofs -----------------------------
(***************************************************************************)
(* What is kept of a session and read back: a replay shows what happened   *)
(* (CommandReplay), and a level is loaded as it was saved (LevelFile).     *)
(***************************************************************************)
EXTENDS MCFiles, FiniteSetTheorems, SequenceTheorems, WellFoundedInduction, TLAPS

-----------------------------------------------------------------------------
(***************************************************************************)
(* Numbers: sets of them have a least, bounded ones a greatest.            *)
(***************************************************************************)
LEMMA LeastNatural ==
  ASSUME NEW S \in SUBSET Nat, S # {}
  PROVE  \E x \in S : \A y \in S : x <= y
<1> DEFINE R == OpToRel(<, Nat)
<1>1. IsWellFoundedOn(R, Nat)
  BY NatLessThanWellFounded
<1>2. \A x, y \in Nat : y < x => <<y, x>> \in R
  BY DEF OpToRel
<1> HIDE DEF R
<1>3. S \subseteq Nat
  OBVIOUS
<1>4. PICK x \in S : \A y \in S : ~(<<y, x>> \in R)
  BY <1>1, <1>3, WFMin, Zenon
<1>5. \A y \in S : ~(y < x)
  BY <1>2, <1>3, <1>4, Zenon
<1>6. \A y \in S : x <= y
  <2> TAKE y \in S
  <2>1. ~(y < x) /\ x \in Nat /\ y \in Nat
    BY <1>3, <1>5
  <2> QED
    BY <2>1
<1> QED
  BY <1>6

LEMMA LeastOf ==
  ASSUME NEW S \in SUBSET Nat, S # {}
  PROVE  Min(S) \in S /\ \A y \in S : Min(S) <= y
<1>1. PICK x \in S : \A y \in S : x <= y
  BY LeastNatural
<1> QED
  BY <1>1, Zenon DEF Min

LEMMA GreatestOf ==
  ASSUME NEW n \in Nat, NEW S \in SUBSET (0..n), S # {}
  PROVE  Max(S) \in S /\ \A p \in S : Max(S) >= p
<1> DEFINE Below == {k \in Nat : \E p \in S : k = n - p}
<1>1. \A p \in S : p \in Int /\ n - p \in Nat
  OBVIOUS
<1>2. Below \in SUBSET Nat /\ Below # {}
  <2>1. PICK p \in S : TRUE
    OBVIOUS
  <2>2. n - p \in Below
    BY <1>1
  <2> QED
    BY <2>2
<1>3. PICK k \in Below : \A m \in Below : k <= m
  <2> HIDE DEF Below
  <2> QED
    BY <1>2, LeastNatural
<1>4. PICK x \in S : k = n - x
  OBVIOUS
<1>5. \A p \in S : x >= p
  <2> TAKE p \in S
  <2>1. k <= n - p
    BY <1>1, <1>3
  <2> QED
    BY <1>1, <1>4, <2>1
<1> QED
  BY <1>5, Zenon DEF Max

-----------------------------------------------------------------------------
(***************************************************************************)
(* One turn of a tick, of the server or of a playback.                     *)
(***************************************************************************)
Commands == [actor : Actors, seq : Nat \ {0}, kind : {"move", "fire"}]
Tracks == {"authoritative", "control"}
Events == [track : Tracks, tick : Nat, command : Commands]

OnActors(f) == f = [a \in Actors |-> f[a]]

Servers(moved, ghost, spawn) ==
  [moved : {moved}, health : [Actors -> {Dead, Full}], timer : [Actors -> Nat],
   pending : SUBSET Commands, log : SUBSET Events, applied : [Actors -> Nat],
   control : SUBSET Commands, ghost : {ghost}, since : [Actors -> Nat],
   appliedControl : [Actors -> Nat], hasGhost : SUBSET Actors, spawn : {spawn}, placed : SUBSET Actors]

Formed(s) == s \in Servers(s.moved, s.ghost, s.spawn) /\ OnActors(s.moved) /\ OnActors(s.ghost)

Of(commands, a) == {c \in commands : c.actor = a}

\* What is queued is newer than what was applied, and has an end.
Bounded(commands, a) == \E n \in Nat : \A c \in Of(commands, a) : c.seq <= n
Fresh(s) ==
  /\ \A c \in s.pending : c.seq > s.applied[c.actor]
  /\ \A a \in Actors : Bounded(s.pending, a)

Moved(body, queue) == IF queue = {} THEN MovedBy(body, Idle) ELSE Driven(body, queue)

Felled(health, a, queue) ==
  [b \in Actors |-> IF b # a /\ \E c \in queue : c.kind = "fire" THEN Dead ELSE health[b]]

LEMMA NewestIs ==
  ASSUME NEW queue \in SUBSET Commands, NEW m \in Nat, \A c \in queue : c.seq <= m, NEW last \in Nat
  PROVE  /\ Newest(queue, last) \in Nat
         /\ queue = {} => Newest(queue, last) = last
         /\ queue # {} => /\ \E c \in queue : Newest(queue, last) = c.seq
                          /\ \A c \in queue : c.seq <= Newest(queue, last)
<1> DEFINE S == {c.seq : c \in queue}
<1>1. S \in SUBSET (0 .. m)
  BY DEF Commands
<1>2. CASE queue = {}
  BY <1>2 DEF Newest
<1>3. CASE queue # {}
  <2>1. S # {} /\ Newest(queue, last) = Max(S)
    BY <1>3 DEF Newest
  <2> HIDE DEF S
  <2>2. Max(S) \in S /\ \A x \in S : Max(S) >= x
    BY <1>1, <2>1, GreatestOf
  <2>3. /\ \E c \in queue : Max(S) = c.seq
        /\ \A c \in queue : Max(S) >= c.seq
    BY <2>2 DEF S
  <2>4. Max(S) \in Nat
    <3>1. Max(S) \in 0 .. m
      BY <1>1, <2>2, Zenon
    <3> QED
      BY <3>1
  <2>5. \A c \in queue : c.seq \in Nat
    BY DEF Commands
  <2> QED
    BY <1>3, <2>1, <2>3, <2>4, <2>5
<1> QED
  BY <1>2, <1>3

\* A world after the turn of an actor, whatever the turn was.
ServedTo(s, a, t, n) ==
  /\ n.pending = Others(s.pending, a) /\ n.control \in SUBSET s.control
  /\ n.timer = s.timer /\ n.ghost = s.ghost /\ n.since = s.since
  /\ n.appliedControl = s.appliedControl /\ n.hasGhost = s.hasGhost
  /\ n.spawn = s.spawn /\ n.placed = s.placed
  /\ n.moved = IF s.health[a] = Dead THEN s.moved
               ELSE [s.moved EXCEPT ![a] = Moved(@, Of(s.pending, a))]
  /\ n.health = IF s.health[a] = Dead THEN s.health ELSE Felled(s.health, a, Of(s.pending, a))
  /\ n.applied = IF s.health[a] = Dead THEN s.applied
                 ELSE [s.applied EXCEPT ![a] = Newest(Of(s.pending, a), @)]
  /\ n.log = IF s.health[a] = Dead THEN s.log
             ELSE s.log \cup Log("authoritative", t, Of(s.pending, a))
  /\ n = [moved |-> n.moved, health |-> n.health, timer |-> n.timer, pending |-> n.pending,
          log |-> n.log, applied |-> n.applied, control |-> n.control, ghost |-> n.ghost,
          since |-> n.since, appliedControl |-> n.appliedControl, hasGhost |-> n.hasGhost,
          spawn |-> n.spawn, placed |-> n.placed]

LEMMA ServedIs ==
  ASSUME NEW s, Formed(s), Fresh(s), NEW a \in Actors, NEW t
  PROVE  ServedTo(s, a, t, Served(s, a, t))
<1> DEFINE n == Served(s, a, t)
           queue == Of(s.pending, a)
           emptied == [s EXCEPT !.pending = Others(@, a)]
<1> SUFFICES ServedTo(s, a, t, n)
  OBVIOUS
<1> HIDE DEF n
<1>1. s \in Servers(s.moved, s.ghost, s.spawn) /\ OnActors(s.moved)
  BY DEF Formed
<1>2. Queue(s.pending, a, s.applied[a]) = queue
  BY DEF Queue, Fresh, Of
<1>3. CASE s.health[a] = Dead
  <2>1. n = [emptied EXCEPT !.control = Others(@, a)]
    BY <1>3 DEF Served, n
  <2>2. Others(s.control, a) \in SUBSET s.control
    BY DEF Others
  <2> QED
    BY <1>1, <1>3, <2>1, <2>2 DEF Servers, ServedTo
<1>4. CASE s.health[a] # Dead /\ Others(s.pending, a) = s.pending
  <2>1. n = [s EXCEPT !.moved[a] = MovedBy(@, Idle)]
    BY <1>4 DEF Served, n
  <2>2. queue = {}
    BY <1>4 DEF Of, Others
  <2>3. Felled(s.health, a, queue) = s.health
    BY <1>1, <2>2 DEF Felled, Servers
  <2>4. [s.applied EXCEPT ![a] = Newest(queue, @)] = s.applied
    BY <1>1, <2>2 DEF Newest, Servers
  <2>5. s.log \cup Log("authoritative", t, queue) = s.log
    BY <2>2 DEF Log
  <2>6. [s.moved EXCEPT ![a] = MovedBy(@, Idle)] = [s.moved EXCEPT ![a] = Moved(@, queue)]
    BY <2>2 DEF Moved
  <2>7. /\ n.moved = [s.moved EXCEPT ![a] = MovedBy(@, Idle)]
        /\ n.health = s.health /\ n.applied = s.applied /\ n.log = s.log /\ n.pending = s.pending
        /\ n.control = s.control /\ n.timer = s.timer /\ n.ghost = s.ghost /\ n.since = s.since
        /\ n.appliedControl = s.appliedControl /\ n.hasGhost = s.hasGhost
        /\ n.spawn = s.spawn /\ n.placed = s.placed
        /\ n = [moved |-> n.moved, health |-> n.health, timer |-> n.timer, pending |-> n.pending,
                log |-> n.log, applied |-> n.applied, control |-> n.control, ghost |-> n.ghost,
                since |-> n.since, appliedControl |-> n.appliedControl, hasGhost |-> n.hasGhost,
                spawn |-> n.spawn, placed |-> n.placed]
    BY <1>1, <2>1 DEF Servers
  <2> QED
    BY <1>4, <2>3, <2>4, <2>5, <2>6, <2>7 DEF ServedTo
<1>5. CASE s.health[a] # Dead /\ Others(s.pending, a) # s.pending
  <2>1. n = [emptied EXCEPT !.moved[a] = Driven(@, queue), !.applied[a] = Newest(queue, @),
                            !.log = @ \cup Log("authoritative", t, queue),
                            !.health = [b \in Actors |-> IF b # a /\ \E c \in queue : c.kind = "fire"
                                                         THEN Dead ELSE @[b]]]
    BY <1>2, <1>5 DEF Served, n
  <2>2. queue # {}
    BY <1>5 DEF Of, Others
  <2>3. [s.moved EXCEPT ![a] = Driven(@, queue)] = [s.moved EXCEPT ![a] = Moved(@, queue)]
    BY <2>2 DEF Moved
  <2> DEFINE felled == [b \in Actors |-> IF b # a /\ \E c \in queue : c.kind = "fire"
                                         THEN Dead ELSE s.health[b]]
             driven == [s.moved EXCEPT ![a] = Driven(@, queue)]
             newest == [s.applied EXCEPT ![a] = Newest(queue, @)]
             logged == s.log \cup Log("authoritative", t, queue)
  <2>4. n = [emptied EXCEPT !.moved = driven, !.applied = newest, !.log = logged, !.health = felled]
    BY <1>1, <2>1 DEF Servers
  <2>5. felled = Felled(s.health, a, queue)
    BY DEF Felled
  <2> HIDE DEF felled, driven, newest, logged, queue
  <2>6. /\ n.moved = driven
        /\ n.health = felled /\ n.applied = newest /\ n.log = logged /\ n.pending = Others(s.pending, a)
        /\ n.control = s.control /\ n.timer = s.timer /\ n.ghost = s.ghost /\ n.since = s.since
        /\ n.appliedControl = s.appliedControl /\ n.hasGhost = s.hasGhost
        /\ n.spawn = s.spawn /\ n.placed = s.placed
        /\ n = [moved |-> n.moved, health |-> n.health, timer |-> n.timer, pending |-> n.pending,
                log |-> n.log, applied |-> n.applied, control |-> n.control, ghost |-> n.ghost,
                since |-> n.since, appliedControl |-> n.appliedControl, hasGhost |-> n.hasGhost,
                spawn |-> n.spawn, placed |-> n.placed]
    BY <1>1, <2>4 DEF Servers
  <2> QED
    BY <1>5, <2>3, <2>5, <2>6 DEF driven, newest, logged, queue, ServedTo
<1> QED
  BY <1>3, <1>4, <1>5

LogOf(s, a) == {e.command : e \in {e \in s.log : e.command.actor = a}}

QueuesServed(s, a, n) ==
  /\ Of(n.pending, a) = {}
  /\ \A b \in Actors \ {a} : Of(n.pending, b) = Of(s.pending, b) /\ LogOf(n, b) = LogOf(s, b)
  /\ LogOf(n, a) = IF s.health[a] = Dead THEN LogOf(s, a) ELSE LogOf(s, a) \cup Of(s.pending, a)

\* A turn serves one actor: the commands of the others stay where they are.
LEMMA ServedQueues ==
  ASSUME NEW s, Formed(s), Fresh(s), NEW a \in Actors, NEW t, NEW n, ServedTo(s, a, t, n)
  PROVE  QueuesServed(s, a, n)
<1> USE DEF QueuesServed
<1>1. n.pending = Others(s.pending, a)
  BY DEF ServedTo
<1>2. n.log = IF s.health[a] = Dead THEN s.log
              ELSE s.log \cup Log("authoritative", t, Of(s.pending, a))
  BY DEF ServedTo
<1>3. /\ Of(n.pending, a) = {}
      /\ \A b \in Actors \ {a} : Of(n.pending, b) = Of(s.pending, b)
  BY <1>1 DEF Of, Others
<1> DEFINE logged == Log("authoritative", t, Of(s.pending, a))
<1>4. \A c : c \in Of(s.pending, a) => Event("authoritative", t, c) \in logged
  BY DEF Log
<1>5. \A e \in logged : e.command \in Of(s.pending, a)
  BY DEF Log, Event
<1>6. \A c : Event("authoritative", t, c).command = c
  BY DEF Event
<1>7. \A c \in Of(s.pending, a) : c.actor = a
  BY DEF Of
<1> HIDE DEF logged
<1>8. CASE s.health[a] = Dead
  BY <1>2, <1>3, <1>8 DEF LogOf
<1>9. CASE s.health[a] # Dead
  <2>1. n.log = s.log \cup logged
    BY <1>2, <1>9 DEF logged
  <2>2. \A b \in Actors \ {a} : LogOf(n, b) = LogOf(s, b)
    BY <2>1, <1>5, <1>7 DEF LogOf
  <2>3. LogOf(n, a) \subseteq LogOf(s, a) \cup Of(s.pending, a)
    BY <2>1, <1>5 DEF LogOf
  <2>4. LogOf(s, a) \subseteq LogOf(n, a)
    BY <2>1 DEF LogOf
  <2>5. Of(s.pending, a) \subseteq LogOf(n, a)
    <3> SUFFICES ASSUME NEW c \in Of(s.pending, a) PROVE c \in LogOf(n, a)
      OBVIOUS
    <3>1. Event("authoritative", t, c) \in n.log
      BY <1>4, <2>1
    <3> QED
      BY <1>6, <1>7, <3>1 DEF LogOf
  <2> QED
    BY <1>3, <1>9, <2>2, <2>3, <2>4, <2>5
<1> QED
  BY <1>8, <1>9

\* What was applied is what came last, of that actor only.
LEMMA ServedApplied ==
  ASSUME NEW s, Formed(s), Fresh(s), NEW a \in Actors, NEW t, NEW n, ServedTo(s, a, t, n)
  PROVE  /\ n.applied \in [Actors -> Nat]
         /\ \A b \in Actors \ {a} : n.applied[b] = s.applied[b]
         /\ s.applied[a] <= n.applied[a]
         /\ n.applied[a] = s.applied[a] \/ \E c \in Of(s.pending, a) : n.applied[a] = c.seq
         /\ s.health[a] # Dead => \A c \in Of(s.pending, a) : c.seq <= n.applied[a]
<1> DEFINE queue == Of(s.pending, a)
           newest == Newest(queue, s.applied[a])
<1>1. s.applied \in [Actors -> Nat] /\ s.pending \in SUBSET Commands
  BY DEF Formed, Servers
<1>2. queue \in SUBSET Commands /\ s.applied[a] \in Nat
  BY <1>1 DEF Of
<1>3. PICK m \in Nat : \A c \in queue : c.seq <= m
  BY DEF Fresh, Bounded
<1>4. /\ newest \in Nat
      /\ queue = {} => newest = s.applied[a]
      /\ queue # {} => /\ \E c \in queue : newest = c.seq
                       /\ \A c \in queue : c.seq <= newest
  BY <1>2, <1>3, NewestIs
<1>5. \A c \in queue : c.seq > s.applied[a]
  BY DEF Fresh, Of
<1>6. n.applied = IF s.health[a] = Dead THEN s.applied ELSE [s.applied EXCEPT ![a] = newest]
  BY DEF ServedTo
<1> HIDE DEF queue, newest
<1>7. s.applied[a] <= newest
  BY <1>2, <1>4, <1>5
<1>8. CASE s.health[a] = Dead
  BY <1>1, <1>2, <1>6, <1>8 DEF queue
<1>9. CASE s.health[a] # Dead
  <2>1. n.applied[a] = newest /\ \A b \in Actors \ {a} : n.applied[b] = s.applied[b]
    BY <1>1, <1>6, <1>9
  <2>2. n.applied \in [Actors -> Nat]
    BY <1>1, <1>4, <1>6, <1>9
  <2> QED
    BY <1>4, <1>7, <1>9, <2>1, <2>2 DEF queue
<1> QED
  BY <1>8, <1>9

LEMMA ServedFormed ==
  ASSUME NEW s, Formed(s), Fresh(s), NEW a \in Actors, NEW t \in Nat, NEW n, ServedTo(s, a, t, n)
  PROVE  Formed(n) /\ Fresh(n)
<1>1. s \in Servers(s.moved, s.ghost, s.spawn) /\ OnActors(s.moved) /\ OnActors(s.ghost)
  BY DEF Formed
<1>2. n.applied \in [Actors -> Nat] /\ \A b \in Actors \ {a} : n.applied[b] = s.applied[b]
  BY ServedApplied
<1>3. n.pending \in SUBSET s.pending /\ \A c \in n.pending : c.actor # a
  <2>1. n.pending = Others(s.pending, a)
    BY DEF ServedTo
  <2> QED
    BY <2>1 DEF Others
<1>4. Fresh(n)
  <2>1. \A c \in n.pending : c.actor \in Actors \ {a}
    BY <1>1, <1>3 DEF Servers, Commands
  <2>2. \A c \in n.pending : c.seq > n.applied[c.actor]
    BY <1>2, <1>3, <2>1 DEF Fresh
  <2>3. \A b \in Actors : Of(n.pending, b) \subseteq Of(s.pending, b)
    BY <1>3 DEF Of
  <2>4. \A b \in Actors : Bounded(n.pending, b)
    BY <2>3 DEF Fresh, Bounded
  <2> QED
    BY <2>2, <2>4 DEF Fresh
<1>5. n.health \in [Actors -> {Dead, Full}]
  <2>1. n.health = IF s.health[a] = Dead THEN s.health ELSE Felled(s.health, a, Of(s.pending, a))
    BY DEF ServedTo
  <2> QED
    BY <1>1, <2>1 DEF Servers, Felled
<1>6. n.log \in SUBSET Events
  <2>1. n.log = IF s.health[a] = Dead THEN s.log
                ELSE s.log \cup Log("authoritative", t, Of(s.pending, a))
    BY DEF ServedTo
  <2>2. \A c \in Of(s.pending, a) : Event("authoritative", t, c) \in Events
    BY <1>1 DEF Of, Servers, Event, Events, Tracks
  <2>3. Log("authoritative", t, Of(s.pending, a)) \in SUBSET Events
    BY <2>2 DEF Log
  <2> QED
    BY <1>1, <2>1, <2>3 DEF Servers
<1>7. OnActors(n.moved)
  <2>1. n.moved = IF s.health[a] = Dead THEN s.moved
                  ELSE [s.moved EXCEPT ![a] = Moved(@, Of(s.pending, a))]
    BY DEF ServedTo
  <2>2. OnActors([s.moved EXCEPT ![a] = Moved(@, Of(s.pending, a))])
    BY <1>1 DEF OnActors
  <2> QED
    BY <1>1, <2>1, <2>2
<1>8. /\ n.control \in SUBSET s.control /\ n.timer = s.timer /\ n.ghost = s.ghost
      /\ n.since = s.since /\ n.appliedControl = s.appliedControl /\ n.hasGhost = s.hasGhost
      /\ n.spawn = s.spawn /\ n.placed = s.placed
      /\ n = [moved |-> n.moved, health |-> n.health, timer |-> n.timer, pending |-> n.pending,
              log |-> n.log, applied |-> n.applied, control |-> n.control, ghost |-> n.ghost,
              since |-> n.since, appliedControl |-> n.appliedControl, hasGhost |-> n.hasGhost,
              spawn |-> n.spawn, placed |-> n.placed]
  BY DEF ServedTo
<1>9. n \in Servers(n.moved, n.ghost, n.spawn)
  BY <1>1, <1>2, <1>3, <1>5, <1>6, <1>8 DEF Servers
<1> QED
  BY <1>1, <1>4, <1>7, <1>8, <1>9 DEF Formed

-----------------------------------------------------------------------------
(***************************************************************************)
(* The turns of a tick, one after the other.                               *)
(***************************************************************************)
LEMMA OrderIs ==
  /\ Len(Order) \in Nat
  /\ \A i \in 1 .. Len(Order) : Order[i] \in Actors
  /\ \A a \in Actors : \E i \in 1 .. Len(Order) : Order[i] = a
<1>1. Order \in Seq(Actors) /\ Range(Order) = Actors
  BY ConstantsAssumption
<1>2. Len(Order) \in Nat /\ DOMAIN Order = 1 .. Len(Order)
  BY <1>1
<1> QED
  BY <1>1, <1>2 DEF Range

\* The world after a turn follows from the world before it.
LEMMA TurnsFollow ==
  ASSUME NEW s, NEW t
  PROVE  /\ AfterTurns(s, t)[0] = s
         /\ \A i \in 1 .. Len(Order) : AfterTurns(s, t)[i] = Served(AfterTurns(s, t)[i - 1], Order[i], t)
<1> DEFINE Step(i, w) == Served(w, Order[i], t)
           IsIt(f, n) == f = [i \in 0 .. n |-> IF i = 0 THEN s ELSE Step(i, f[i - 1])]
           Bad == {n \in Nat : ~\E f : IsIt(f, n)}
           N == Len(Order)
           turns == AfterTurns(s, t)
<1>1. turns = CHOOSE f : IsIt(f, N)
  BY DEF AfterTurns
<1> HIDE DEF Step
<1>2. \E f : IsIt(f, 0)
  <2> DEFINE f == [i \in 0 .. 0 |-> s]
  <2>1. IsIt(f, 0)
    OBVIOUS
  <2> QED
    BY <2>1
<1>3. ASSUME NEW n \in Nat \ {0}, NEW f, IsIt(f, n - 1) PROVE \E g : IsIt(g, n)
  <2> DEFINE g == [i \in 0 .. n |-> IF i = n THEN Step(n, f[n - 1]) ELSE f[i]]
  <2>1. ASSUME NEW i \in 0 .. n PROVE g[i] = IF i = 0 THEN s ELSE Step(i, g[i - 1])
    <3>1. CASE i = n
      <4>1. g[i - 1] = f[n - 1]
        BY <3>1
      <4> QED
        BY <3>1, <4>1
    <3>2. CASE i # n
      <4>1. i \in 0 .. n - 1 /\ g[i] = f[i]
        BY <3>2
      <4>2. f[i] = IF i = 0 THEN s ELSE Step(i, f[i - 1])
        BY <1>3, <4>1
      <4>3. i # 0 => g[i - 1] = f[i - 1]
        BY <4>1
      <4> QED
        BY <4>1, <4>2, <4>3
    <3> QED
      BY <3>1, <3>2
  <2>2. g = [i \in 0 .. n |-> g[i]]
    OBVIOUS
  <2> HIDE DEF g
  <2>3. IsIt(g, n)
    BY <2>1, <2>2
  <2> QED
    BY <2>3
<1>4. \E f : IsIt(f, N)
  <2> SUFFICES ASSUME ~\E f : IsIt(f, N) PROVE FALSE
    OBVIOUS
  <2> HIDE DEF IsIt
  <2>1. N \in Bad
    BY OrderIs
  <2>2. Bad \in SUBSET Nat /\ Bad # {}
    BY <2>1
  <2>3. PICK n \in Bad : \A k \in Bad : n <= k
    <3> HIDE DEF Bad
    <3> QED
      BY <2>2, LeastNatural
  <2>4. n \in Nat \ {0}
    BY <1>2
  <2>5. n - 1 \notin Bad
    BY <2>3, <2>4
  <2>6. PICK f : IsIt(f, n - 1)
    BY <2>4, <2>5
  <2> QED
    BY <1>3, <2>4, <2>6
<1>5. IsIt(turns, N)
  <2> HIDE DEF IsIt
  <2> QED
    BY <1>1, <1>4
<1>6. ASSUME NEW i \in 0 .. N PROVE turns[i] = IF i = 0 THEN s ELSE Step(i, turns[i - 1])
  <2> HIDE DEF turns, N
  <2> QED
    BY <1>5
<1>7. turns[0] = s
  <2>1. 0 \in 0 .. N
    BY OrderIs
  <2> HIDE DEF turns, N
  <2> QED
    BY <1>6, <2>1
<1>8. ASSUME NEW i \in 1 .. N PROVE turns[i] = Step(i, turns[i - 1])
  <2>1. i \in 0 .. N /\ i # 0
    BY OrderIs
  <2> HIDE DEF turns, N
  <2> QED
    BY <1>6, <2>1
<1> QED
  BY <1>7, <1>8 DEF Step

\* What the turns of a tick leave alone, and what they may have applied and logged.
Lasts(s, w, t) ==
  /\ w.control \in SUBSET s.control /\ w.pending \in SUBSET s.pending
  /\ w.timer = s.timer /\ w.ghost = s.ghost /\ w.since = s.since
  /\ w.appliedControl = s.appliedControl /\ w.hasGhost = s.hasGhost
  /\ \A a \in Actors :
       /\ s.applied[a] <= w.applied[a]
       /\ w.applied[a] = s.applied[a] \/ \E c \in Of(s.pending, a) : w.applied[a] = c.seq
  /\ \A e \in w.log \ s.log :
       /\ e.track = "authoritative" /\ e.tick = t /\ e.command \in s.pending
       /\ e.command.seq <= w.applied[e.command.actor]

Turned(s, w, t) == Formed(w) /\ Fresh(w) /\ Lasts(s, w, t)

LEMMA AppliedInNat ==
  ASSUME NEW s, Formed(s)
  PROVE  \A a \in Actors : s.applied[a] \in Nat
BY DEF Formed, Servers

LEMMA SeqsInNat ==
  ASSUME NEW s, Formed(s)
  PROVE  \A c \in s.pending : c.seq \in Nat /\ c.actor \in Actors
BY DEF Formed, Servers, Commands

LEMMA TurnKept ==
  ASSUME NEW s, Formed(s), NEW w, NEW t \in Nat, Turned(s, w, t),
         NEW a \in Actors, NEW n, ServedTo(w, a, t, n)
  PROVE  Turned(s, n, t)
<1>1. Formed(w) /\ Fresh(w) /\ Lasts(s, w, t)
  BY DEF Turned
<1>2. Formed(n) /\ Fresh(n)
  BY <1>1, ServedFormed
<1>3. /\ \A b \in Actors \ {a} : n.applied[b] = w.applied[b]
      /\ w.applied[a] <= n.applied[a]
      /\ n.applied[a] = w.applied[a] \/ \E c \in Of(w.pending, a) : n.applied[a] = c.seq
      /\ w.health[a] # Dead => \A c \in Of(w.pending, a) : c.seq <= n.applied[a]
  BY <1>1, ServedApplied
<1>4. /\ \A b \in Actors : s.applied[b] \in Nat
      /\ \A b \in Actors : w.applied[b] \in Nat
      /\ \A b \in Actors : n.applied[b] \in Nat
  BY <1>1, <1>2, AppliedInNat
<1>5. w.pending \in SUBSET s.pending /\ w.pending \in SUBSET Commands /\ w.log \in SUBSET Events
  BY <1>1 DEF Lasts, Formed, Servers
<1>6. /\ \A b \in Actors : s.applied[b] <= w.applied[b]
      /\ \A b \in Actors : w.applied[b] = s.applied[b] \/ \E c \in Of(s.pending, b) : w.applied[b] = c.seq
  BY <1>1 DEF Lasts
<1>7. ASSUME NEW b \in Actors
      PROVE  /\ s.applied[b] <= n.applied[b]
             /\ n.applied[b] = s.applied[b] \/ \E c \in Of(s.pending, b) : n.applied[b] = c.seq
             /\ w.applied[b] <= n.applied[b]
  <2>1. CASE b # a
    <3>1. n.applied[b] = w.applied[b]
      BY <1>3, <2>1
    <3> QED
      BY <1>4, <1>6, <3>1
  <2>2. CASE b = a
    <3>1. s.applied[a] <= w.applied[a] /\ w.applied[a] <= n.applied[a]
      BY <1>3, <1>6
    <3>2. Of(w.pending, a) \subseteq Of(s.pending, a)
      BY <1>5 DEF Of
    <3>3. s.applied[a] <= n.applied[a]
      BY <1>4, <3>1
    <3>4. n.applied[a] = s.applied[a] \/ \E c \in Of(s.pending, a) : n.applied[a] = c.seq
      BY <1>3, <1>6, <3>2, Zenon
    <3> QED
      BY <2>2, <3>1, <3>3, <3>4
  <2> QED
    BY <2>1, <2>2
<1>8. n.log = IF w.health[a] = Dead THEN w.log
              ELSE w.log \cup Log("authoritative", t, Of(w.pending, a))
  BY DEF ServedTo
<1>9. ASSUME NEW e \in n.log \ s.log
      PROVE  /\ e.track = "authoritative" /\ e.tick = t /\ e.command \in s.pending
             /\ e.command.seq <= n.applied[e.command.actor]
  <2>1. CASE e \in w.log
    <3>1. /\ e.track = "authoritative" /\ e.tick = t /\ e.command \in s.pending
          /\ e.command.seq <= w.applied[e.command.actor]
      BY <1>1, <2>1 DEF Lasts
    <3>2. e.command.actor \in Actors /\ e.command.seq \in Nat
      BY <1>5, <2>1 DEF Events, Commands
    <3>3. w.applied[e.command.actor] <= n.applied[e.command.actor]
      BY <1>7, <3>2
    <3> QED
      BY <1>4, <3>1, <3>2, <3>3
  <2>2. CASE e \notin w.log
    <3>1. w.health[a] # Dead /\ e \in Log("authoritative", t, Of(w.pending, a))
      BY <1>8, <2>2
    <3>2. PICK c \in Of(w.pending, a) : e = Event("authoritative", t, c)
      BY <3>1 DEF Log
    <3>3. e.track = "authoritative" /\ e.tick = t /\ e.command = c
      BY <3>2 DEF Event
    <3>4. c \in s.pending /\ c.actor = a
      BY <1>5 DEF Of
    <3>5. c.seq <= n.applied[a]
      BY <1>3, <3>1
    <3> QED
      BY <3>3, <3>4, <3>5
  <2> QED
    BY <2>1, <2>2
<1>10. n.pending \in SUBSET w.pending
  <2>1. n.pending = Others(w.pending, a)
    BY DEF ServedTo
  <2> QED
    BY <2>1 DEF Others
<1>11. /\ n.control \in SUBSET s.control /\ n.pending \in SUBSET s.pending
       /\ n.timer = s.timer /\ n.ghost = s.ghost /\ n.since = s.since
       /\ n.appliedControl = s.appliedControl /\ n.hasGhost = s.hasGhost
  BY <1>1, <1>5, <1>10 DEF ServedTo, Lasts
<1>12. Lasts(s, n, t)
  BY <1>7, <1>9, <1>11 DEF Lasts
<1> QED
  BY <1>2, <1>12 DEF Turned

LEMMA StillTurned ==
  ASSUME NEW s, Formed(s), Fresh(s), NEW t
  PROVE  Turned(s, s, t)
<1>1. \A a \in Actors : s.applied[a] <= s.applied[a]
  BY AppliedInNat
<1>2. s.log \ s.log = {}
  OBVIOUS
<1> QED
  BY <1>1, <1>2 DEF Turned, Lasts

\* After any number of turns.
LEMMA TurnsKept ==
  ASSUME NEW s, Formed(s), Fresh(s), NEW t \in Nat, NEW i \in 0 .. Len(Order)
  PROVE  Turned(s, AfterTurns(s, t)[i], t)
<1> DEFINE turns == AfterTurns(s, t)
           N == Len(Order)
           Bad == {j \in Nat : j <= N /\ ~Turned(s, turns[j], t)}
<1>1. N \in Nat /\ \A j \in 1 .. N : Order[j] \in Actors
  BY OrderIs
<1>2. turns[0] = s /\ \A j \in 1 .. N : turns[j] = Served(turns[j - 1], Order[j], t)
  BY TurnsFollow
<1>3. i \in 0 .. N
  OBVIOUS
<1> HIDE DEF turns, N
<1> SUFFICES ASSUME ~Turned(s, turns[i], t) PROVE FALSE
  BY DEF turns
<1>4. Bad \in SUBSET Nat /\ Bad # {}
  <2>1. i \in Bad
    BY <1>1, <1>3
  <2> QED
    BY <2>1
<1>5. PICK j \in Bad : \A k \in Bad : j <= k
  <2> HIDE DEF Bad
  <2> QED
    BY <1>4, LeastNatural
<1>6. j # 0
  <2>1. Turned(s, s, t)
    BY StillTurned
  <2> QED
    BY <1>2, <2>1
<1>7. j \in 1 .. N /\ j - 1 \in Nat /\ j - 1 <= N
  BY <1>1, <1>6
<1>8. Turned(s, turns[j - 1], t)
  <2>1. j - 1 \notin Bad
    BY <1>5, <1>7
  <2> QED
    BY <1>7, <2>1
<1>9. turns[j] = Served(turns[j - 1], Order[j], t) /\ Order[j] \in Actors
  BY <1>1, <1>2, <1>7
<1>10. Formed(turns[j - 1]) /\ Fresh(turns[j - 1])
  BY <1>8 DEF Turned
<1>11. ServedTo(turns[j - 1], Order[j], t, turns[j])
  BY <1>9, <1>10, ServedIs
<1>12. Turned(s, turns[j], t)
  BY <1>8, <1>9, <1>11, TurnKept
<1> QED
  BY <1>12

\* The turns, as turns of worlds that are formed.
LEMMA TurnsServe ==
  ASSUME NEW s, Formed(s), Fresh(s), NEW t \in Nat, NEW i \in 1 .. Len(Order)
  PROVE  /\ Formed(AfterTurns(s, t)[i - 1]) /\ Fresh(AfterTurns(s, t)[i - 1])
         /\ ServedTo(AfterTurns(s, t)[i - 1], Order[i], t, AfterTurns(s, t)[i])
<1>1. i - 1 \in 0 .. Len(Order) /\ Order[i] \in Actors
  BY OrderIs
<1>2. Formed(AfterTurns(s, t)[i - 1]) /\ Fresh(AfterTurns(s, t)[i - 1])
  BY <1>1, TurnsKept DEF Turned
<1>3. AfterTurns(s, t)[i] = Served(AfterTurns(s, t)[i - 1], Order[i], t)
  BY TurnsFollow
<1> QED
  BY <1>1, <1>2, <1>3, ServedIs

\* Whose queue is empty is done for this tick.
LEMMA StaysServed ==
  ASSUME NEW s, Formed(s), Fresh(s), NEW t \in Nat, NEW a \in Actors,
         NEW i \in 0 .. Len(Order), Of(AfterTurns(s, t)[i].pending, a) = {}, NEW k \in i .. Len(Order)
  PROVE  /\ Of(AfterTurns(s, t)[k].pending, a) = {}
         /\ LogOf(AfterTurns(s, t)[k], a) = LogOf(AfterTurns(s, t)[i], a)
<1> DEFINE turns == AfterTurns(s, t)
           N == Len(Order)
           Good(j) == Of(turns[j].pending, a) = {} /\ LogOf(turns[j], a) = LogOf(turns[i], a)
           Bad == {j \in Nat : i <= j /\ j <= N /\ ~Good(j)}
<1>1. N \in Nat /\ i \in 0 .. N /\ k \in i .. N
  BY OrderIs
<1>2. Good(i)
  OBVIOUS
<1>3. ASSUME NEW j \in 1 .. N, Good(j - 1) PROVE Good(j)
  <2>1. /\ Formed(turns[j - 1]) /\ Fresh(turns[j - 1])
        /\ ServedTo(turns[j - 1], Order[j], t, turns[j])
    BY TurnsServe
  <2>2. Order[j] \in Actors
    BY OrderIs
  <2> HIDE DEF turns
  <2>3. QueuesServed(turns[j - 1], Order[j], turns[j])
    BY <2>1, <2>2, ServedQueues
  <2>4. CASE Order[j] = a
    BY <1>3, <2>3, <2>4 DEF QueuesServed
  <2>5. CASE Order[j] # a
    BY <1>3, <2>3, <2>5 DEF QueuesServed
  <2> QED
    BY <2>4, <2>5
<1> HIDE DEF turns, N, Good
<1> SUFFICES ASSUME ~Good(k) PROVE FALSE
  BY DEF Good, turns
<1>4. Bad \in SUBSET Nat /\ Bad # {}
  <2>1. k \in Bad
    BY <1>1
  <2> QED
    BY <2>1
<1>5. PICK j \in Bad : \A m \in Bad : j <= m
  <2> HIDE DEF Bad
  <2> QED
    BY <1>4, LeastNatural
<1>6. j # i
  BY <1>2
<1>7. j \in 1 .. N /\ j - 1 \in Nat /\ j - 1 <= N /\ i <= j - 1
  BY <1>1, <1>6
<1>8. Good(j - 1)
  <2>1. j - 1 \notin Bad
    BY <1>5, <1>7
  <2> QED
    BY <1>7, <2>1
<1>9. Good(j)
  BY <1>3, <1>7, <1>8
<1> QED
  BY <1>9

\* A turn leaves its actor nothing.
LEMMA OwnTurn ==
  ASSUME NEW s, Formed(s), Fresh(s), NEW t \in Nat, NEW i \in 1 .. Len(Order)
  PROVE  Of(AfterTurns(s, t)[i].pending, Order[i]) = {}
<1>1. /\ Formed(AfterTurns(s, t)[i - 1]) /\ Fresh(AfterTurns(s, t)[i - 1])
      /\ ServedTo(AfterTurns(s, t)[i - 1], Order[i], t, AfterTurns(s, t)[i])
  BY TurnsServe
<1>2. QueuesServed(AfterTurns(s, t)[i - 1], Order[i], AfterTurns(s, t)[i])
  BY <1>1, OrderIs, ServedQueues
<1> QED
  BY <1>2 DEF QueuesServed

\* After all turns nothing is queued.
LEMMA AllServed ==
  ASSUME NEW s, Formed(s), Fresh(s), NEW t \in Nat
  PROVE  AfterTurns(s, t)[Len(Order)].pending = {}
<1> DEFINE w == AfterTurns(s, t)[Len(Order)]
<1>1. Len(Order) \in 0 .. Len(Order)
  BY OrderIs
<1>2. Turned(s, w, t)
  BY <1>1, TurnsKept
<1>3. ASSUME NEW a \in Actors PROVE Of(w.pending, a) = {}
  <2>1. PICK i \in 1 .. Len(Order) : Order[i] = a
    BY OrderIs
  <2>2. Of(AfterTurns(s, t)[i].pending, a) = {}
    BY <2>1, OwnTurn
  <2>3. i \in 0 .. Len(Order) /\ Len(Order) \in i .. Len(Order)
    BY OrderIs
  <2> QED
    BY <2>2, <2>3, StaysServed
<1>4. \A c \in w.pending : c.actor \in Actors
  <2> HIDE DEF w
  <2> QED
    BY <1>2, SeqsInNat DEF Turned
<1>5. \A c \in w.pending : c \in Of(w.pending, c.actor)
  BY DEF Of
<1> HIDE DEF w
<1>6. w.pending = {}
  BY <1>3, <1>4, <1>5
<1> QED
  BY <1>6 DEF w

\* What an actor has in common in two worlds, one of which has queued what the other
\* is going to have applied: either it is done in both, or in none.
Alike(s, r, all, a) ==
  \/ Of(s.pending, a) = {} /\ Of(r.pending, a) = {}
  \/ LogOf(s, a) = {} /\ Of(r.pending, a) = all

Twins(s, r) == s.moved = r.moved /\ s.health = r.health
SameTurn(s, r, a) == s.health[a] # Dead => Of(s.pending, a) = Of(r.pending, a)

\* Two worlds in which the same actor is served with the same commands stay the same.
LEMMA TwinsServed ==
  ASSUME NEW s, NEW r, NEW a \in Actors, NEW t, NEW n, NEW m, ServedTo(s, a, t, n), ServedTo(r, a, t, m),
         Twins(s, r), SameTurn(s, r, a)
  PROVE  Twins(n, m)
<1>1. /\ n.moved = IF s.health[a] = Dead THEN s.moved
                   ELSE [s.moved EXCEPT ![a] = Moved(@, Of(s.pending, a))]
      /\ n.health = IF s.health[a] = Dead THEN s.health ELSE Felled(s.health, a, Of(s.pending, a))
  BY DEF ServedTo
<1>2. /\ m.moved = IF r.health[a] = Dead THEN r.moved
                   ELSE [r.moved EXCEPT ![a] = Moved(@, Of(r.pending, a))]
      /\ m.health = IF r.health[a] = Dead THEN r.health ELSE Felled(r.health, a, Of(r.pending, a))
  BY DEF ServedTo
<1>3. s.moved = r.moved /\ s.health = r.health
  BY DEF Twins
<1>4. CASE s.health[a] = Dead
  BY <1>1, <1>2, <1>3, <1>4 DEF Twins
<1>5. CASE s.health[a] # Dead
  <2>1. Of(s.pending, a) = Of(r.pending, a)
    BY <1>5 DEF SameTurn
  <2> QED
    BY <1>1, <1>2, <1>3, <1>5, <2>1 DEF Twins
<1> QED
  BY <1>4, <1>5

\* A playback that has queued what the server is going to have applied at this tick goes the
\* way of the server, whoever is felled before his turn.
LEMMA TwinsStay ==
  ASSUME NEW s, Formed(s), Fresh(s), s.log = {}, NEW r, Formed(r), Fresh(r), Twins(s, r), NEW t \in Nat,
         \A a \in Actors : Of(r.pending, a) = LogOf(AfterTurns(s, t)[Len(Order)], a)
  PROVE  Twins(AfterTurns(s, t)[Len(Order)], AfterTurns(r, t)[Len(Order)])
<1> DEFINE S == AfterTurns(s, t)
           R == AfterTurns(r, t)
           N == Len(Order)
           all(a) == LogOf(S[N], a)
           Good(i) == Twins(S[i], R[i]) /\ \A a \in Actors : Alike(S[i], R[i], all(a), a)
           Bad == {i \in Nat : i <= N /\ ~Good(i)}
<1>1. N \in Nat
  BY OrderIs
<1>2. Good(0)
  <2>1. S[0] = s /\ R[0] = r
    BY TurnsFollow
  <2>2. \A a \in Actors : LogOf(s, a) = {}
    BY DEF LogOf
  <2> HIDE DEF S, R
  <2> QED
    BY <2>1, <2>2 DEF Alike, S
<1>3. ASSUME NEW i \in 1 .. N, Good(i - 1) PROVE Good(i)
  <2> DEFINE a == Order[i]
  <2>1. /\ Formed(S[i - 1]) /\ Fresh(S[i - 1])
        /\ ServedTo(S[i - 1], a, t, S[i])
    BY TurnsServe
  <2>2. /\ Formed(R[i - 1]) /\ Fresh(R[i - 1])
        /\ ServedTo(R[i - 1], a, t, R[i])
    BY TurnsServe
  <2>3. a \in Actors
    BY OrderIs
  <2>4. Of(S[i].pending, a) = {} => all(a) = LogOf(S[i], a)
    <3>1. i \in 0 .. N /\ N \in i .. N
      BY <1>1
    <3> QED
      BY <2>3, <3>1, StaysServed
  <2> HIDE DEF a, S, R, N, all
  <2>5. QueuesServed(S[i - 1], a, S[i])
    BY <2>1, <2>3, ServedQueues
  <2>6. QueuesServed(R[i - 1], a, R[i])
    BY <2>2, <2>3, ServedQueues
  <2>7. Alike(S[i - 1], R[i - 1], all(a), a)
    BY <1>3, <2>3
  <2>8. SameTurn(S[i - 1], R[i - 1], a)
    <3>1. CASE Of(S[i - 1].pending, a) = {} /\ Of(R[i - 1].pending, a) = {}
      BY <3>1 DEF SameTurn
    <3>2. CASE LogOf(S[i - 1], a) = {} /\ Of(R[i - 1].pending, a) = all(a)
      BY <2>4, <2>5, <3>2 DEF QueuesServed, SameTurn
    <3> QED
      BY <2>7, <3>1, <3>2 DEF Alike
  <2>9. Twins(S[i], R[i])
    <3>1. Twins(S[i - 1], R[i - 1])
      BY <1>3
    <3> QED
      BY <2>1, <2>2, <2>3, <2>8, <3>1, TwinsServed
  <2>10. ASSUME NEW b \in Actors PROVE Alike(S[i], R[i], all(b), b)
    <3>1. CASE b = a
      BY <2>5, <2>6, <3>1 DEF QueuesServed, Alike
    <3>2. CASE b # a
      <4>1. Alike(S[i - 1], R[i - 1], all(b), b)
        BY <1>3
      <4>2. /\ Of(S[i].pending, b) = Of(S[i - 1].pending, b) /\ LogOf(S[i], b) = LogOf(S[i - 1], b)
            /\ Of(R[i].pending, b) = Of(R[i - 1].pending, b)
        BY <2>5, <2>6, <3>2 DEF QueuesServed
      <4> QED
        BY <4>1, <4>2 DEF Alike
    <3> QED
      BY <3>1, <3>2
  <2> QED
    BY <2>9, <2>10
<1> HIDE DEF S, R, N, Good
<1> SUFFICES ASSUME ~Good(N) PROVE FALSE
  BY DEF Good, S, R, N
<1>4. Bad \in SUBSET Nat /\ Bad # {}
  <2>1. N \in Bad
    BY <1>1
  <2> QED
    BY <2>1
<1>5. PICK i \in Bad : \A k \in Bad : i <= k
  <2> HIDE DEF Bad
  <2> QED
    BY <1>4, LeastNatural
<1>6. i # 0
  BY <1>2
<1>7. i \in 1 .. N /\ i - 1 \in Nat /\ i - 1 <= N
  BY <1>1, <1>6
<1>8. Good(i - 1)
  <2>1. i - 1 \notin Bad
    BY <1>5, <1>7
  <2> QED
    BY <1>7, <2>1
<1>9. Good(i)
  BY <1>3, <1>7, <1>8
<1> QED
  BY <1>9

-----------------------------------------------------------------------------
(***************************************************************************)
(* A step of the world.                                                    *)
(***************************************************************************)
Timer(health, timer) ==
  [a \in Actors |-> IF health[a] = Dead /\ timer[a] + 1 < RespawnTicks THEN timer[a] + 1 ELSE 0]
IsUp(health, timer, a) == health[a] = Dead /\ timer[a] + 1 >= RespawnTicks

\* A world after the respawns, whatever they were.
RespawnedTo(w, n) ==
  /\ n.timer = Timer(w.health, w.timer)
  /\ n.health = [a \in Actors |-> IF IsUp(w.health, w.timer, a) THEN Full ELSE w.health[a]]
  /\ n.moved = [a \in Actors |-> IF IsUp(w.health, w.timer, a) THEN w.spawn[a] ELSE w.moved[a]]
  /\ n.pending \in SUBSET w.pending /\ n.control \in SUBSET w.control /\ n.hasGhost \in SUBSET w.hasGhost
  /\ n.log = w.log /\ n.applied = w.applied /\ n.ghost = w.ghost /\ n.since = w.since
  /\ n.appliedControl = w.appliedControl /\ n.spawn = w.spawn
  /\ n.placed = {a \in Actors : IsUp(w.health, w.timer, a)}
  /\ n = [moved |-> n.moved, health |-> n.health, timer |-> n.timer, pending |-> n.pending,
          log |-> n.log, applied |-> n.applied, control |-> n.control, ghost |-> n.ghost,
          since |-> n.since, appliedControl |-> n.appliedControl, hasGhost |-> n.hasGhost,
          spawn |-> n.spawn, placed |-> n.placed]

LEMMA RespawnTicksIs == RespawnTicks \in Nat \ {0}
BY ConstantsAssumption

LEMMA RespawnedIs ==
  ASSUME NEW w, Formed(w)
  PROVE  RespawnedTo(w, Respawned(w))
<1> DEFINE n == Respawned(w)
           down == {a \in Actors : w.health[a] = Dead}
           up == {a \in down : w.timer[a] + 1 >= RespawnTicks}
           timer == [a \in Actors |-> IF a \in down \ up THEN w.timer[a] + 1 ELSE 0]
           health == [a \in Actors |-> IF a \in up THEN Full ELSE w.health[a]]
           moved == [a \in Actors |-> IF a \in up THEN w.spawn[a] ELSE w.moved[a]]
           left == {c \in w.pending : c.actor \notin down}
           control == {c \in w.control : c.actor \notin down}
           hasGhost == w.hasGhost \ down
<1>1. w \in Servers(w.moved, w.ghost, w.spawn)
  BY DEF Formed
<1>2. n = [w EXCEPT !.timer = timer, !.pending = left, !.control = control, !.hasGhost = hasGhost,
                    !.placed = up, !.health = health, !.moved = moved]
  BY <1>1 DEF Respawned, Servers
<1>3. \A a \in Actors : w.timer[a] + 1 \in Int /\ RespawnTicks \in Int
  BY <1>1, RespawnTicksIs DEF Servers
<1>4. timer = Timer(w.health, w.timer)
  BY <1>3 DEF Timer
<1>5. \A a \in Actors : a \in up <=> IsUp(w.health, w.timer, a)
  BY DEF IsUp
<1>6. /\ health = [a \in Actors |-> IF IsUp(w.health, w.timer, a) THEN Full ELSE w.health[a]]
      /\ moved = [a \in Actors |-> IF IsUp(w.health, w.timer, a) THEN w.spawn[a] ELSE w.moved[a]]
  BY <1>5
<1>7. left \in SUBSET w.pending /\ control \in SUBSET w.control /\ hasGhost \in SUBSET w.hasGhost
  OBVIOUS
<1>9. up = {a \in Actors : IsUp(w.health, w.timer, a)}
  BY DEF IsUp
<1> SUFFICES RespawnedTo(w, n)
  OBVIOUS
<1> HIDE DEF n, timer, health, moved, left, control, hasGhost, up
<1>8. /\ n.timer = timer /\ n.health = health /\ n.moved = moved /\ n.pending = left
      /\ n.control = control /\ n.hasGhost = hasGhost
      /\ n.log = w.log /\ n.applied = w.applied /\ n.ghost = w.ghost /\ n.since = w.since
      /\ n.appliedControl = w.appliedControl /\ n.spawn = w.spawn /\ n.placed = up
      /\ n = [moved |-> n.moved, health |-> n.health, timer |-> n.timer, pending |-> n.pending,
              log |-> n.log, applied |-> n.applied, control |-> n.control, ghost |-> n.ghost,
              since |-> n.since, appliedControl |-> n.appliedControl, hasGhost |-> n.hasGhost,
              spawn |-> n.spawn, placed |-> n.placed]
  BY <1>1, <1>2 DEF Servers
<1> QED
  BY <1>4, <1>6, <1>7, <1>8, <1>9 DEF RespawnedTo

LEMMA RespawnedFormed ==
  ASSUME NEW w, Formed(w), NEW n, RespawnedTo(w, n)
  PROVE  Formed(n)
<1>1. w \in Servers(w.moved, w.ghost, w.spawn) /\ OnActors(w.ghost)
  BY DEF Formed
<1>2. n.timer \in [Actors -> Nat]
  <2>1. \A a \in Actors : w.timer[a] + 1 \in Nat
    BY <1>1 DEF Servers
  <2>2. n.timer = Timer(w.health, w.timer)
    BY DEF RespawnedTo
  <2> QED
    BY <2>1, <2>2 DEF Timer
<1>3. n.health \in [Actors -> {Dead, Full}]
  <2>1. n.health = [a \in Actors |-> IF IsUp(w.health, w.timer, a) THEN Full ELSE w.health[a]]
    BY DEF RespawnedTo
  <2> QED
    BY <1>1, <2>1 DEF Servers
<1>4. OnActors(n.moved)
  <2>1. n.moved = [a \in Actors |-> IF IsUp(w.health, w.timer, a) THEN w.spawn[a] ELSE w.moved[a]]
    BY DEF RespawnedTo
  <2> QED
    BY <2>1 DEF OnActors
<1>6. n.placed \in SUBSET Actors
  BY DEF RespawnedTo
<1>5. n \in Servers(n.moved, n.ghost, n.spawn) /\ n.ghost = w.ghost
  BY <1>1, <1>2, <1>3, <1>6 DEF RespawnedTo, Servers
<1> QED
  BY <1>1, <1>4, <1>5 DEF Formed

\* What a step of the world leaves alone, and what it may have applied and logged.
WorldStepped(s, n, t) ==
  /\ Formed(n) /\ n.pending = {} /\ n.control \in SUBSET s.control
  /\ n.ghost = s.ghost /\ n.since = s.since /\ n.appliedControl = s.appliedControl
  /\ \A a \in Actors :
       /\ s.applied[a] <= n.applied[a]
       /\ n.applied[a] = s.applied[a] \/ \E c \in Of(s.pending, a) : n.applied[a] = c.seq
       /\ n.health[a] # Dead => n.timer[a] = 0
  /\ \A e \in n.log \ s.log :
       /\ e.track = "authoritative" /\ e.tick = t /\ e.command \in s.pending
       /\ e.command.seq <= n.applied[e.command.actor]

LEMMA TurnedRespawned ==
  ASSUME NEW s, NEW w, NEW t, Turned(s, w, t), w.pending = {}, NEW n, RespawnedTo(w, n)
  PROVE  WorldStepped(s, n, t)
<1>1. Formed(w) /\ Lasts(s, w, t)
  BY DEF Turned
<1>2. Formed(n)
  BY <1>1, RespawnedFormed
<1>3. n.pending = {} /\ n.control \in SUBSET s.control
  BY <1>1 DEF RespawnedTo, Lasts
<1>4. n.applied = w.applied /\ n.log = w.log
  BY DEF RespawnedTo
<1>5. /\ \A a \in Actors :
           /\ s.applied[a] <= n.applied[a]
           /\ n.applied[a] = s.applied[a] \/ \E c \in Of(s.pending, a) : n.applied[a] = c.seq
      /\ \A e \in n.log \ s.log :
           /\ e.track = "authoritative" /\ e.tick = t /\ e.command \in s.pending
           /\ e.command.seq <= n.applied[e.command.actor]
  BY <1>1, <1>4 DEF Lasts
<1>6. ASSUME NEW a \in Actors, n.health[a] # Dead PROVE n.timer[a] = 0
  <2>1. n.health[a] = IF IsUp(w.health, w.timer, a) THEN Full ELSE w.health[a]
    BY DEF RespawnedTo
  <2>2. n.timer[a] = IF w.health[a] = Dead /\ w.timer[a] + 1 < RespawnTicks THEN w.timer[a] + 1 ELSE 0
    BY DEF RespawnedTo, Timer
  <2>3. w.timer[a] \in Nat
    BY <1>1 DEF Formed, Servers
  <2>4. CASE IsUp(w.health, w.timer, a)
    BY <2>2, <2>3, <2>4, RespawnTicksIs DEF IsUp
  <2>5. CASE ~IsUp(w.health, w.timer, a)
    BY <1>6, <2>1, <2>2, <2>5
  <2> QED
    BY <2>4, <2>5
<1>7. n.ghost = s.ghost /\ n.since = s.since /\ n.appliedControl = s.appliedControl
  BY <1>1 DEF RespawnedTo, Lasts
<1> QED
  BY <1>2, <1>3, <1>5, <1>6, <1>7 DEF WorldStepped

LEMMA StepWorldIs ==
  ASSUME NEW s, Formed(s), Fresh(s), NEW t \in Nat
  PROVE  WorldStepped(s, StepWorld(s, t), t)
<1> DEFINE w == AfterTurns(s, t)[Len(Order)]
<1>1. Len(Order) \in 0 .. Len(Order)
  BY OrderIs
<1>2. Turned(s, w, t) /\ w.pending = {}
  BY <1>1, TurnsKept, AllServed
<1>3. StepWorld(s, t) = Respawned(w)
  BY DEF StepWorld
<1> HIDE DEF w
<1>4. RespawnedTo(w, Respawned(w))
  BY <1>2, RespawnedIs DEF Turned
<1> QED
  BY <1>2, <1>3, <1>4, TurnedRespawned

Same(s, r) == s.moved = r.moved /\ s.health = r.health /\ s.timer = r.timer

\* The step of a playback that has queued what the server applied is the step of the server,
\* if the server places nobody anew.
LEMMA SameStep ==
  ASSUME NEW s, Formed(s), Fresh(s), s.log = {}, NEW r, Formed(r), Fresh(r), Same(s, r), NEW t \in Nat,
         \A a \in Actors : Of(r.pending, a) = LogOf(StepWorld(s, t), a), StepWorld(s, t).placed = {}
  PROVE  Same(StepWorld(s, t), StepWorld(r, t))
<1> DEFINE w == AfterTurns(s, t)[Len(Order)]
           v == AfterTurns(r, t)[Len(Order)]
<1>1. Len(Order) \in 0 .. Len(Order)
  BY OrderIs
<1>2. Turned(s, w, t) /\ Turned(r, v, t)
  BY <1>1, TurnsKept
<1>3. StepWorld(s, t) = Respawned(w) /\ StepWorld(r, t) = Respawned(v)
  BY DEF StepWorld
<1>4. RespawnedTo(w, Respawned(w)) /\ RespawnedTo(v, Respawned(v))
  <2> HIDE DEF w, v
  <2> QED
    BY <1>2, RespawnedIs DEF Turned
<1>5. ASSUME NEW a \in Actors PROVE Of(r.pending, a) = LogOf(w, a)
  <2> HIDE DEF w, v
  <2>1. StepWorld(s, t).log = w.log
    BY <1>3, <1>4 DEF RespawnedTo
  <2> QED
    BY <2>1 DEF LogOf
<1>6. Twins(w, v)
  BY <1>5, TwinsStay DEF Same, Twins
<1> HIDE DEF w, v
<1>7. w.timer = v.timer /\ w.health = v.health /\ w.moved = v.moved
  BY <1>2, <1>6 DEF Turned, Lasts, Same, Twins
<1>8. \A a \in Actors : ~IsUp(w.health, w.timer, a) /\ ~IsUp(v.health, v.timer, a)
  BY <1>3, <1>4, <1>7 DEF RespawnedTo
<1> QED
  BY <1>3, <1>4, <1>7, <1>8 DEF RespawnedTo, Same

-----------------------------------------------------------------------------
(***************************************************************************)
(* A step of the ghosts, and with it a whole tick.                         *)
(***************************************************************************)
Commanded(events, track, t, a) ==
  {e.command : e \in {e \in events : e.track = track /\ e.tick = t /\ e.command.actor = a}}

\* What waits on the control lane is newer than what was applied there, and has an end.
FreshControl(s) ==
  /\ \A c \in s.control : c.seq > s.appliedControl[c.actor]
  /\ \A a \in Actors : Bounded(s.control, a)

\* A world after the ghosts were set back to their players.
SyncedTo(s, n, t) ==
  /\ n.moved = s.moved /\ n.health = s.health /\ n.timer = s.timer /\ n.applied = s.applied
  /\ n.pending = s.pending /\ n.log = s.log /\ n.control \in SUBSET s.control /\ n.placed = s.placed
  /\ \A a \in Actors :
       \/ n.since[a] = t /\ Of(n.control, a) = {}
       \/ /\ n.since[a] = s.since[a] /\ n.ghost[a] = s.ghost[a]
          /\ Of(n.control, a) = Of(s.control, a) /\ n.appliedControl[a] = s.appliedControl[a]

LEMMA SyncedIs ==
  ASSUME NEW s, Formed(s), FreshControl(s), NEW t \in Nat
  PROVE  Formed(Synced(s, t)) /\ FreshControl(Synced(s, t)) /\ SyncedTo(s, Synced(s, t), t)
<1> DEFINE n == Synced(s, t)
           reset == {a \in Actors : IsReset(s, a)}
           ghost == [a \in Actors |-> IF a \in reset THEN s.moved[a] ELSE s.ghost[a]]
           appliedControl == [a \in Actors |-> IF a \in reset THEN s.applied[a] ELSE s.appliedControl[a]]
           since == [a \in Actors |-> IF a \in reset THEN t ELSE s.since[a]]
           control == {c \in s.control : c.actor \notin reset}
<1>1. s \in Servers(s.moved, s.ghost, s.spawn) /\ OnActors(s.moved)
  BY DEF Formed
<1>2. n = [s EXCEPT !.ghost = ghost, !.appliedControl = appliedControl, !.since = since,
                    !.control = control, !.hasGhost = @ \cup reset]
  BY <1>1 DEF Synced, Servers
<1>3. /\ appliedControl \in [Actors -> Nat] /\ since \in [Actors -> Nat]
      /\ control \in SUBSET s.control /\ control \in SUBSET Commands /\ s.hasGhost \cup reset \in SUBSET Actors
      /\ OnActors(ghost)
  BY <1>1 DEF Servers, OnActors
<1>4. ASSUME NEW a \in Actors
      PROVE  \/ since[a] = t /\ Of(control, a) = {}
             \/ /\ since[a] = s.since[a] /\ ghost[a] = s.ghost[a]
                /\ Of(control, a) = Of(s.control, a) /\ appliedControl[a] = s.appliedControl[a]
  <2>1. CASE a \in reset
    BY <2>1 DEF Of
  <2>2. CASE a \notin reset
    BY <2>2 DEF Of
  <2> QED
    BY <2>1, <2>2
<1>5. \A c \in control : c.seq > appliedControl[c.actor]
  BY <1>3 DEF FreshControl, Commands
<1> HIDE DEF n, ghost, appliedControl, since, control, reset
<1>6. /\ n.moved = s.moved /\ n.health = s.health /\ n.timer = s.timer /\ n.applied = s.applied
      /\ n.pending = s.pending /\ n.log = s.log /\ n.control = control /\ n.ghost = ghost
      /\ n.since = since /\ n.appliedControl = appliedControl /\ n.hasGhost = s.hasGhost \cup reset
      /\ n.spawn = s.spawn /\ n.placed = s.placed
      /\ n = [moved |-> n.moved, health |-> n.health, timer |-> n.timer, pending |-> n.pending,
              log |-> n.log, applied |-> n.applied, control |-> n.control, ghost |-> n.ghost,
              since |-> n.since, appliedControl |-> n.appliedControl, hasGhost |-> n.hasGhost,
              spawn |-> n.spawn, placed |-> n.placed]
  BY <1>1, <1>2 DEF Servers
<1>7. n \in Servers(n.moved, n.ghost, n.spawn)
  BY <1>1, <1>3, <1>6 DEF Servers
<1>8. Formed(n)
  BY <1>1, <1>3, <1>6, <1>7 DEF Formed
<1>9. SyncedTo(s, n, t)
  BY <1>3, <1>4, <1>6 DEF SyncedTo
<1>10. FreshControl(n)
  <2>1. \A a \in Actors : Of(n.control, a) \subseteq Of(s.control, a)
    BY <1>3, <1>6 DEF Of
  <2>2. \A a \in Actors : Bounded(n.control, a)
    BY <2>1 DEF Bounded, FreshControl
  <2> QED
    BY <1>5, <1>6, <2>2 DEF FreshControl
<1> QED
  BY <1>8, <1>9, <1>10 DEF n

\* A world after the step of the ghosts; what it logs is the control commands applied.
GhostsSteppedTo(s, n, t) ==
  /\ Formed(n) /\ n.control = {} /\ n.pending = s.pending /\ n.placed = s.placed
  /\ n.moved = s.moved /\ n.health = s.health /\ n.timer = s.timer /\ n.applied = s.applied
  /\ s.log \subseteq n.log /\ \A e \in n.log \ s.log : e.track = "control" /\ e.tick = t
  /\ \A a \in Actors :
       \/ n.since[a] = t
       \/ /\ n.since[a] = s.since[a]
          /\ n.ghost[a] = Moved(s.ghost[a], Commanded(n.log \ s.log, "control", t, a))

LEMMA GhostsSteppedIs ==
  ASSUME NEW s, Formed(s), FreshControl(s), NEW t \in Nat, \A e \in s.log : e.track = "authoritative"
  PROVE  GhostsSteppedTo(s, GhostsStepped(s, t), t)
<1> DEFINE synced == Synced(s, t)
<1>1. Formed(synced) /\ FreshControl(synced) /\ SyncedTo(s, synced, t)
  BY SyncedIs
<1> HIDE DEF synced
<1> DEFINE n == GhostsStepped(s, t)
           served(a) == Of(synced.control, a)
           ghost == [a \in Actors |-> Moved(synced.ghost[a], served(a))]
           appliedControl == [a \in Actors |-> Newest(served(a), synced.appliedControl[a])]
           logged == UNION {Log("control", t, served(a)) : a \in Actors}
<1>2. synced \in Servers(synced.moved, synced.ghost, synced.spawn) /\ OnActors(synced.moved) /\ OnActors(synced.ghost)
  BY <1>1 DEF Formed
<1>3. \A a \in Actors : Queue(synced.control, a, synced.appliedControl[a]) = served(a)
  BY <1>1 DEF Queue, FreshControl, Of
<1>4. \A a \in Actors : (Others(synced.control, a) = synced.control) <=> served(a) = {}
  BY DEF Others, Of
<1>5. n = [synced EXCEPT !.ghost = ghost, !.appliedControl = appliedControl, !.log = @ \cup logged,
                         !.control = {}]
  <2> DEFINE queue == [a \in Actors |-> Queue(synced.control, a, synced.appliedControl[a])]
             was == [a \in Actors |-> IF Others(synced.control, a) = synced.control
                                      THEN MovedBy(synced.ghost[a], Idle) ELSE Driven(synced.ghost[a], queue[a])]
             wasApplied == [a \in Actors |-> Newest(queue[a], synced.appliedControl[a])]
             wasLogged == UNION {Log("control", t, queue[a]) : a \in Actors}
  <2>1. n = [synced EXCEPT !.ghost = was, !.appliedControl = wasApplied, !.log = @ \cup wasLogged,
                           !.control = {}]
    BY <1>2 DEF GhostsStepped, synced, Servers
  <2>2. \A a \in Actors : queue[a] = served(a)
    BY <1>3
  <2> HIDE DEF queue, served
  <2>3. was = ghost
    BY <1>4, <2>2 DEF Moved
  <2>4. wasApplied = appliedControl
    BY <2>2
  <2>5. wasLogged = logged
    <3>1. {Log("control", t, queue[a]) : a \in Actors} = {Log("control", t, served(a)) : a \in Actors}
      BY <2>2
    <3> QED
      BY <3>1
  <2> QED
    BY <2>1, <2>3, <2>4, <2>5
<1>6. \A a \in Actors : served(a) \in SUBSET Commands
  BY <1>2 DEF Of, Servers
<1>7. appliedControl \in [Actors -> Nat]
  <2> SUFFICES ASSUME NEW a \in Actors PROVE Newest(served(a), synced.appliedControl[a]) \in Nat
    OBVIOUS
  <2>1. synced.appliedControl[a] \in Nat
    BY <1>2 DEF Servers
  <2>2. PICK m \in Nat : \A c \in served(a) : c.seq <= m
    BY <1>1 DEF FreshControl, Bounded
  <2> HIDE DEF served
  <2> QED
    BY <1>6, <2>1, <2>2, NewestIs
<1>8. ASSUME NEW e \in logged
      PROVE  /\ e \in Events /\ e.track = "control" /\ e.tick = t
             /\ e.command \in served(e.command.actor)
  <2>1. PICK a \in Actors : e \in Log("control", t, served(a))
    OBVIOUS
  <2>2. PICK c \in served(a) : e = Event("control", t, c)
    BY <2>1 DEF Log
  <2>3. c.actor = a /\ c \in Commands
    BY <1>6 DEF Of
  <2> HIDE DEF served
  <2> QED
    BY <2>2, <2>3 DEF Event, Events, Tracks
<1>9. ASSUME NEW a \in Actors PROVE Commanded(logged, "control", t, a) = served(a)
  <2>1. ASSUME NEW c \in served(a) PROVE c \in Commanded(logged, "control", t, a)
    <3>1. Event("control", t, c) \in logged
      BY DEF Log
    <3>2. c.actor = a
      BY DEF Of
    <3>3. Event("control", t, c).command = c /\ Event("control", t, c).track = "control"
          /\ Event("control", t, c).tick = t
      BY DEF Event
    <3> HIDE DEF served, logged
    <3> QED
      BY <3>1, <3>2, <3>3 DEF Commanded
  <2>2. ASSUME NEW c \in Commanded(logged, "control", t, a) PROVE c \in served(a)
    <3>1. PICK e \in logged : e.command = c /\ e.command.actor = a
      BY DEF Commanded
    <3>2. e.command \in served(e.command.actor)
      BY <1>8
    <3> QED
      BY <3>1, <3>2
  <2> QED
    BY <2>1, <2>2
<1>10. OnActors(ghost)
  BY DEF OnActors
<1> SUFFICES GhostsSteppedTo(s, n, t)
  OBVIOUS
<1>11. \A a \in Actors : ghost[a] = Moved(synced.ghost[a], served(a))
  OBVIOUS
<1> HIDE DEF n, ghost, appliedControl, logged
<1>12. /\ n.moved = synced.moved /\ n.health = synced.health /\ n.timer = synced.timer
       /\ n.applied = synced.applied /\ n.pending = synced.pending /\ n.log = synced.log \cup logged
       /\ n.control = {} /\ n.ghost = ghost /\ n.since = synced.since
       /\ n.appliedControl = appliedControl /\ n.hasGhost = synced.hasGhost
       /\ n.spawn = synced.spawn /\ n.placed = synced.placed
       /\ n = [moved |-> n.moved, health |-> n.health, timer |-> n.timer, pending |-> n.pending,
               log |-> n.log, applied |-> n.applied, control |-> n.control, ghost |-> n.ghost,
               since |-> n.since, appliedControl |-> n.appliedControl, hasGhost |-> n.hasGhost,
               spawn |-> n.spawn, placed |-> n.placed]
  BY <1>2, <1>5 DEF Servers
<1>13. n.log \in SUBSET Events
  BY <1>2, <1>8, <1>12 DEF Servers
<1>14. n \in Servers(n.moved, n.ghost, n.spawn)
  BY <1>2, <1>7, <1>12, <1>13 DEF Servers
<1>15. Formed(n)
  BY <1>2, <1>10, <1>12, <1>14 DEF Formed
<1>16. /\ synced.moved = s.moved /\ synced.health = s.health /\ synced.timer = s.timer
       /\ synced.applied = s.applied /\ synced.pending = s.pending /\ synced.log = s.log
       /\ synced.placed = s.placed
  BY <1>1 DEF SyncedTo
<1>17. n.log \ s.log = logged
  <2>1. \A e \in logged : e \notin s.log
    BY <1>8
  <2> QED
    BY <1>12, <1>16, <2>1
<1>18. ASSUME NEW a \in Actors
       PROVE  \/ n.since[a] = t
              \/ /\ n.since[a] = s.since[a]
                 /\ n.ghost[a] = Moved(s.ghost[a], Commanded(n.log \ s.log, "control", t, a))
  <2>1. Commanded(n.log \ s.log, "control", t, a) = served(a)
    BY <1>9, <1>17
  <2>2. n.since[a] = synced.since[a] /\ n.ghost[a] = Moved(synced.ghost[a], served(a))
    BY <1>11, <1>12
  <2>3. synced.since[a] = t \/ (synced.since[a] = s.since[a] /\ synced.ghost[a] = s.ghost[a])
    BY <1>1 DEF SyncedTo
  <2> HIDE DEF served
  <2> QED
    BY <2>1, <2>2, <2>3
<1>19. s.log \subseteq n.log /\ \A e \in n.log \ s.log : e.track = "control" /\ e.tick = t
  BY <1>8, <1>12, <1>16, <1>17
<1> QED
  BY <1>12, <1>15, <1>16, <1>18, <1>19 DEF GhostsSteppedTo

\* A server after a tick: what it applied is what it logged, and what it logged explains the
\* world it came to from the world it had, unless it placed somebody anew.
Explained(s, n, events, t) ==
  n.placed = {} => \A r : Formed(r) /\ Fresh(r) /\ Same(s, r)
         /\ (\A a \in Actors : Of(r.pending, a) = Commanded(events, "authoritative", t, a))
           => Same(n, StepWorld(r, t))

GhostsExplained(s, n, events, t) ==
  \A a \in Actors :
    \/ n.since[a] = t
    \/ n.since[a] = s.since[a] /\ n.ghost[a] = Moved(s.ghost[a], Commanded(events, "control", t, a))

Ticked(s, n, t) ==
  /\ Formed(n) /\ n.pending = {} /\ n.control = {}
  /\ \A a \in Actors :
       /\ s.applied[a] <= n.applied[a]
       /\ n.applied[a] = s.applied[a] \/ \E c \in Of(s.pending, a) : n.applied[a] = c.seq
       /\ n.health[a] # Dead => n.timer[a] = 0
  /\ \A e \in n.log :
       /\ e.tick = t
       /\ e.track = "authoritative" => e.command \in s.pending /\ e.command.seq <= n.applied[e.command.actor]

LEMMA TickIs ==
  ASSUME NEW s, Formed(s), Fresh(s), FreshControl(s), s.log = {}, NEW t \in Nat
  PROVE  \E n : /\ n = GhostsStepped(StepWorld(s, t), t) /\ Ticked(s, n, t)
                /\ Explained(s, n, n.log, t) /\ GhostsExplained(s, n, n.log, t)
<1> DEFINE w == StepWorld(s, t)
           n == GhostsStepped(w, t)
<1>1. WorldStepped(s, w, t)
  BY StepWorldIs
<1> HIDE DEF w
<1>2. /\ Formed(w) /\ w.pending = {} /\ w.control \in SUBSET s.control
      /\ w.ghost = s.ghost /\ w.since = s.since /\ w.appliedControl = s.appliedControl
      /\ \A e \in w.log : /\ e.track = "authoritative" /\ e.tick = t /\ e.command \in s.pending
                          /\ e.command.seq <= w.applied[e.command.actor]
  BY <1>1 DEF WorldStepped
<1>3. FreshControl(w)
  <2>1. \A a \in Actors : Of(w.control, a) \subseteq Of(s.control, a)
    BY <1>2 DEF Of
  <2>2. \A a \in Actors : Bounded(w.control, a)
    BY <2>1 DEF FreshControl, Bounded
  <2> QED
    BY <1>2, <2>2 DEF FreshControl
<1>4. GhostsSteppedTo(w, n, t)
  BY <1>2, <1>3, GhostsSteppedIs
<1> HIDE DEF n
<1>5. /\ Formed(n) /\ n.control = {} /\ n.pending = {}
      /\ n.moved = w.moved /\ n.health = w.health /\ n.timer = w.timer /\ n.applied = w.applied
      /\ n.placed = w.placed
      /\ w.log \subseteq n.log /\ \A e \in n.log \ w.log : e.track = "control" /\ e.tick = t
  BY <1>2, <1>4 DEF GhostsSteppedTo
<1>6. ASSUME NEW e \in n.log
      PROVE  /\ e.tick = t
             /\ e.track = "authoritative" => e.command \in s.pending /\ e.command.seq <= n.applied[e.command.actor]
  <2>1. CASE e \in w.log
    BY <1>2, <1>5, <2>1
  <2>2. CASE e \notin w.log
    BY <1>5, <2>2
  <2> QED
    BY <2>1, <2>2
<1>7. ASSUME NEW a \in Actors PROVE Commanded(n.log, "control", t, a) = Commanded(n.log \ w.log, "control", t, a)
  BY <1>2, <1>5 DEF Commanded
<1>8. ASSUME NEW a \in Actors PROVE Commanded(n.log, "authoritative", t, a) = LogOf(w, a)
  <2>1. {e \in n.log : e.track = "authoritative" /\ e.tick = t /\ e.command.actor = a}
          = {e \in w.log : e.command.actor = a}
    BY <1>2, <1>5
  <2> QED
    BY <2>1 DEF Commanded, LogOf
<1>9. Ticked(s, n, t)
  <2>1. \A a \in Actors :
          /\ s.applied[a] <= n.applied[a]
          /\ n.applied[a] = s.applied[a] \/ \E c \in Of(s.pending, a) : n.applied[a] = c.seq
          /\ n.health[a] # Dead => n.timer[a] = 0
    BY <1>1, <1>5 DEF WorldStepped
  <2> QED
    BY <1>5, <1>6, <2>1 DEF Ticked
<1>10. GhostsExplained(s, n, n.log, t)
  BY <1>2, <1>4, <1>7 DEF GhostsSteppedTo, GhostsExplained
<1>11. Explained(s, n, n.log, t)
  <2> SUFFICES ASSUME n.placed = {}, NEW r, Formed(r), Fresh(r), Same(s, r),
                      \A a \in Actors : Of(r.pending, a) = Commanded(n.log, "authoritative", t, a)
               PROVE  Same(n, StepWorld(r, t))
    BY DEF Explained
  <2>1. \A a \in Actors : Of(r.pending, a) = LogOf(StepWorld(s, t), a)
    BY <1>8 DEF w
  <2>2. StepWorld(s, t).placed = {}
    BY <1>5 DEF w
  <2>3. Same(StepWorld(s, t), StepWorld(r, t))
    BY <2>1, <2>2, SameStep
  <2> QED
    BY <1>5, <2>3 DEF Same, w
<1> QED
  BY <1>9, <1>10, <1>11 DEF n, w

-----------------------------------------------------------------------------
(***************************************************************************)
(* A recording d, of what happened h, up to the server s.                  *)
(***************************************************************************)
WorldFormed(w) ==
  /\ OnActors(w.moved) /\ w.health \in [Actors -> {Dead, Full}] /\ w.timer \in [Actors -> Nat]
  /\ \A a \in Actors : w.health[a] # Dead => w.timer[a] = 0

KeyframeOf(k, h) ==
  /\ k.track \in Tracks
  /\ k.track = "authoritative" => k.moved = h[k.tick + 1].moved /\ k.health = h[k.tick + 1].health
  /\ k.track = "control" =>
       DOMAIN k.ghosts \subseteq Actors /\ \A a \in DOMAIN k.ghosts : k.ghosts[a] = h[k.tick + 1].ghost[a]

BothLanes(keyframes, t) == \A track \in Tracks : \E k \in keyframes : k.track = track /\ k.tick = t

EventsKept(d, s) ==
  /\ \A e \in d.events :
       /\ e \in Events /\ e.tick \in d.first + 1 .. d.last
       /\ e.track = "authoritative" => e.command.seq <= s.applied[e.command.actor]
  /\ \A e, f \in d.events :
       e.track = "authoritative" /\ f.track = "authoritative" /\ e.command.actor = f.command.actor
         /\ e.tick < f.tick => e.command.seq < f.command.seq

KeyframesKept(d, h) ==
  /\ \A k \in d.keyframes :
       KeyframeOf(k, h) /\ k.tick \in d.first .. d.last /\ BothLanes(d.keyframes, k.tick)
  /\ BothLanes(d.keyframes, d.first)

StepsKept(d, h) ==
  \A n \in d.first .. d.last - 1 :
    /\ Explained(h[n + 1], h[n + 2], d.events, n + 1)
    /\ GhostsExplained(h[n + 1], h[n + 2], d.events, n + 1)

Kept(d, h, s) ==
  /\ d.first \in Nat /\ d.last \in Nat /\ d.first <= d.last
  /\ d = [keyframes |-> d.keyframes, events |-> d.events, first |-> d.first, last |-> d.last]
  /\ EventsKept(d, s) /\ KeyframesKept(d, h) /\ StepsKept(d, h)

\* h goes on as g.
Continues(h, g, t) == \A i \in 1 .. t + 1 : g[i] = h[i]

LEMMA KeyframeStays ==
  ASSUME NEW h, NEW g, NEW t \in Nat, Continues(h, g, t), NEW k, k.tick \in 0 .. t, KeyframeOf(k, h)
  PROVE  KeyframeOf(k, g)
<1>1. g[k.tick + 1] = h[k.tick + 1]
  BY DEF Continues
<1> QED
  BY <1>1 DEF KeyframeOf

\* What goes on does not change what is recorded.
LEMMA KeptOn ==
  ASSUME NEW d, NEW h, NEW s, Kept(d, h, s), NEW t \in Nat, d.last <= t, NEW g, Continues(h, g, t),
         NEW n, Formed(n), Formed(s), \A a \in Actors : s.applied[a] <= n.applied[a]
  PROVE  Kept(d, g, n)
<1>1. d.first \in Nat /\ d.last \in Nat
  BY DEF Kept
<1>2. \A a \in Actors : s.applied[a] \in Nat /\ n.applied[a] \in Nat
  BY AppliedInNat
<1>3. EventsKept(d, n)
  <2>1. EventsKept(d, s)
    BY DEF Kept
  <2>2. ASSUME NEW e \in d.events, e.track = "authoritative" PROVE e.command.seq <= n.applied[e.command.actor]
    <3>1. e.command.seq \in Nat /\ e.command.actor \in Actors
      BY <2>1 DEF EventsKept, Events, Commands
    <3>2. e.command.seq <= s.applied[e.command.actor]
      BY <2>1, <2>2 DEF EventsKept
    <3> QED
      BY <1>2, <3>1, <3>2
  <2> QED
    BY <2>1, <2>2 DEF EventsKept
<1>4. KeyframesKept(d, g)
  <2>1. KeyframesKept(d, h)
    BY DEF Kept
  <2>2. ASSUME NEW k \in d.keyframes PROVE KeyframeOf(k, g)
    <3>1. k.tick \in 0 .. t /\ KeyframeOf(k, h)
      BY <1>1, <2>1 DEF KeyframesKept
    <3> QED
      BY <3>1, KeyframeStays
  <2> QED
    BY <2>1, <2>2 DEF KeyframesKept
<1>5. StepsKept(d, g)
  <2> SUFFICES ASSUME NEW i \in d.first .. d.last - 1
               PROVE  /\ Explained(g[i + 1], g[i + 2], d.events, i + 1)
                      /\ GhostsExplained(g[i + 1], g[i + 2], d.events, i + 1)
    BY DEF StepsKept
  <2>1. i + 1 \in 1 .. t + 1 /\ i + 2 \in 1 .. t + 1
    BY <1>1
  <2>2. g[i + 1] = h[i + 1] /\ g[i + 2] = h[i + 2]
    BY <2>1 DEF Continues
  <2> QED
    BY <2>2 DEF Kept, StepsKept
<1> QED
  BY <1>3, <1>4, <1>5 DEF Kept

\* At tick t both say the same.
SameCommands(events, more, t) ==
  \A a \in Actors, track \in Tracks : Commanded(more, track, t, a) = Commanded(events, track, t, a)
SameWorld(s, w) == Same(s, w) /\ s.since = w.since /\ s.ghost = w.ghost /\ s.placed = w.placed

LEMMA ExplainedAlso ==
  ASSUME NEW s, NEW n, NEW events, NEW more, NEW t, NEW w, NEW m,
         SameWorld(s, w), SameWorld(n, m), SameCommands(events, more, t),
         Explained(s, n, events, t), GhostsExplained(s, n, events, t)
  PROVE  Explained(w, m, more, t) /\ GhostsExplained(w, m, more, t)
<1>1. ASSUME m.placed = {}, NEW r, Formed(r), Fresh(r), Same(w, r),
             \A a \in Actors : Of(r.pending, a) = Commanded(more, "authoritative", t, a)
      PROVE  Same(m, StepWorld(r, t))
  <2>1. Same(s, r)
    BY <1>1 DEF Same, SameWorld
  <2>2. \A a \in Actors : Of(r.pending, a) = Commanded(events, "authoritative", t, a)
    BY <1>1 DEF Tracks, SameCommands
  <2>4. n.placed = {}
    BY <1>1 DEF SameWorld
  <2>3. Same(n, StepWorld(r, t))
    BY <1>1, <2>1, <2>2, <2>4, Zenon DEF Explained
  <2> QED
    BY <2>3 DEF Same, SameWorld
<1>2. ASSUME NEW a \in Actors
      PROVE  \/ m.since[a] = t
             \/ m.since[a] = w.since[a] /\ m.ghost[a] = Moved(w.ghost[a], Commanded(more, "control", t, a))
  <2>1. Commanded(more, "control", t, a) = Commanded(events, "control", t, a)
    BY DEF Tracks, SameCommands
  <2> QED
    BY <2>1 DEF GhostsExplained, SameWorld
<1> QED
  BY <1>1, <1>2 DEF Explained, GhostsExplained

\* What a tick adds to a recording that goes on.
LEMMA EventsMore ==
  ASSUME NEW d, NEW s, EventsKept(d, s), d.first \in Nat, d.last \in Nat, d.first <= d.last,
         NEW q, Formed(q), Fresh(q), q.applied = s.applied, NEW n, Ticked(q, n, d.last + 1),
         NEW m, Formed(m), m.applied = n.applied,
         NEW e, e.events = d.events \cup n.log, e.first = d.first, e.last = d.last + 1
  PROVE  EventsKept(e, m)
<1> DEFINE a(x) == x.command.actor
           auth(x) == x.track = "authoritative"
<1>1. \A x \in d.events :
        /\ x \in Events /\ x.tick \in d.first + 1 .. d.last
        /\ auth(x) => x.command.seq <= s.applied[a(x)]
  BY DEF EventsKept
<1>2. \A x \in n.log :
        /\ x \in Events /\ x.tick = d.last + 1
        /\ auth(x) => x.command \in q.pending /\ x.command.seq <= n.applied[a(x)]
  BY DEF Ticked, Formed, Servers
<1>3. /\ \A b \in Actors : q.applied[b] \in Nat
      /\ \A b \in Actors : m.applied[b] \in Nat
      /\ \A b \in Actors : q.applied[b] <= n.applied[b]
  BY AppliedInNat DEF Ticked
<1>4. \A x \in Events : a(x) \in Actors /\ x.command.seq \in Nat
  BY DEF Events, Commands
<1>5. ASSUME NEW x \in e.events
      PROVE  /\ x \in Events /\ x.tick \in e.first + 1 .. e.last
             /\ auth(x) => x.command.seq <= m.applied[a(x)]
  <2>1. CASE x \in d.events
    <3>1. x \in Events /\ x.tick \in e.first + 1 .. e.last
      BY <1>1, <2>1
    <3>2. ASSUME auth(x) PROVE x.command.seq <= m.applied[a(x)]
      <4>1. x.command.seq <= q.applied[a(x)] /\ a(x) \in Actors /\ x.command.seq \in Nat
        BY <1>1, <1>4, <2>1, <3>1, <3>2
      <4>2. q.applied[a(x)] <= m.applied[a(x)] /\ q.applied[a(x)] \in Nat /\ m.applied[a(x)] \in Nat
        BY <1>3, <4>1
      <4> QED
        BY <4>1, <4>2
    <3> QED
      BY <3>1, <3>2
  <2>2. CASE x \in n.log
    BY <1>2, <2>2
  <2> QED
    BY <2>1, <2>2
<1>6. ASSUME NEW x \in e.events, NEW y \in e.events, auth(x), auth(y), a(x) = a(y), x.tick < y.tick
      PROVE  x.command.seq < y.command.seq
  <2>1. CASE y \in d.events
    <3>1. x \in d.events
      <4>1. x \in n.log => x.tick = d.last + 1
        BY <1>2
      <4>2. y.tick \in Int /\ y.tick <= d.last
        BY <1>1, <2>1
      <4> QED
        BY <1>6, <4>1, <4>2
    <3> QED
      BY <1>6, <2>1, <3>1 DEF EventsKept
  <2>2. CASE y \in n.log
    <3>1. y.command \in q.pending /\ y.tick = d.last + 1
      BY <1>2, <1>6, <2>2
    <3>2. x \in d.events
      <4>1. x \in n.log => x.tick = d.last + 1
        BY <1>2
      <4> QED
        BY <1>6, <3>1, <4>1
    <3>3. y.command.seq > q.applied[a(y)]
      BY <3>1 DEF Fresh
    <3>4. x.command.seq <= q.applied[a(y)]
      BY <1>1, <1>6, <3>2
    <3>5. x.command.seq \in Nat /\ y.command.seq \in Nat /\ q.applied[a(y)] \in Nat
      BY <1>3, <1>4, <1>5
    <3> QED
      BY <3>3, <3>4, <3>5
  <2> QED
    BY <2>1, <2>2
<1> QED
  BY <1>5, <1>6 DEF EventsKept

LEMMA KeyframesAre ==
  ASSUME NEW n, Formed(n), NEW t \in Nat, NEW h, h[t + 1] = Shown(n)
  PROVE  /\ \A k \in Keyframes(n, t) : k.tick = t /\ KeyframeOf(k, h)
         /\ BothLanes(Keyframes(n, t), t)
<1> DEFINE world == [track |-> "authoritative", tick |-> t, moved |-> n.moved, health |-> n.health]
           ghosts == [a \in ActiveGhosts(n) |-> n.ghost[a]]
           lane == [track |-> "control", tick |-> t, ghosts |-> ghosts]
<1>1. Keyframes(n, t) = {world, lane}
  BY DEF Keyframes
<1>2. world.track = "authoritative" /\ world.tick = t /\ world.moved = n.moved /\ world.health = n.health
  OBVIOUS
<1>3. lane.track = "control" /\ lane.tick = t /\ lane.ghosts = ghosts
  OBVIOUS
<1>4. h[t + 1].moved = n.moved /\ h[t + 1].health = n.health /\ h[t + 1].ghost = n.ghost
  BY DEF Shown
<1>5. ActiveGhosts(n) \subseteq Actors
  BY DEF ActiveGhosts, Formed, Servers
<1>6. DOMAIN ghosts \subseteq Actors /\ \A a \in DOMAIN ghosts : ghosts[a] = n.ghost[a]
  BY <1>5
<1> HIDE DEF world, lane, ghosts
<1>7. KeyframeOf(world, h)
  BY <1>2, <1>4 DEF KeyframeOf, Tracks
<1>8. KeyframeOf(lane, h)
  BY <1>3, <1>4, <1>6 DEF KeyframeOf, Tracks
<1> QED
  BY <1>1, <1>2, <1>3, <1>7, <1>8 DEF BothLanes, Tracks

LEMMA KeyframesMore ==
  ASSUME NEW d, NEW h, KeyframesKept(d, h), d.first \in Nat, d.last \in Nat, d.first <= d.last,
         NEW n, Formed(n), NEW g, Continues(h, g, d.last), g[(d.last + 1) + 1] = Shown(n),
         NEW K, K = {} \/ K = Keyframes(n, d.last + 1),
         NEW e, e.keyframes = d.keyframes \cup K, e.first = d.first, e.last = d.last + 1
  PROVE  KeyframesKept(e, g)
<1> DEFINE t == d.last + 1
<1>1. t \in Nat
  OBVIOUS
<1>2. K # {} => (\A k \in K : k.tick = t /\ KeyframeOf(k, g)) /\ BothLanes(K, t)
  <2> HIDE DEF t
  <2> QED
    BY <1>1, KeyframesAre DEF t
<1>3. ASSUME NEW i, BothLanes(d.keyframes, i) \/ BothLanes(K, i) PROVE BothLanes(e.keyframes, i)
  BY <1>3 DEF BothLanes
<1>4. ASSUME NEW k \in e.keyframes
      PROVE  KeyframeOf(k, g) /\ k.tick \in e.first .. e.last /\ BothLanes(e.keyframes, k.tick)
  <2>1. CASE k \in d.keyframes
    <3>1. KeyframeOf(k, h) /\ k.tick \in d.first .. d.last /\ BothLanes(d.keyframes, k.tick)
      BY <2>1 DEF KeyframesKept
    <3>2. k.tick \in 0 .. d.last
      BY <3>1
    <3>3. KeyframeOf(k, g)
      BY <3>1, <3>2, KeyframeStays
    <3> QED
      BY <1>3, <3>1, <3>3
  <2>2. CASE k \in K
    <3>1. k.tick = t /\ KeyframeOf(k, g) /\ BothLanes(K, t)
      BY <1>2, <2>2
    <3>2. k.tick \in e.first .. e.last
      BY <3>1
    <3> QED
      BY <1>3, <3>1, <3>2
  <2> QED
    BY <2>1, <2>2
<1> QED
  BY <1>3, <1>4 DEF KeyframesKept

LEMMA StepsMore ==
  ASSUME NEW d, NEW h, StepsKept(d, h), d.first \in Nat, d.last \in Nat, d.first <= d.last,
         \A x \in d.events : x.tick \in d.first + 1 .. d.last,
         NEW g, Continues(h, g, d.last),
         NEW q, NEW n, Ticked(q, n, d.last + 1), Explained(q, n, n.log, d.last + 1),
         GhostsExplained(q, n, n.log, d.last + 1), h[d.last + 1] = Shown(q), g[(d.last + 1) + 1] = Shown(n),
         NEW e, e.events = d.events \cup n.log, e.first = d.first, e.last = d.last + 1
  PROVE  StepsKept(e, g)
<1>1. \A x \in n.log : x.tick = d.last + 1
  BY DEF Ticked
<1>2. \A x \in d.events : x.tick # d.last + 1
  OBVIOUS
<1> SUFFICES ASSUME NEW i \in e.first .. e.last - 1
             PROVE  /\ Explained(g[i + 1], g[i + 2], e.events, i + 1)
                    /\ GhostsExplained(g[i + 1], g[i + 2], e.events, i + 1)
  BY DEF StepsKept
<1>3. CASE i < d.last
  <2>1. i \in d.first .. d.last - 1 /\ i + 1 \in 1 .. d.last + 1 /\ i + 2 \in 1 .. d.last + 1 /\ i + 1 # d.last + 1
    BY <1>3
  <2>2. g[i + 1] = h[i + 1] /\ g[i + 2] = h[i + 2]
    BY <2>1 DEF Continues
  <2>3. SameCommands(d.events, e.events, i + 1)
    <3>1. \A x \in n.log : x.tick # i + 1
      BY <1>1, <2>1
    <3> QED
      BY <3>1 DEF Commanded, SameCommands
  <2>4. /\ Explained(h[i + 1], h[i + 2], d.events, i + 1)
        /\ GhostsExplained(h[i + 1], h[i + 2], d.events, i + 1)
    BY <2>1 DEF StepsKept
  <2>5. SameWorld(h[i + 1], h[i + 1]) /\ SameWorld(h[i + 2], h[i + 2])
    BY DEF Same, SameWorld
  <2>6. /\ Explained(h[i + 1], h[i + 2], e.events, i + 1)
        /\ GhostsExplained(h[i + 1], h[i + 2], e.events, i + 1)
    BY <2>3, <2>4, <2>5, ExplainedAlso
  <2> QED
    BY <2>2, <2>6
<1>4. CASE i = d.last
  <2>1. g[i + 1] = Shown(q) /\ g[i + 2] = Shown(n)
    <3>1. i + 1 \in 1 .. d.last + 1 /\ (d.last + 1) + 1 = i + 2
      BY <1>4
    <3> QED
      BY <1>4, <3>1 DEF Continues
  <2>2. SameCommands(n.log, e.events, i + 1)
    <3>1. \A x \in d.events : x.tick # i + 1
      BY <1>2, <1>4
    <3> QED
      BY <3>1 DEF Commanded, SameCommands
  <2>3. Explained(q, n, n.log, i + 1) /\ GhostsExplained(q, n, n.log, i + 1)
    BY <1>4
  <2>4. SameWorld(q, g[i + 1]) /\ SameWorld(n, g[i + 2])
    BY <2>1 DEF Same, Shown, SameWorld
  <2> QED
    BY <2>2, <2>3, <2>4, ExplainedAlso
<1> QED
  BY <1>3, <1>4

-----------------------------------------------------------------------------
(***************************************************************************)
(* The invariant: the server between two ticks, what happened and what is  *)
(* recorded of it.                                                         *)
(***************************************************************************)
SessionInv ==
  /\ tick \in Nat /\ next \in [Actors -> Nat \ {0}]
  /\ Formed(server) /\ server.pending = {} /\ server.log = {}
  /\ \A c \in server.control : c.seq > server.appliedControl[c.actor] /\ c.seq < next[c.actor]
  /\ \A u \in underway : u.command \in Commands /\ u.command.seq < next[u.command.actor]

HistoryInv ==
  /\ \E W : happened \in Seq(W)
  /\ Len(happened) = tick + 1 /\ happened[tick + 1] = Shown(server)
  /\ \A i \in 1 .. tick + 1 : WorldFormed(happened[i])

DemoInv ==
  /\ demo.keyframes = {} => demo = NoDemo /\ ~recording
  /\ demo.keyframes # {} =>
       Kept(demo, happened, server) /\ demo.last <= tick /\ (recording => demo.last = tick)

ReplayInv == SessionInv /\ HistoryInv /\ DemoInv

LEMMA ReplayInit ==
  ASSUME Init PROVE ReplayInv
<1> USE DEF Init
<1>1. server \in Servers(server.moved, server.ghost, server.spawn) /\ OnActors(server.moved) /\ OnActors(server.ghost)
  BY DEF Servers, OnActors, Full, Dead
<1>2. SessionInv
  BY <1>1 DEF SessionInv, Formed
<1>3. WorldFormed(Shown(server))
  BY DEF WorldFormed, Shown, OnActors, Full, Dead
<1>4. HistoryInv
  <2> DEFINE x == Shown(server)
  <2>1. happened = <<x>> /\ tick = 0
    OBVIOUS
  <2> HIDE DEF x
  <2>2. happened \in Seq({x}) /\ Len(happened) = 1 /\ happened[1] = x
    BY <2>1
  <2>3. \A i \in 1 .. tick + 1 : happened[i] = x
    <3>1. \A i \in 1 .. tick + 1 : i = 1
      BY <2>1
    <3> QED
      BY <2>2, <3>1
  <2>4. \E W : happened \in Seq(W)
    BY <2>2
  <2>5. Len(happened) = tick + 1 /\ happened[tick + 1] = x
    BY <2>1, <2>2
  <2>6. \A i \in 1 .. tick + 1 : WorldFormed(happened[i])
    BY <1>3, <2>3 DEF x
  <2> QED
    BY <2>4, <2>5, <2>6 DEF HistoryInv, x
<1>5. DemoInv
  BY DEF DemoInv, NoDemo
<1> QED
  BY <1>2, <1>4, <1>5 DEF ReplayInv

LEMMA SendKeeps ==
  ASSUME ReplayInv, NEW a \in Actors, NEW kind \in Kinds(a), SendCommand(a, kind) PROVE ReplayInv'
<1> DEFINE c == [actor |-> a, seq |-> next[a], kind |-> kind]
<1>1. /\ tick \in Nat /\ next \in [Actors -> Nat \ {0}]
      /\ Formed(server) /\ server.pending = {} /\ server.log = {}
      /\ \A x \in server.control : x.seq > server.appliedControl[x.actor] /\ x.seq < next[x.actor]
      /\ \A u \in underway : u.command \in Commands /\ u.command.seq < next[u.command.actor]
  BY DEF ReplayInv, SessionInv
<1>2. /\ next' = [next EXCEPT ![a] = @ + 1]
      /\ underway' = underway \cup {[command |-> c, due |-> tick + Delay]}
      /\ server' = IF c.seq > server.appliedControl[c.actor]
                   THEN [server EXCEPT !.control = @ \cup {c}] ELSE server
      /\ UNCHANGED <<recording, demo, tick, happened>>
  BY DEF SendCommand
<1>3. c \in Commands /\ c.actor = a /\ c.seq = next[a] /\ kind \in {"move", "fire"}
  BY <1>1 DEF Commands, Kinds
<1> HIDE DEF c
<1>4. next' \in [Actors -> Nat \ {0}] /\ next'[a] = next[a] + 1 /\ \A b \in Actors : next[b] <= next'[b]
  BY <1>1, <1>2
<1>5. \A x \in Commands : x.actor \in Actors /\ x.seq \in Nat
  BY DEF Commands
<1>6. \A x \in Commands : x.seq < next[x.actor] => x.seq < next'[x.actor]
  <2> TAKE x \in Commands
  <2>1. x.actor \in Actors /\ x.seq \in Nat /\ next[x.actor] \in Nat /\ next'[x.actor] \in Nat
    BY <1>1, <1>4, <1>5
  <2>2. next[x.actor] <= next'[x.actor]
    BY <1>4, <2>1
  <2> QED
    BY <2>1, <2>2
<1>7. c.seq < next'[c.actor]
  BY <1>1, <1>3, <1>4
<1>8. \A u \in underway' : u.command \in Commands /\ u.command.seq < next'[u.command.actor]
  BY <1>1, <1>2, <1>3, <1>6, <1>7
<1>9. server \in Servers(server.moved, server.ghost, server.spawn)
  BY <1>1 DEF Formed
<1>10. /\ Formed(server') /\ server'.pending = {} /\ server'.log = {} /\ Shown(server') = Shown(server)
       /\ server'.applied = server.applied
       /\ server'.appliedControl = server.appliedControl
       /\ server'.control = server.control
            \/ (server'.control = server.control \cup {c} /\ c.seq > server.appliedControl[c.actor])
  <2>1. CASE c.seq > server.appliedControl[c.actor]
    <3>1. server' = [server EXCEPT !.control = @ \cup {c}]
      BY <1>2, <2>1
    <3> QED
      BY <1>1, <1>3, <1>9, <2>1, <3>1 DEF Servers, Formed, Shown
  <2>2. CASE ~(c.seq > server.appliedControl[c.actor])
    BY <1>1, <1>2, <2>2
  <2> QED
    BY <2>1, <2>2
<1>11. \A x \in server'.control : x.seq > server'.appliedControl[x.actor] /\ x.seq < next'[x.actor]
  <2>1. \A x \in server.control : x \in Commands
    BY <1>9 DEF Servers
  <2> QED
    BY <1>1, <1>6, <1>7, <1>10, <2>1
<1>12. SessionInv'
  BY <1>1, <1>2, <1>4, <1>8, <1>10, <1>11 DEF SessionInv
<1>13. HistoryInv'
  BY <1>2, <1>10 DEF ReplayInv, HistoryInv
<1>14. DemoInv'
  <2>1. Kept(demo, happened, server) => Kept(demo, happened, server')
    <3>1. EventsKept(demo, server) => EventsKept(demo, server')
      BY <1>10 DEF EventsKept
    <3> QED
      BY <3>1 DEF Kept
  <2> QED
    BY <1>2, <2>1 DEF ReplayInv, DemoInv
<1> QED
  BY <1>12, <1>13, <1>14 DEF ReplayInv

LEMMA StopKeeps ==
  ASSUME ReplayInv, StopRecording PROVE ReplayInv'
<1>1. recording' = FALSE /\ UNCHANGED <<server, underway, next, demo, tick, happened>>
  BY DEF StopRecording
<1> QED
  BY <1>1 DEF ReplayInv, SessionInv, HistoryInv, DemoInv

LEMMA StartKeeps ==
  ASSUME ReplayInv, StartRecording PROVE ReplayInv'
<1>1. /\ recording' = TRUE
      /\ demo' = [keyframes |-> Keyframes(server, tick), events |-> {}, first |-> tick, last |-> tick]
      /\ UNCHANGED <<server, underway, next, tick, happened>>
  BY DEF StartRecording
<1>2. SessionInv' /\ HistoryInv'
  BY <1>1 DEF ReplayInv, SessionInv, HistoryInv
<1>3. tick \in Nat /\ Formed(server) /\ happened[tick + 1] = Shown(server)
  BY DEF ReplayInv, SessionInv, HistoryInv
<1>4. /\ \A k \in Keyframes(server, tick) : k.tick = tick /\ KeyframeOf(k, happened)
      /\ BothLanes(Keyframes(server, tick), tick)
  BY <1>3, KeyframesAre
<1> DEFINE K == Keyframes(server, tick)
<1> HIDE DEF K
<1>5. /\ demo'.keyframes = K /\ demo'.events = {} /\ demo'.first = tick /\ demo'.last = tick
      /\ demo' = [keyframes |-> K, events |-> {}, first |-> tick, last |-> tick]
  BY <1>1 DEF K
<1>6. KeyframesKept(demo', happened)
  <2>1. \A k \in K : KeyframeOf(k, happened) /\ k.tick = tick /\ BothLanes(K, tick)
    BY <1>4 DEF K
  <2>2. BothLanes(K, tick)
    BY <1>4 DEF K
  <2>3. tick \in tick .. tick
    BY <1>3
  <2> QED
    BY <1>5, <2>1, <2>2, <2>3 DEF KeyframesKept
<1>7. StepsKept(demo', happened)
  BY <1>3, <1>5 DEF StepsKept
<1>8. EventsKept(demo', server)
  BY <1>5 DEF EventsKept
<1>9. Kept(demo', happened, server)
  BY <1>3, <1>5, <1>6, <1>7, <1>8 DEF Kept
<1>10. demo'.keyframes # {}
  BY <1>4, <1>5 DEF K, BothLanes, Tracks
<1>11. DemoInv'
  BY <1>1, <1>3, <1>5, <1>9, <1>10 DEF DemoInv
<1> QED
  BY <1>2, <1>11 DEF ReplayInv

\* What the tick serves: the commands that got through were added to the queue.
LEMMA QueuedIs ==
  ASSUME SessionInv, NEW queued,
         \A c \in queued : c \in Commands /\ c.seq > server.applied[c.actor] /\ c.seq < next[c.actor],
         NEW q, q = [server EXCEPT !.pending = @ \cup queued, !.log = {}]
  PROVE  /\ Formed(q) /\ Fresh(q) /\ FreshControl(q) /\ q.log = {} /\ Shown(q) = Shown(server)
         /\ q.applied = server.applied
<1>1. server \in Servers(server.moved, server.ghost, server.spawn) /\ OnActors(server.moved) /\ OnActors(server.ghost)
  BY DEF SessionInv, Formed
<1>2. queued \in SUBSET Commands /\ server.pending = {}
  BY DEF SessionInv
<1>3. /\ q.pending = queued /\ q.log = {} /\ q.moved = server.moved /\ q.health = server.health
      /\ q.timer = server.timer /\ q.ghost = server.ghost /\ q.since = server.since
      /\ q.applied = server.applied /\ q.appliedControl = server.appliedControl /\ q.control = server.control
      /\ q.hasGhost = server.hasGhost /\ q.placed = server.placed /\ q \in Servers(q.moved, q.ghost, q.spawn)
  BY <1>1, <1>2 DEF Servers
<1>4. Formed(q) /\ Shown(q) = Shown(server)
  BY <1>1, <1>3 DEF Formed, Shown
<1>5. \A a \in Actors : next[a] \in Nat
  BY DEF SessionInv
<1>6. \A x \in Commands : x.seq \in Nat /\ x.actor \in Actors
  BY DEF Commands
<1>7. ASSUME NEW commands \in SUBSET Commands, \A x \in commands : x.seq < next[x.actor]
      PROVE  \A a \in Actors : Bounded(commands, a)
  <2> TAKE a \in Actors
  <2>1. \A x \in Of(commands, a) : x.seq <= next[a]
    BY <1>5, <1>6, <1>7 DEF Of
  <2> QED
    BY <1>5, <2>1 DEF Bounded
<1>8. Fresh(q)
  BY <1>2, <1>3, <1>7 DEF Fresh
<1>9. FreshControl(q)
  <2>1. \A x \in server.control : x.seq > server.appliedControl[x.actor] /\ x.seq < next[x.actor]
    BY DEF SessionInv
  <2>2. server.control \in SUBSET Commands
    BY <1>1 DEF Servers
  <2>3. \A a \in Actors : Bounded(server.control, a)
    BY <1>7, <2>1, <2>2
  <2> QED
    BY <1>3, <2>1, <2>3 DEF FreshControl
<1> QED
  BY <1>3, <1>4, <1>8, <1>9

\* The server after a tick, its log handed to the recorder.
LEMMA LogHanded ==
  ASSUME NEW n, Formed(n), NEW m, m = [n EXCEPT !.log = {}]
  PROVE  /\ Formed(m) /\ m.log = {} /\ Shown(m) = Shown(n) /\ m.pending = n.pending
         /\ m.control = n.control /\ m.applied = n.applied
<1>1. n \in Servers(n.moved, n.ghost, n.spawn) /\ OnActors(n.moved) /\ OnActors(n.ghost)
  BY DEF Formed
<1>2. /\ m.pending = n.pending /\ m.log = {} /\ m.moved = n.moved /\ m.health = n.health
      /\ m.timer = n.timer /\ m.ghost = n.ghost /\ m.since = n.since
      /\ m.applied = n.applied /\ m.control = n.control /\ m.placed = n.placed /\ m \in Servers(m.moved, m.ghost, m.spawn)
  BY <1>1 DEF Servers
<1> QED
  BY <1>1, <1>2 DEF Formed, Shown

LEMMA HistoryGoesOn ==
  ASSUME HistoryInv, tick \in Nat, NEW x, WorldFormed(x), NEW g, g = Append(happened, x)
  PROVE  /\ \E W : g \in Seq(W)
         /\ Len(g) = (tick + 1) + 1 /\ g[(tick + 1) + 1] = x
         /\ \A i \in 1 .. (tick + 1) + 1 : WorldFormed(g[i])
         /\ Continues(happened, g, tick)
<1>1. PICK W : happened \in Seq(W)
  BY DEF HistoryInv
<1> DEFINE V == W \cup {x}
<1>2. happened \in Seq(V)
  BY <1>1, SeqDef
<1>3. x \in V
  OBVIOUS
<1> HIDE DEF V
<1>4. /\ Append(happened, x) \in Seq(V) /\ Len(Append(happened, x)) = Len(happened) + 1
      /\ \A i \in 1 .. Len(happened) : Append(happened, x)[i] = happened[i]
      /\ Append(happened, x)[Len(happened) + 1] = x
  BY <1>2, <1>3, AppendProperties
<1>5. Len(happened) = tick + 1
  BY DEF HistoryInv
<1>6. /\ g \in Seq(V) /\ Len(g) = (tick + 1) + 1 /\ g[(tick + 1) + 1] = x
      /\ \A i \in 1 .. tick + 1 : g[i] = happened[i]
  BY <1>4, <1>5, Zenon
<1>7. \A i \in 1 .. (tick + 1) + 1 : WorldFormed(g[i])
  <2> TAKE i \in 1 .. (tick + 1) + 1
  <2>1. CASE i = (tick + 1) + 1
    BY <1>6, <2>1
  <2>2. CASE i # (tick + 1) + 1
    <3>1. i \in 1 .. tick + 1
      BY <2>2
    <3> QED
      BY <1>6, <3>1 DEF HistoryInv
  <2> QED
    BY <2>1, <2>2
<1> QED
  BY <1>6, <1>7 DEF Continues

LEMMA TickKeeps ==
  ASSUME ReplayInv, Tick PROVE ReplayInv'
<1> DEFINE arrived == {u.command : u \in {u \in underway : u.due <= tick}}
           queued == {c \in arrived : c.seq > server.applied[c.actor]}
           q == [server EXCEPT !.pending = @ \cup queued, !.log = {}]
           s == GhostsStepped(StepWorld(q, tick + 1), tick + 1)
<1>1. SessionInv /\ HistoryInv /\ DemoInv /\ tick \in Nat /\ tick + 1 \in Nat
  BY DEF ReplayInv, SessionInv
<1>2. /\ tick' = tick + 1
      /\ underway' = {u \in underway : u.due > tick}
      /\ server' = [s EXCEPT !.log = {}]
      /\ demo' = IF recording
                 THEN [demo EXCEPT !.events = @ \cup s.log, !.last = tick + 1,
                                   !.keyframes = @ \cup KeyframesOf(s, tick + 1)]
                 ELSE demo
      /\ happened' = Append(happened, Shown(s))
      /\ next' = next /\ recording' = recording
  BY DEF Tick
<1>3. \A c \in queued : c \in Commands /\ c.seq > server.applied[c.actor] /\ c.seq < next[c.actor]
  BY <1>1 DEF SessionInv
<1> HIDE DEF queued, q
<1>4. /\ Formed(q) /\ Fresh(q) /\ FreshControl(q) /\ q.log = {} /\ Shown(q) = Shown(server)
      /\ q.applied = server.applied
  BY <1>1, <1>3, QueuedIs DEF q
<1>5. /\ Ticked(q, s, tick + 1) /\ Explained(q, s, s.log, tick + 1)
      /\ GhostsExplained(q, s, s.log, tick + 1)
  BY <1>1, <1>4, TickIs
<1> HIDE DEF s
<1>6. Formed(s) /\ s.pending = {} /\ s.control = {} /\ \A a \in Actors : s.health[a] # Dead => s.timer[a] = 0
  BY <1>5 DEF Ticked
<1>7. /\ Formed(server') /\ server'.log = {} /\ Shown(server') = Shown(s) /\ server'.pending = {}
      /\ server'.control = {} /\ server'.applied = s.applied
  BY <1>2, <1>6, LogHanded
<1>8. SessionInv'
  BY <1>1, <1>2, <1>7 DEF SessionInv
<1>9. WorldFormed(Shown(s))
  BY <1>6 DEF Formed, Servers, WorldFormed, Shown
<1>10. /\ \E W : happened' \in Seq(W)
       /\ Len(happened') = (tick + 1) + 1 /\ happened'[(tick + 1) + 1] = Shown(s)
       /\ \A i \in 1 .. (tick + 1) + 1 : WorldFormed(happened'[i])
       /\ Continues(happened, happened', tick)
  BY <1>1, <1>2, <1>9, HistoryGoesOn
<1>11. HistoryInv'
  BY <1>2, <1>7, <1>10 DEF HistoryInv
<1>12. happened[tick + 1] = Shown(q)
  BY <1>1, <1>4 DEF HistoryInv
<1>13. Formed(server)
  BY <1>1 DEF SessionInv
<1> SUFFICES DemoInv'
  BY <1>8, <1>11 DEF ReplayInv
<1>14. CASE demo.keyframes = {}
  BY <1>1, <1>2, <1>14 DEF DemoInv
<1>15. CASE demo.keyframes # {} /\ ~recording
  <2>1. Kept(demo, happened, server) /\ demo.last <= tick
    BY <1>1, <1>15 DEF DemoInv
  <2>2. \A a \in Actors : server.applied[a] <= server'.applied[a]
    BY <1>4, <1>5, <1>7 DEF Ticked
  <2>3. Kept(demo, happened', server')
    BY <1>1, <1>7, <1>10, <1>13, <2>1, <2>2, KeptOn
  <2>4. demo.last <= tick'
    BY <1>1, <1>2, <2>1 DEF Kept
  <2> QED
    BY <1>2, <1>15, <2>3, <2>4 DEF DemoInv
<1>16. CASE demo.keyframes # {} /\ recording
  <2>1. Kept(demo, happened, server) /\ demo.last = tick
    BY <1>1, <1>16 DEF DemoInv
  <2>2. /\ demo.first \in Nat /\ demo.last \in Nat /\ demo.first <= demo.last
        /\ demo = [keyframes |-> demo.keyframes, events |-> demo.events, first |-> demo.first, last |-> demo.last]
        /\ EventsKept(demo, server) /\ KeyframesKept(demo, happened) /\ StepsKept(demo, happened)
    BY <2>1 DEF Kept
  <2> DEFINE K == KeyframesOf(s, tick + 1)
  <2>3. K = {} \/ K = Keyframes(s, tick + 1)
    BY DEF KeyframesOf
  <2> HIDE DEF K
  <2>4. /\ demo'.keyframes = demo.keyframes \cup K /\ demo'.events = demo.events \cup s.log
        /\ demo'.first = demo.first /\ demo'.last = demo.last + 1
        /\ demo' = [keyframes |-> demo'.keyframes, events |-> demo'.events,
                    first |-> demo'.first, last |-> demo'.last]
    BY <1>2, <1>16, <2>1, <2>2 DEF K
  <2>5. EventsKept(demo', server')
    BY <1>4, <1>5, <1>7, <2>1, <2>2, <2>4, EventsMore
  <2>6. KeyframesKept(demo', happened')
    BY <1>6, <1>10, <2>1, <2>2, <2>3, <2>4, KeyframesMore
  <2>7. \A x \in demo.events : x.tick \in demo.first + 1 .. demo.last
    BY <2>2 DEF EventsKept
  <2>8. StepsKept(demo', happened')
    BY <1>5, <1>10, <1>12, <2>1, <2>2, <2>4, <2>7, StepsMore
  <2>9. Kept(demo', happened', server')
    BY <2>2, <2>4, <2>5, <2>6, <2>8 DEF Kept
  <2>10. demo'.keyframes # {} /\ demo'.last = tick' /\ demo'.last <= tick'
    BY <1>1, <1>2, <1>16, <2>1, <2>4
  <2> QED
    BY <2>9, <2>10 DEF DemoInv
<1> QED
  BY <1>14, <1>15, <1>16

\* What is recorded explains, tick by tick, the world and the ghosts that were
\* (ServerRuntime::tickOnce, CommandReplayRecorder).
THEOREM ReplayInvariant == Spec => []ReplayInv
<1>1. Init => ReplayInv
  BY ReplayInit
<1>2. ReplayInv /\ [Next]_vars => ReplayInv'
  <2> SUFFICES ASSUME ReplayInv, [Next]_vars PROVE ReplayInv'
    OBVIOUS
  <2>1. CASE UNCHANGED vars
    BY <2>1 DEF vars, ReplayInv, SessionInv, HistoryInv, DemoInv
  <2>2. ASSUME NEW a \in Actors, NEW kind \in Kinds(a), SendCommand(a, kind) PROVE ReplayInv'
    BY <2>2, SendKeeps
  <2>3. CASE Tick
    BY <2>3, TickKeeps
  <2>4. CASE StartRecording
    BY <2>4, StartKeeps
  <2>5. CASE StopRecording
    BY <2>5, StopKeeps
  <2> QED
    BY <2>1, <2>2, <2>3, <2>4, <2>5 DEF Next
<1> QED
  BY <1>1, <1>2, PTL DEF Spec

-----------------------------------------------------------------------------
(***************************************************************************)
(* A playback: the keyframe it starts from and the worlds from there on.   *)
(***************************************************************************)
Fed(r, commands) == [r EXCEPT !.pending = @ \cup commands]

LEMMA WorldsFollow ==
  ASSUME NEW k, k.tick \in Nat, NEW t \in Nat, k.tick <= t
  PROVE  /\ WorldsFrom(k, t)[k.tick] = ReplaySessions(k)
         /\ \A n \in k.tick + 1 .. t :
              WorldsFrom(k, t)[n] = StepWorld(Fed(WorldsFrom(k, t)[n - 1],
                              CommandsAt(AppliedBetween("authoritative", k.tick, t), n)), n)
<1> DEFINE Step(n, w) == StepWorld(Fed(w, CommandsAt(AppliedBetween("authoritative", k.tick, t), n)), n)
           start == k.tick
           base == ReplaySessions(k)
           IsIt(f, m) == f = [n \in start .. m |-> IF n = start THEN base ELSE Step(n, f[n - 1])]
           Bad == {m \in Nat : start <= m /\ ~\E f : IsIt(f, m)}
           all == WorldsFrom(k, t)
<1>1. all = CHOOSE f : IsIt(f, t)
  BY DEF WorldsFrom, Fed
<1> HIDE DEF Step, base
<1>2. start \in Nat /\ start <= t
  OBVIOUS
<1> HIDE DEF start, all
<1>3. \E f : IsIt(f, start)
  <2> DEFINE f == [n \in start .. start |-> base]
  <2>1. \A n \in start .. start : n = start
    BY <1>2
  <2>2. IsIt(f, start)
    BY <2>1
  <2> QED
    BY <2>2
<1>4. ASSUME NEW m \in Nat, start < m, NEW f, IsIt(f, m - 1) PROVE \E g : IsIt(g, m)
  <2> DEFINE g == [n \in start .. m |-> IF n = m THEN Step(m, f[m - 1]) ELSE f[n]]
  <2>1. ASSUME NEW n \in start .. m PROVE g[n] = IF n = start THEN base ELSE Step(n, g[n - 1])
    <3>1. CASE n = m
      <4>1. g[n - 1] = f[m - 1]
        BY <1>2, <1>4, <3>1
      <4> QED
        BY <1>2, <1>4, <3>1, <4>1
    <3>2. CASE n # m
      <4>1. n \in start .. m - 1 /\ g[n] = f[n]
        BY <1>2, <3>2
      <4>2. f[n] = IF n = start THEN base ELSE Step(n, f[n - 1])
        BY <1>4, <4>1
      <4>3. n # start => g[n - 1] = f[n - 1]
        BY <1>2, <4>1
      <4> QED
        BY <4>1, <4>2, <4>3
    <3> QED
      BY <3>1, <3>2
  <2>2. g = [n \in start .. m |-> g[n]]
    OBVIOUS
  <2> HIDE DEF g
  <2>3. IsIt(g, m)
    BY <2>1, <2>2
  <2> QED
    BY <2>3
<1>5. \E f : IsIt(f, t)
  <2> SUFFICES ASSUME ~\E f : IsIt(f, t) PROVE FALSE
    OBVIOUS
  <2> HIDE DEF IsIt
  <2>1. t \in Bad
    BY <1>2
  <2>2. Bad \in SUBSET Nat /\ Bad # {}
    BY <2>1
  <2>3. PICK m \in Bad : \A i \in Bad : m <= i
    <3> HIDE DEF Bad
    <3> QED
      BY <2>2, LeastNatural
  <2>4. m \in Nat /\ start < m /\ m - 1 \in Nat /\ start <= m - 1
    BY <1>2, <1>3
  <2>5. m - 1 \notin Bad
    BY <2>3, <2>4
  <2>6. PICK f : IsIt(f, m - 1)
    BY <2>4, <2>5
  <2> QED
    BY <1>4, <2>3, <2>4, <2>6
<1>6. IsIt(all, t)
  <2> HIDE DEF IsIt
  <2> QED
    BY <1>1, <1>5
<1>7. ASSUME NEW n \in start .. t PROVE all[n] = IF n = start THEN base ELSE Step(n, all[n - 1])
  BY <1>6
<1>8. all[start] = base
  <2>1. start \in start .. t
    BY <1>2
  <2> QED
    BY <1>7, <2>1
<1>9. ASSUME NEW n \in start + 1 .. t PROVE all[n] = Step(n, all[n - 1])
  <2>1. n \in start .. t /\ n # start
    BY <1>2
  <2> QED
    BY <1>7, <2>1
<1> QED
  BY <1>8, <1>9 DEF Step, base, start, all

LEMMA GhostsFollow ==
  ASSUME NEW k, k.tick \in Nat, NEW t \in Nat, k.tick <= t
  PROVE  /\ GhostsFrom(k, t)[k.tick] = k.ghosts
         /\ \A n \in k.tick + 1 .. t :
              GhostsFrom(k, t)[n] = GhostsMoved(GhostsFrom(k, t)[n - 1],
                          CommandsAt(AppliedBetween("control", k.tick, t), n))
<1> DEFINE Step(n, w) == GhostsMoved(w, CommandsAt(AppliedBetween("control", k.tick, t), n))
           start == k.tick
           base == k.ghosts
           IsIt(f, m) == f = [n \in start .. m |-> IF n = start THEN base ELSE Step(n, f[n - 1])]
           Bad == {m \in Nat : start <= m /\ ~\E f : IsIt(f, m)}
           all == GhostsFrom(k, t)
<1>1. all = CHOOSE f : IsIt(f, t)
  BY DEF GhostsFrom
<1> HIDE DEF Step, base
<1>2. start \in Nat /\ start <= t
  OBVIOUS
<1> HIDE DEF start, all
<1>3. \E f : IsIt(f, start)
  <2> DEFINE f == [n \in start .. start |-> base]
  <2>1. \A n \in start .. start : n = start
    BY <1>2
  <2>2. IsIt(f, start)
    BY <2>1
  <2> QED
    BY <2>2
<1>4. ASSUME NEW m \in Nat, start < m, NEW f, IsIt(f, m - 1) PROVE \E g : IsIt(g, m)
  <2> DEFINE g == [n \in start .. m |-> IF n = m THEN Step(m, f[m - 1]) ELSE f[n]]
  <2>1. ASSUME NEW n \in start .. m PROVE g[n] = IF n = start THEN base ELSE Step(n, g[n - 1])
    <3>1. CASE n = m
      <4>1. g[n - 1] = f[m - 1]
        BY <1>2, <1>4, <3>1
      <4> QED
        BY <1>2, <1>4, <3>1, <4>1
    <3>2. CASE n # m
      <4>1. n \in start .. m - 1 /\ g[n] = f[n]
        BY <1>2, <3>2
      <4>2. f[n] = IF n = start THEN base ELSE Step(n, f[n - 1])
        BY <1>4, <4>1
      <4>3. n # start => g[n - 1] = f[n - 1]
        BY <1>2, <4>1
      <4> QED
        BY <4>1, <4>2, <4>3
    <3> QED
      BY <3>1, <3>2
  <2>2. g = [n \in start .. m |-> g[n]]
    OBVIOUS
  <2> HIDE DEF g
  <2>3. IsIt(g, m)
    BY <2>1, <2>2
  <2> QED
    BY <2>3
<1>5. \E f : IsIt(f, t)
  <2> SUFFICES ASSUME ~\E f : IsIt(f, t) PROVE FALSE
    OBVIOUS
  <2> HIDE DEF IsIt
  <2>1. t \in Bad
    BY <1>2
  <2>2. Bad \in SUBSET Nat /\ Bad # {}
    BY <2>1
  <2>3. PICK m \in Bad : \A i \in Bad : m <= i
    <3> HIDE DEF Bad
    <3> QED
      BY <2>2, LeastNatural
  <2>4. m \in Nat /\ start < m /\ m - 1 \in Nat /\ start <= m - 1
    BY <1>2, <1>3
  <2>5. m - 1 \notin Bad
    BY <2>3, <2>4
  <2>6. PICK f : IsIt(f, m - 1)
    BY <2>4, <2>5
  <2> QED
    BY <1>4, <2>3, <2>4, <2>6
<1>6. IsIt(all, t)
  <2> HIDE DEF IsIt
  <2> QED
    BY <1>1, <1>5
<1>7. ASSUME NEW n \in start .. t PROVE all[n] = IF n = start THEN base ELSE Step(n, all[n - 1])
  BY <1>6
<1>8. all[start] = base
  <2>1. start \in start .. t
    BY <1>2
  <2> QED
    BY <1>7, <2>1
<1>9. ASSUME NEW n \in start + 1 .. t PROVE all[n] = Step(n, all[n - 1])
  <2>1. n \in start .. t /\ n # start
    BY <1>2
  <2> QED
    BY <1>7, <2>1
<1> QED
  BY <1>8, <1>9 DEF Step, base, start, all

\* The keyframes of a recording, that was kept.
LEMMA LatestIs ==
  ASSUME Kept(demo, happened, server), NEW track \in Tracks, NEW t \in Nat, demo.first <= t
  PROVE  /\ LatestKeyframe(track, t) \in demo.keyframes
         /\ LatestKeyframe(track, t).track = track
         /\ LatestKeyframe(track, t).tick \in demo.first .. demo.last
         /\ LatestKeyframe(track, t).tick <= t
         /\ \A k \in KeyframesUpTo(track, t) : k.tick <= LatestKeyframe(track, t).tick
<1> DEFINE upTo == KeyframesUpTo(track, t)
           ticks == {k.tick : k \in upTo}
<1>1. /\ demo.first \in Nat /\ demo.last \in Nat
      /\ \A k \in demo.keyframes : k.tick \in demo.first .. demo.last
      /\ BothLanes(demo.keyframes, demo.first)
  BY DEF Kept, KeyframesKept
<1>2. upTo \subseteq demo.keyframes /\ \A k \in upTo : k.track = track /\ k.tick <= t
  BY DEF KeyframesUpTo
<1>3. upTo # {}
  BY <1>1 DEF BothLanes, KeyframesUpTo
<1>4. LatestKeyframe(track, t) = CHOOSE k \in upTo : \A j \in upTo : j.tick <= k.tick
  BY DEF LatestKeyframe
<1> HIDE DEF upTo
<1>5. ticks \in SUBSET (0 .. t) /\ ticks # {}
  BY <1>1, <1>2, <1>3
<1>6. Max(ticks) \in ticks /\ \A p \in ticks : Max(ticks) >= p
  <2> HIDE DEF ticks
  <2> QED
    BY <1>5, GreatestOf
<1>7. PICK k \in upTo : k.tick = Max(ticks)
  BY <1>6
<1>8. \A j \in upTo : j.tick <= k.tick
  <2> TAKE j \in upTo
  <2>1. j.tick \in ticks
    OBVIOUS
  <2>2. Max(ticks) >= j.tick /\ j.tick \in Int /\ Max(ticks) \in Int
    BY <1>5, <1>6, <2>1
  <2> HIDE DEF ticks
  <2> QED
    BY <1>7, <2>2
<1>9. LatestKeyframe(track, t) \in upTo /\ \A j \in upTo : j.tick <= LatestKeyframe(track, t).tick
  BY <1>4, <1>8, Zenon
<1> QED
  BY <1>1, <1>2, <1>9 DEF upTo

\* The keyframe after a tick that has one is at that tick.
LEMMA EarliestIs ==
  ASSUME Kept(demo, happened, server), NEW t \in Nat,
         NEW k \in demo.keyframes, k.track = "authoritative", k.tick = t
  PROVE  /\ EarliestKeyframe("authoritative", t) \in demo.keyframes
         /\ EarliestKeyframe("authoritative", t).track = "authoritative"
         /\ EarliestKeyframe("authoritative", t).tick = t
<1> DEFINE later == {j \in demo.keyframes : j.track = "authoritative" /\ j.tick >= t}
           e == EarliestKeyframe("authoritative", t)
<1>1. \A j \in demo.keyframes : j.tick \in Int
  BY DEF Kept, KeyframesKept
<1>2. e = CHOOSE j \in later : \A i \in later : i.tick >= j.tick
  BY DEF EarliestKeyframe
<1>3. k \in later /\ \A i \in later : i.tick >= k.tick
  BY <1>1
<1> HIDE DEF later, e
<1>4. e \in later /\ \A i \in later : i.tick >= e.tick
  BY <1>2, <1>3, Zenon
<1>5. k.tick >= e.tick
  BY <1>3, <1>4
<1>6. e \in demo.keyframes /\ e.track = "authoritative" /\ e.tick >= t
  BY <1>4 DEF later
<1> QED
  BY <1>1, <1>5, <1>6 DEF e

RecordedAt(track, n) == {e.command : e \in {e \in demo.events : e.track = track /\ e.tick = n}}

\* The commands of a tick on the way of a playback are the recorded ones.
LEMMA CommandsAre ==
  ASSUME NEW track, NEW start, NEW t \in Nat, start \in Nat, NEW n \in start + 1 .. t
  PROVE  CommandsAt(AppliedBetween(track, start, t), n) = RecordedAt(track, n)
<1>1. {e \in AppliedBetween(track, start, t) : e.tick = n} = {e \in demo.events : e.track = track /\ e.tick = n}
  BY DEF AppliedBetween, EventsOf
<1> QED
  BY <1>1 DEF CommandsAt, RecordedAt

LEMMA CommandedAre ==
  ASSUME NEW track, NEW n, NEW a
  PROVE  Of(RecordedAt(track, n), a) = Commanded(demo.events, track, n, a)
BY DEF Of, Commanded, RecordedAt

\* What a playback has applied is older than every command it has not come to.
Ahead(r, n) ==
  \A e \in demo.events :
    e.track = "authoritative" /\ e.tick > n => r.applied[e.command.actor] < e.command.seq

LEMMA EventsAre ==
  ASSUME Kept(demo, happened, server), Formed(server)
  PROVE  /\ \A e \in demo.events :
              /\ e \in Events /\ e.tick \in Nat /\ e.command \in Commands /\ e.command.actor \in Actors
              /\ e.command.seq \in Nat \ {0}
              /\ e.track = "authoritative" => e.command.seq <= server.applied[e.command.actor]
         /\ \A e, f \in demo.events :
              e.track = "authoritative" /\ f.track = "authoritative" /\ e.command.actor = f.command.actor
                /\ e.tick < f.tick => e.command.seq < f.command.seq
<1>1. EventsKept(demo, server)
  BY DEF Kept
<1>2. \A e \in Events : e.tick \in Nat /\ e.command \in Commands /\ e.command.actor \in Actors
                        /\ e.command.seq \in Nat \ {0}
  BY DEF Events, Commands
<1> QED
  BY <1>1, <1>2 DEF EventsKept

LEMMA LastAppliedIs ==
  ASSUME Kept(demo, happened, server), Formed(server), NEW a \in Actors, NEW t \in Nat
  PROVE  /\ LastApplied(a, t) \in Nat
         /\ \A e \in demo.events : e.track = "authoritative" /\ e.command.actor = a /\ e.tick > t
                                     => LastApplied(a, t) < e.command.seq
<1> DEFINE before == {e \in EventsOf("authoritative") : e.command.actor = a /\ e.tick <= t}
           queue == {e.command : e \in before}
<1>1. /\ \A e \in demo.events :
           /\ e.tick \in Nat /\ e.command \in Commands /\ e.command.seq \in Nat \ {0}
           /\ e.track = "authoritative" => e.command.seq <= server.applied[e.command.actor]
      /\ \A e, f \in demo.events :
           e.track = "authoritative" /\ f.track = "authoritative" /\ e.command.actor = f.command.actor
             /\ e.tick < f.tick => e.command.seq < f.command.seq
  BY EventsAre
<1>2. LastApplied(a, t) = Newest(queue, 0)
  BY DEF LastApplied
<1>3. \A e \in before : e \in demo.events /\ e.track = "authoritative" /\ e.command.actor = a /\ e.tick <= t
  BY DEF EventsOf
<1> HIDE DEF before
<1>4. queue \in SUBSET Commands /\ \A c \in queue : c.seq <= server.applied[a]
  BY <1>1, <1>3
<1>5. server.applied[a] \in Nat
  BY AppliedInNat
<1> HIDE DEF queue
<1>6. /\ Newest(queue, 0) \in Nat
      /\ queue = {} => Newest(queue, 0) = 0
      /\ queue # {} => \E c \in queue : Newest(queue, 0) = c.seq
  BY <1>4, <1>5, NewestIs
<1>7. ASSUME NEW e \in demo.events, e.track = "authoritative", e.command.actor = a, e.tick > t
      PROVE  Newest(queue, 0) < e.command.seq
  <2>1. CASE queue = {}
    BY <1>1, <1>6, <1>7, <2>1
  <2>2. CASE queue # {}
    <3>1. PICK c \in queue : Newest(queue, 0) = c.seq
      BY <1>6, <2>2
    <3>2. PICK f \in before : c = f.command
      BY DEF queue
    <3>3. f.tick < e.tick
      BY <1>1, <1>3, <1>7
    <3>4. f.command.seq < e.command.seq
      BY <1>1, <1>3, <1>7, <3>3
    <3> QED
      BY <3>1, <3>2, <3>4
  <2> QED
    BY <2>1, <2>2
<1> QED
  BY <1>2, <1>6, <1>7

\* Where a playback is, at a tick of the recording.
Follows(r, n) == Formed(r) /\ r.pending = {} /\ Same(At(n), r) /\ Ahead(r, n)

LEMMA SessionsAre ==
  ASSUME Kept(demo, happened, server), SessionInv, HistoryInv, demo.last <= tick,
         NEW k \in demo.keyframes, k.track = "authoritative", \A a \in Actors : k.health[a] = Full
  PROVE  Follows(ReplaySessions(k), k.tick)
<1> DEFINE r == ReplaySessions(k)
           none == [a \in Actors |-> 0]
           applied == [a \in Actors |-> LastApplied(a, k.tick)]
           spawn == [a \in Actors |-> AtRest(k.moved[a])]
<1>1. /\ k.tick \in Nat /\ k.tick <= tick /\ k.moved = At(k.tick).moved /\ k.health = At(k.tick).health
      /\ k.tick \in demo.first .. demo.last
  BY DEF Kept, KeyframesKept, KeyframeOf, At, SessionInv
<1>2. WorldFormed(At(k.tick))
  <2>1. k.tick + 1 \in 1 .. tick + 1
    BY <1>1 DEF SessionInv
  <2> QED
    BY <2>1 DEF HistoryInv, At
<1>3. OnActors(k.moved) /\ k.health \in [Actors -> {Dead, Full}]
  BY <1>1, <1>2 DEF WorldFormed
<1>4. At(k.tick).timer = none
  <2>1. At(k.tick).timer \in [Actors -> Nat] /\ \A a \in Actors : At(k.tick).timer[a] = 0
    BY <1>1, <1>2 DEF WorldFormed, Full, Dead
  <2> QED
    BY <2>1
<1>5. Formed(server) /\ server \in Servers(server.moved, server.ghost, server.spawn) /\ OnActors(server.ghost)
  BY DEF SessionInv, Formed
<1>6. applied \in [Actors -> Nat]
  BY <1>1, <1>5, LastAppliedIs
<1>7. none \in [Actors -> Nat]
  OBVIOUS
<1>8. r = [server EXCEPT !.moved = k.moved, !.health = k.health, !.pending = {}, !.control = {},
                         !.timer = none, !.placed = {}, !.spawn = spawn, !.applied = applied]
  BY DEF ReplaySessions
<1>9. \A e \in demo.events : e.track = "authoritative" /\ e.tick > k.tick => applied[e.command.actor] < e.command.seq
  <2> TAKE e \in demo.events
  <2>1. e.command.actor \in Actors
    BY <1>5, EventsAre
  <2> QED
    BY <1>1, <1>5, <2>1, LastAppliedIs
<1> SUFFICES Follows(r, k.tick)
  OBVIOUS
<1> HIDE DEF r, none, applied, spawn
<1>10. /\ r.moved = k.moved /\ r.health = k.health /\ r.pending = {} /\ r.timer = none
       /\ r.applied = applied /\ r.ghost = server.ghost /\ r \in Servers(r.moved, r.ghost, r.spawn)
  BY <1>3, <1>5, <1>6, <1>7, <1>8 DEF Servers
<1> QED
  BY <1>1, <1>3, <1>4, <1>5, <1>9, <1>10 DEF Follows, Formed, Same, Ahead

LEMMA FedIs ==
  ASSUME Kept(demo, happened, server), Formed(server), NEW r, NEW n \in Nat, Follows(r, n - 1),
         NEW q, q = Fed(r, RecordedAt("authoritative", n))
  PROVE  /\ Formed(q) /\ Fresh(q) /\ Same(r, q) /\ q.pending = RecordedAt("authoritative", n)
         /\ q.applied = r.applied
<1> DEFINE C == RecordedAt("authoritative", n)
<1>1. \A e \in demo.events :
        /\ e.tick \in Nat /\ e.command \in Commands /\ e.command.actor \in Actors
        /\ e.command.seq \in Nat \ {0}
        /\ e.track = "authoritative" => e.command.seq <= server.applied[e.command.actor]
  BY EventsAre
<1>2. r \in Servers(r.moved, r.ghost, r.spawn) /\ OnActors(r.moved) /\ OnActors(r.ghost) /\ r.pending = {}
  BY DEF Follows, Formed
<1>3. C \in SUBSET Commands
  BY <1>1 DEF RecordedAt
<1>4. q = [r EXCEPT !.pending = C]
  BY <1>2 DEF Fed, Servers
<1>5. /\ q.pending = C /\ q.moved = r.moved /\ q.health = r.health /\ q.timer = r.timer
      /\ q.applied = r.applied /\ q.ghost = r.ghost /\ q \in Servers(q.moved, q.ghost, q.spawn)
  BY <1>2, <1>3, <1>4 DEF Servers
<1>6. \A c \in C : c.seq > r.applied[c.actor] /\ c.seq <= server.applied[c.actor] /\ c.actor \in Actors
  <2> TAKE c \in C
  <2>1. PICK e \in demo.events : e.command = c /\ e.track = "authoritative" /\ e.tick = n
    BY DEF RecordedAt
  <2>2. r.applied[c.actor] < c.seq
    <3>1. e.tick > n - 1
      BY <1>1, <2>1
    <3> QED
      BY <2>1, <3>1 DEF Follows, Ahead
  <2>3. c.actor \in Actors /\ c.seq \in Nat /\ r.applied[c.actor] \in Nat
    BY <1>1, <1>2, <2>1 DEF Servers
  <2> QED
    BY <1>1, <2>1, <2>2, <2>3
<1> HIDE DEF C
<1>7. \A a \in Actors : Bounded(C, a)
  <2> TAKE a \in Actors
  <2>1. server.applied[a] \in Nat
    BY AppliedInNat
  <2>2. \A c \in Of(C, a) : c.seq <= server.applied[a]
    BY <1>6 DEF Of
  <2> QED
    BY <2>1, <2>2 DEF Bounded
<1>8. Formed(q) /\ Fresh(q) /\ Same(r, q)
  BY <1>2, <1>5, <1>6, <1>7 DEF Formed, Fresh, Same
<1> QED
  BY <1>5, <1>8 DEF C

\* A step of a playback stays on the way of the server.
LEMMA FollowsOn ==
  ASSUME Kept(demo, happened, server), Formed(server), NEW n \in demo.first + 1 .. demo.last,
         At(n).placed = {}, NEW r, Follows(r, n - 1)
  PROVE  Follows(StepWorld(Fed(r, RecordedAt("authoritative", n)), n), n)
<1> DEFINE C == RecordedAt("authoritative", n)
           q == Fed(r, C)
           w == StepWorld(q, n)
<1>1. n \in Nat /\ n - 1 \in demo.first .. demo.last - 1 /\ (n - 1) + 1 = n /\ (n - 1) + 2 = n + 1
  BY DEF Kept
<1>2. Formed(q) /\ Fresh(q) /\ Same(r, q) /\ q.pending = C /\ q.applied = r.applied
  BY <1>1, FedIs
<1> HIDE DEF q
<1>3. WorldStepped(q, w, n)
  BY <1>1, <1>2, StepWorldIs
<1> HIDE DEF w
<1>4. Explained(At(n - 1), At(n), demo.events, n)
  <2>1. Explained(happened[(n - 1) + 1], happened[(n - 1) + 2], demo.events, (n - 1) + 1)
    BY <1>1 DEF Kept, StepsKept
  <2> QED
    BY <1>1, <2>1 DEF At
<1>5. Same(At(n - 1), q)
  BY <1>2 DEF Follows, Same
<1>6. \A a \in Actors : Of(q.pending, a) = Commanded(demo.events, "authoritative", n, a)
  <2>1. \A a \in Actors : Of(C, a) = Commanded(demo.events, "authoritative", n, a)
    BY CommandedAre
  <2> QED
    BY <1>2, <2>1
<1>7. Same(At(n), w)
  BY <1>2, <1>4, <1>5, <1>6 DEF Explained, w
<1>8. Ahead(w, n)
  <2> SUFFICES ASSUME NEW e \in demo.events, e.track = "authoritative", e.tick > n
               PROVE  w.applied[e.command.actor] < e.command.seq
    BY DEF Ahead
  <2> DEFINE a == e.command.actor
  <2>1. a \in Actors /\ e.tick \in Nat
    BY EventsAre
  <2>2. w.applied[a] = q.applied[a] \/ \E c \in Of(q.pending, a) : w.applied[a] = c.seq
    BY <1>3, <2>1 DEF WorldStepped
  <2>3. CASE w.applied[a] = q.applied[a]
    <3>1. e.tick > n - 1
      BY <1>1, <2>1
    <3>2. r.applied[a] < e.command.seq
      BY <3>1 DEF Follows, Ahead
    <3> QED
      BY <1>2, <2>3, <3>2
  <2>4. CASE \E c \in Of(q.pending, a) : w.applied[a] = c.seq
    <3>1. PICK c \in Of(q.pending, a) : w.applied[a] = c.seq
      BY <2>4
    <3>2. c \in C /\ c.actor = a
      BY <1>2 DEF Of
    <3>3. PICK f \in demo.events : f.command = c /\ f.track = "authoritative" /\ f.tick = n
      BY <3>2 DEF RecordedAt
    <3>4. f.command.seq < e.command.seq
      BY <3>2, <3>3, EventsAre
    <3> QED
      BY <3>1, <3>3, <3>4
  <2> QED
    BY <2>2, <2>3, <2>4
<1>9. Follows(w, n)
  BY <1>3, <1>7, <1>8 DEF Follows, WorldStepped
<1> QED
  BY <1>9 DEF w, q

\* From a keyframe to a tick of the recording.
LEMMA PlaybackFollows ==
  ASSUME Kept(demo, happened, server), SessionInv, HistoryInv, demo.last <= tick,
         NEW k \in demo.keyframes, k.track = "authoritative", \A a \in Actors : k.health[a] = Full,
         NEW t \in Nat, k.tick <= t, t <= demo.last, \A n \in k.tick + 1 .. t : At(n).placed = {}
  PROVE  Follows(WorldsFrom(k, t)[t], t)
<1> DEFINE worlds == WorldsFrom(k, t)
           start == k.tick
           C(n) == CommandsAt(AppliedBetween("authoritative", k.tick, t), n)
           Bad == {n \in Nat : start <= n /\ n <= t /\ ~Follows(worlds[n], n)}
<1>1. start \in demo.first .. demo.last /\ demo.first \in Nat /\ demo.last \in Nat /\ start \in Nat /\ start <= t
  BY DEF Kept, KeyframesKept
<1>2. worlds[start] = ReplaySessions(k) /\ \A n \in start + 1 .. t : worlds[n] = StepWorld(Fed(worlds[n - 1], C(n)), n)
  BY <1>1, WorldsFollow
<1>3. Follows(ReplaySessions(k), start)
  BY SessionsAre
<1>4. ASSUME NEW n \in start + 1 .. t, Follows(worlds[n - 1], n - 1) PROVE Follows(worlds[n], n)
  <2>1. C(n) = RecordedAt("authoritative", n)
    BY <1>1, CommandsAre
  <2>2. n \in demo.first + 1 .. demo.last
    BY <1>1
  <2>3. Formed(server) /\ At(n).placed = {}
    BY DEF SessionInv
  <2> HIDE DEF worlds, C
  <2>4. Follows(StepWorld(Fed(worlds[n - 1], C(n)), n), n)
    BY <1>4, <2>1, <2>2, <2>3, FollowsOn
  <2> QED
    BY <1>2, <2>4
<1> HIDE DEF worlds, start, C
<1> SUFFICES ASSUME ~Follows(worlds[t], t) PROVE FALSE
  BY DEF worlds
<1>5. Bad \in SUBSET Nat /\ Bad # {}
  <2>1. t \in Bad
    BY <1>1
  <2> QED
    BY <2>1
<1>6. PICK n \in Bad : \A m \in Bad : n <= m
  <2> HIDE DEF Bad
  <2> QED
    BY <1>5, LeastNatural
<1>7. n # start
  BY <1>2, <1>3
<1>8. n \in start + 1 .. t /\ n - 1 \in Nat /\ start <= n - 1 /\ n - 1 <= t
  BY <1>1, <1>7
<1>9. Follows(worlds[n - 1], n - 1)
  <2>1. n - 1 \notin Bad
    BY <1>6, <1>8
  <2> QED
    BY <1>8, <2>1
<1>10. Follows(worlds[n], n)
  BY <1>4, <1>8, <1>9
<1> QED
  BY <1>10

\* Smoothing moves nobody who has commands, and nobody at a keyframe.
LEMMA SmoothedIs ==
  ASSUME Kept(demo, happened, server), NEW t \in demo.first .. demo.last, NEW r, Follows(r, t),
         NEW a \in Actors, HasCommands(a) \/ t \in {k.tick : k \in demo.keyframes}
  PROVE  Smoothed(r, t).moved[a] = At(t).moved[a] /\ Smoothed(r, t).health[a] = At(t).health[a]
<1> DEFINE from == LatestKeyframe("authoritative", t)
           to == EarliestKeyframe("authoritative", t)
           Blend(x, y, between) == IF x = y \/ to.tick = from.tick THEN x ELSE between
           moved == [b \in Actors |-> IF HasCommands(b) THEN r.moved[b]
                                      ELSE Blend(from.moved[b], to.moved[b], <<"between">>)]
           health == [b \in Actors |-> IF HasCommands(b) THEN r.health[b]
                                       ELSE Blend(from.health[b], to.health[b], Hurt)]
           smooth == [r EXCEPT !.moved = moved, !.health = health]
<1>1. r \in Servers(r.moved, r.ghost, r.spawn) /\ r.moved = At(t).moved /\ r.health = At(t).health
  BY DEF Follows, Formed, Same
<1>2. smooth.moved = moved /\ smooth.health = health
  BY <1>1 DEF Servers
<1>3. Smoothed(r, t) = r \/ Smoothed(r, t) = smooth
  BY <1>1 DEF Smoothed, Servers
<1>4. CASE HasCommands(a)
  <2>1. moved[a] = r.moved[a] /\ health[a] = r.health[a]
    BY <1>4
  <2> HIDE DEF moved, health, smooth
  <2> QED
    BY <1>1, <1>2, <1>3, <2>1
<1>5. CASE t \in {k.tick : k \in demo.keyframes}
  <2>1. t \in Nat /\ demo.first <= t
    BY DEF Kept
  <2>2. PICK k \in demo.keyframes : k.track = "authoritative" /\ k.tick = t
    <3>1. PICK j \in demo.keyframes : j.tick = t
      BY <1>5
    <3>2. BothLanes(demo.keyframes, t)
      BY <3>1 DEF Kept, KeyframesKept
    <3> QED
      BY <3>2 DEF BothLanes, Tracks
  <2>3. /\ from \in demo.keyframes /\ from.track = "authoritative" /\ from.tick <= t /\ from.tick \in Int
        /\ \A j \in KeyframesUpTo("authoritative", t) : j.tick <= from.tick
    <3>1. "authoritative" \in Tracks
      BY DEF Tracks
    <3> HIDE DEF from
    <3>2. LatestKeyframe("authoritative", t).tick \in Int
      BY <2>1, <3>1, LatestIs DEF Kept
    <3> QED
      BY <2>1, <3>1, <3>2, LatestIs DEF from
  <2>4. from.tick = t
    <3>1. k \in KeyframesUpTo("authoritative", t)
      BY <2>1, <2>2 DEF KeyframesUpTo
    <3>2. k.tick <= from.tick
      BY <2>3, <3>1
    <3> HIDE DEF from
    <3> QED
      BY <2>1, <2>2, <2>3, <3>2
  <2>5. to.tick = t
    BY <2>1, <2>2, EarliestIs
  <2>6. from.moved = At(t).moved /\ from.health = At(t).health
    <3>1. KeyframeOf(from, happened)
      BY <2>3 DEF Kept, KeyframesKept
    <3> HIDE DEF from
    <3> QED
      BY <2>3, <2>4, <3>1 DEF KeyframeOf, At
  <2>7. \A x, y, between : Blend(x, y, between) = x
    BY <2>4, <2>5
  <2> HIDE DEF Blend, from, to
  <2>8. moved[a] = At(t).moved[a] /\ health[a] = At(t).health[a]
    BY <1>1, <2>6, <2>7
  <2> HIDE DEF moved, health, smooth
  <2> QED
    BY <1>1, <1>2, <1>3, <2>8
<1> QED
  BY <1>4, <1>5

LEMMA StartIs ==
  ASSUME Kept(demo, happened, server), NEW t \in demo.first .. demo.last
  PROVE  /\ StartKeyframe(t) \in demo.keyframes /\ StartKeyframe(t).track = "authoritative"
         /\ StartKeyframe(t).tick <= t
<1> DEFINE s == IF t > demo.first + Lookback THEN t - Lookback ELSE demo.first
<1>1. Lookback \in Nat /\ demo.first \in Nat /\ demo.last \in Nat
  BY ConstantsAssumption DEF Kept
<1>2. s \in Nat /\ demo.first <= s /\ s <= t
  BY <1>1
<1>3. StartKeyframe(t) = LatestKeyframe("authoritative", s)
  BY DEF StartKeyframe
<1>4. "authoritative" \in Tracks
  BY DEF Tracks
<1> HIDE DEF s
<1>5. /\ LatestKeyframe("authoritative", s) \in demo.keyframes
      /\ LatestKeyframe("authoritative", s).track = "authoritative"
      /\ LatestKeyframe("authoritative", s).tick \in Int
      /\ LatestKeyframe("authoritative", s).tick <= s
  <2>1. LatestKeyframe("authoritative", s).tick \in demo.first .. demo.last
    BY <1>2, <1>4, LatestIs
  <2>2. LatestKeyframe("authoritative", s).tick \in Int
    BY <1>1, <2>1
  <2> QED
    BY <1>2, <1>4, <2>2, LatestIs
<1> QED
  BY <1>1, <1>2, <1>3, <1>5

LEMMA PlaybackFaithful ==
  ASSUME ReplayInv PROVE PlaybackShowsWhatHappened
<1> SUFFICES ASSUME Finished, NEW t \in demo.first .. demo.last,
                    NobodyPlaced(t), NEW a \in Actors,
                    HasCommands(a) \/ t \in {k.tick : k \in demo.keyframes}
             PROVE  /\ ReplayedWorld(t).moved[a] = At(t).moved[a]
                    /\ ReplayedWorld(t).health[a] = At(t).health[a]
  BY DEF PlaybackShowsWhatHappened
<1>1. demo.keyframes # {}
  BY DEF Finished, ReplayInv, DemoInv
<1>2. Kept(demo, happened, server) /\ SessionInv /\ HistoryInv /\ demo.last <= tick
  BY <1>1 DEF ReplayInv, DemoInv
<1> DEFINE k == StartKeyframe(t)
<1>3. k \in demo.keyframes /\ k.track = "authoritative" /\ k.tick <= t
  BY <1>2, StartIs
<1>4. t \in Nat /\ t <= demo.last
  BY <1>2 DEF Kept
<1>5. (\A b \in Actors : k.health[b] = Full) /\ (\A n \in k.tick + 1 .. t : At(n).placed = {})
  BY DEF NobodyPlaced
<1>6. ReplayedWorld(t) = Smoothed(WorldsFrom(k, t)[t], t)
  BY DEF ReplayedWorld
<1> HIDE DEF k
<1>7. Follows(WorldsFrom(k, t)[t], t)
  BY <1>2, <1>3, <1>4, <1>5, PlaybackFollows
<1> QED
  BY <1>2, <1>6, <1>7, SmoothedIs

\* A ghost of a playback, until it is set back to its player.
GhostFollows(ghosts, k, n) ==
  /\ DOMAIN ghosts = DOMAIN k.ghosts
  /\ \A a \in DOMAIN ghosts : At(n).since[a] <= k.tick => ghosts[a] = At(n).ghost[a]

LEMMA GhostFollowsOn ==
  ASSUME Kept(demo, happened, server), Formed(server), NEW k \in demo.keyframes, k.track = "control",
         NEW n \in k.tick + 1 .. demo.last, NEW ghosts, GhostFollows(ghosts, k, n - 1)
  PROVE  GhostFollows(GhostsMoved(ghosts, RecordedAt("control", n)), k, n)
<1> DEFINE C == RecordedAt("control", n)
           moved == GhostsMoved(ghosts, C)
<1>1. /\ demo.first \in Nat /\ demo.last \in Nat /\ k.tick \in demo.first .. demo.last
      /\ DOMAIN k.ghosts \subseteq Actors
  BY DEF Kept, KeyframesKept, KeyframeOf
<1>2. n \in Nat /\ n - 1 \in demo.first .. demo.last - 1 /\ (n - 1) + 1 = n /\ (n - 1) + 2 = n + 1
  BY <1>1
<1>3. GhostsExplained(At(n - 1), At(n), demo.events, n)
  <2>1. GhostsExplained(happened[(n - 1) + 1], happened[(n - 1) + 2], demo.events, (n - 1) + 1)
    BY <1>2 DEF Kept, StepsKept
  <2> QED
    BY <1>2, <2>1 DEF At
<1>4. \A c \in C : c.seq > 0
  <2>1. \A e \in demo.events : e.command.seq \in Nat \ {0}
    BY EventsAre
  <2> QED
    BY <2>1 DEF RecordedAt
<1>5. \A a \in Actors : Queue(C, a, 0) = Commanded(demo.events, "control", n, a)
  <2> TAKE a \in Actors
  <2>1. Queue(C, a, 0) = Of(C, a)
    BY <1>4 DEF Queue, Of
  <2>2. Of(C, a) = Commanded(demo.events, "control", n, a)
    BY CommandedAre
  <2> QED
    BY <2>1, <2>2
<1>6. /\ DOMAIN moved = DOMAIN ghosts
      /\ \A a \in DOMAIN ghosts : moved[a] = Moved(ghosts[a], Queue(C, a, 0))
  BY DEF GhostsMoved, Moved
<1> HIDE DEF C, moved
<1>7. ASSUME NEW a \in DOMAIN moved, At(n).since[a] <= k.tick PROVE moved[a] = At(n).ghost[a]
  <2>1. a \in DOMAIN ghosts /\ a \in Actors
    BY <1>1, <1>6 DEF GhostFollows
  <2>2. At(n).since[a] # n
    BY <1>1, <1>7
  <2>3. /\ At(n).since[a] = At(n - 1).since[a]
        /\ At(n).ghost[a] = Moved(At(n - 1).ghost[a], Commanded(demo.events, "control", n, a))
    BY <1>3, <2>1, <2>2 DEF GhostsExplained
  <2>4. ghosts[a] = At(n - 1).ghost[a]
    BY <1>7, <2>1, <2>3 DEF GhostFollows
  <2> QED
    BY <1>5, <1>6, <2>1, <2>3, <2>4
<1>8. GhostFollows(moved, k, n)
  BY <1>6, <1>7 DEF GhostFollows
<1> QED
  BY <1>8 DEF C, moved

LEMMA GhostsFollowed ==
  ASSUME Kept(demo, happened, server), Formed(server), NEW k \in demo.keyframes, k.track = "control",
         NEW t \in Nat, k.tick <= t, t <= demo.last
  PROVE  GhostFollows(GhostsFrom(k, t)[t], k, t)
<1> DEFINE all == GhostsFrom(k, t)
           start == k.tick
           C(n) == CommandsAt(AppliedBetween("control", k.tick, t), n)
           Bad == {n \in Nat : start <= n /\ n <= t /\ ~GhostFollows(all[n], k, n)}
<1>1. start \in Nat /\ start <= t /\ demo.last \in Nat
  BY DEF Kept, KeyframesKept
<1>2. all[start] = k.ghosts /\ \A n \in start + 1 .. t : all[n] = GhostsMoved(all[n - 1], C(n))
  BY <1>1, GhostsFollow
<1>3. GhostFollows(k.ghosts, k, start)
  <2>1. KeyframeOf(k, happened)
    BY DEF Kept, KeyframesKept
  <2> QED
    BY <2>1 DEF KeyframeOf, GhostFollows, At
<1>4. ASSUME NEW n \in start + 1 .. t, GhostFollows(all[n - 1], k, n - 1) PROVE GhostFollows(all[n], k, n)
  <2>1. C(n) = RecordedAt("control", n)
    BY <1>1, CommandsAre
  <2>2. n \in k.tick + 1 .. demo.last
    BY <1>1
  <2> HIDE DEF all, C
  <2>3. GhostFollows(GhostsMoved(all[n - 1], RecordedAt("control", n)), k, n)
    BY <1>4, <2>2, GhostFollowsOn
  <2> QED
    BY <1>2, <2>1, <2>3
<1> HIDE DEF all, start, C
<1> SUFFICES ASSUME ~GhostFollows(all[t], k, t) PROVE FALSE
  BY DEF all
<1>5. Bad \in SUBSET Nat /\ Bad # {}
  <2>1. t \in Bad
    BY <1>1
  <2> QED
    BY <2>1
<1>6. PICK n \in Bad : \A m \in Bad : n <= m
  <2> HIDE DEF Bad
  <2> QED
    BY <1>5, LeastNatural
<1>7. n # start
  BY <1>2, <1>3
<1>8. n \in start + 1 .. t /\ n - 1 \in Nat /\ start <= n - 1 /\ n - 1 <= t
  BY <1>1, <1>7
<1>9. GhostFollows(all[n - 1], k, n - 1)
  <2>1. n - 1 \notin Bad
    BY <1>6, <1>8
  <2> QED
    BY <1>8, <2>1
<1>10. GhostFollows(all[n], k, n)
  BY <1>4, <1>8, <1>9
<1> QED
  BY <1>10

LEMMA GhostsFaithful ==
  ASSUME ReplayInv PROVE GhostsShowWhatHappened
<1> SUFFICES ASSUME Finished, NEW t \in demo.first .. demo.last
             PROVE  \A a \in DOMAIN ReplayedGhosts(t) :
                      At(t).since[a] <= LatestKeyframe("control", t).tick
                        => ReplayedGhosts(t)[a] = At(t).ghost[a]
  BY DEF GhostsShowWhatHappened
<1>1. demo.keyframes # {}
  BY DEF Finished, ReplayInv, DemoInv
<1>2. Kept(demo, happened, server) /\ Formed(server)
  BY <1>1 DEF ReplayInv, DemoInv, SessionInv
<1>3. t \in Nat /\ t <= demo.last /\ demo.first <= t /\ "control" \in Tracks
  BY <1>2 DEF Kept, Tracks
<1> DEFINE k == LatestKeyframe("control", t)
<1>4. k \in demo.keyframes /\ k.track = "control" /\ k.tick <= t
  BY <1>2, <1>3, LatestIs
<1>5. ReplayedGhosts(t) = GhostsFrom(k, t)[t]
  BY DEF ReplayedGhosts
<1> HIDE DEF k
<1>6. GhostFollows(GhostsFrom(k, t)[t], k, t)
  BY <1>2, <1>3, <1>4, GhostsFollowed
<1> QED
  BY <1>5, <1>6 DEF GhostFollows, k

\* Whatever is played back of a recording is what happened: the world that is simulated again
\* from a keyframe and the commands, and the ghosts of the control lane
\* (ReplayPlaybackRuntime::seekToTick, CommandReplayRecorder, ServerRuntime::tickOnce).
THEOREM ReplaysFaithful == Spec => []ReplaysShowWhatHappened
<1>1. ReplayInv => ReplaysShowWhatHappened
  BY PlaybackFaithful, GhostsFaithful DEF ReplaysShowWhatHappened
<1> QED
  BY <1>1, ReplayInvariant, PTL

\* What MCFiles does to a session is what CommandReplay does.
LEMMA FilesAreSessions == FilesSpec => Spec
<1>1. FilesInit => Init
  BY DEF FilesInit
<1>2. [FilesNext]_<<vars, readVars, levelVars, reads>> => [Next]_vars
  BY DEF FilesNext
<1> QED
  BY <1>1, <1>2, PTL DEF FilesSpec, Spec

-----------------------------------------------------------------------------
(* The file of a level. *)

(***************************************************************************)
(* Sequences one of which is read to its end before the other.             *)
(***************************************************************************)
LEMMA HeadOfConcat ==
  ASSUME NEW S, NEW s \in Seq(S), NEW t \in Seq(S), s # << >>
  PROVE  Head(s \o t) = Head(s) /\ Tail(s \o t) = Tail(s) \o t /\ s \o t # << >>
<1> DEFINE c == s \o t
           d == Tail(s) \o t
<1>1. /\ Len(s) \in Nat /\ Len(t) \in Nat /\ Len(s) # 0
      /\ c \in Seq(S) /\ Len(c) = Len(s) + Len(t)
      /\ \A i \in 1 .. Len(s) + Len(t) : c[i] = IF i <= Len(s) THEN s[i] ELSE t[i - Len(s)]
  BY ConcatProperties, EmptySeq
<1>2. c # << >>
  BY <1>1, EmptySeq
<1>3. Head(c) = Head(s)
  BY <1>1, <1>2
<1>4. /\ Tail(s) \in Seq(S) /\ Len(Tail(s)) = Len(s) - 1
      /\ \A i \in 1 .. Len(Tail(s)) : Tail(s)[i] = s[i + 1]
  BY HeadTailProperties
<1>5. /\ Tail(c) \in Seq(S) /\ Len(Tail(c)) = Len(c) - 1
      /\ \A i \in 1 .. Len(Tail(c)) : Tail(c)[i] = c[i + 1]
  <2> HIDE DEF c
  <2> QED
    BY <1>1, <1>2, HeadTailProperties
<1>6. /\ d \in Seq(S) /\ Len(d) = Len(Tail(s)) + Len(t)
      /\ \A i \in 1 .. Len(Tail(s)) + Len(t) :
           d[i] = IF i <= Len(Tail(s)) THEN Tail(s)[i] ELSE t[i - Len(Tail(s))]
  BY <1>4, ConcatProperties
<1> DEFINE n == Len(s)
           m == Len(t)
           u == Tail(s)
           v == Tail(c)
<1>7. n \in Nat \ {0} /\ m \in Nat /\ Len(u) = n - 1 /\ Len(v) = (n + m) - 1 /\ Len(d) = Len(v)
  BY <1>1, <1>4, <1>5, <1>6
<1>8. ASSUME NEW i \in 1 .. Len(v) PROVE v[i] = d[i]
  <2> HIDE DEF c, d, n, m, u, v
  <2>0. n = Len(s) /\ m = Len(t) /\ u = Tail(s) /\ v = Tail(c)
    BY DEF n, m, u, v
  <2>1. i \in Nat /\ 1 <= i /\ i <= (n + m) - 1
    BY <1>7
  <2>2. v[i] = c[i + 1] /\ c[i + 1] = IF i + 1 <= n THEN s[i + 1] ELSE t[(i + 1) - n]
    BY <1>1, <1>5, <1>7, <2>0, <2>1
  <2>3. d[i] = IF i <= n - 1 THEN u[i] ELSE t[i - (n - 1)]
    BY <1>6, <1>7, <2>0, <2>1
  <2>4. i <= n - 1 => u[i] = s[i + 1]
    BY <1>4, <1>7, <2>0, <2>1
  <2>5. i - (n - 1) = (i + 1) - n /\ (i + 1 <= n <=> i <= n - 1)
    BY <1>7, <2>1
  <2> QED
    BY <2>2, <2>3, <2>4, <2>5
<1>9. v = d
  <2> HIDE DEF c, d
  <2> QED
    BY <1>5, <1>6, <1>7, <1>8, SeqEqual
<1> QED
  BY <1>2, <1>3, <1>9

\* One line, and what is left after it.
LEMMA HeadOfLine ==
  ASSUME NEW S, NEW l \in S, NEW t \in Seq(S)
  PROVE  Head(<<l>> \o t) = l /\ Tail(<<l>> \o t) = t /\ <<l>> \o t # << >>
<1>1. <<l>> \in Seq(S) /\ <<l>> # << >> /\ Head(<<l>>) = l /\ Tail(<<l>>) = << >>
  OBVIOUS
<1>2. << >> \o t = t
  BY ConcatEmptySeq
<1> QED
  BY <1>1, <1>2, HeadOfConcat

\* The part of a sequence that is still to be read.
LEMMA HeadOfRest ==
  ASSUME NEW S, NEW s \in Seq(S), NEW t \in Seq(S), NEW p \in Nat, p < Len(s)
  PROVE  /\ SubSeq(s, p + 1, Len(s)) \o t # << >>
         /\ Head(SubSeq(s, p + 1, Len(s)) \o t) = s[p + 1]
         /\ Tail(SubSeq(s, p + 1, Len(s)) \o t) = SubSeq(s, p + 2, Len(s)) \o t
<1> DEFINE q == SubSeq(s, p + 1, Len(s))
<1>1. p + 1 \in 1 .. Len(s) /\ Len(s) \in p + 1 .. Len(s) /\ (p + 1) + 1 = p + 2
  OBVIOUS
<1>2. Head(q) = s[p + 1] /\ Tail(q) = SubSeq(s, p + 2, Len(s))
  BY <1>1, HeadTailOfSubSeq
<1>3. q \in Seq(S) /\ Len(q) # 0
  <2>1. \A i \in p + 1 .. Len(s) : s[i] \in S
    BY <1>1, ElementOfSeq
  <2>2. q \in Seq(S) /\ Len(q) = IF p + 1 <= Len(s) THEN (Len(s) - (p + 1)) + 1 ELSE 0
    BY <1>1, <2>1, SubSeqProperties
  <2> QED
    BY <1>1, <2>2
<1> HIDE DEF q
<1>4. q # << >>
  BY <1>3, EmptySeq
<1>5. Head(q \o t) = Head(q) /\ Tail(q \o t) = Tail(q) \o t /\ q \o t # << >>
  BY <1>3, <1>4, HeadOfConcat
<1> QED
  BY <1>2, <1>5 DEF q

(***************************************************************************)
(* Products.                                                               *)
(***************************************************************************)
LEMMA Products ==
  ASSUME NEW w \in Nat, NEW j \in Nat, NEW i \in Nat
  PROVE  /\ w * i \in Nat
         /\ w * (i + 1) = w * i + w
         /\ j <= i => w * j <= w * i
OBVIOUS

\* The parts of a concatenation of parts of the same length.
Even(f, n, w, S) == \A i \in 1 .. n : f[i] \in Seq(S) /\ Len(f[i]) = w
Joined(g, f, k, w, S) ==
  /\ g \in Seq(S) /\ Len(g) = w * k
  /\ \A j \in 1 .. k, o \in 1 .. w : g[w * (j - 1) + o] = f[j][o]

LEMMA JoinedStep ==
  ASSUME NEW S, NEW w \in Nat, NEW n \in Nat, NEW f, Even(f, n, w, S),
         NEW k \in Nat, k < n, NEW g, Joined(g, f, k, w, S)
  PROVE  Joined(g \o f[k + 1], f, k + 1, w, S)
<1> DEFINE h == f[k + 1]
           c == g \o h
<1>1. h \in Seq(S) /\ Len(h) = w /\ g \in Seq(S) /\ Len(g) = w * k /\ w * k \in Nat
  <2>1. k + 1 \in 1 .. n
    OBVIOUS
  <2>2. h \in Seq(S) /\ Len(h) = w
    BY <2>1 DEF Even
  <2>3. w * k \in Nat
    BY Products
  <2> QED
    BY <2>2, <2>3 DEF Joined
<1>2. /\ c \in Seq(S) /\ Len(c) = w * k + w
      /\ \A i \in 1 .. w * k + w : c[i] = IF i <= w * k THEN g[i] ELSE h[i - w * k]
  <2> DEFINE q == w * k
  <2> HIDE DEF h, q
  <2>1. q \in Nat /\ Len(g) = q
    BY <1>1 DEF q
  <2>2. /\ c \in Seq(S) /\ Len(c) = Len(g) + Len(h)
        /\ \A i \in 1 .. Len(g) + Len(h) : c[i] = IF i <= Len(g) THEN g[i] ELSE h[i - Len(g)]
    BY <1>1, ConcatProperties
  <2>3. /\ c \in Seq(S) /\ Len(c) = q + w
        /\ \A i \in 1 .. q + w : c[i] = IF i <= q THEN g[i] ELSE h[i - q]
    <3> HIDE DEF c
    <3> QED
      BY <1>1, <2>1, <2>2
  <2> QED
    BY <2>3 DEF q
<1>3. ASSUME NEW j \in 1 .. k + 1, NEW o \in 1 .. w PROVE c[w * (j - 1) + o] = f[j][o]
  <2> DEFINE p == w * (j - 1)
             q == w * k
  <2>1. p \in Nat /\ q \in Nat
    BY Products
  <2>2. CASE j = k + 1
    <3>1. p = q
      BY <2>2
    <3> HIDE DEF c, p, q
    <3>2. p + o \in 1 .. q + w /\ ~(p + o <= q) /\ (p + o) - q = o
      BY <2>1, <3>1
    <3>3. c[p + o] = h[o]
      BY <1>2, <3>2 DEF q
    <3> QED
      BY <2>2, <3>3 DEF p
  <2>3. CASE j # k + 1
    <3>1. j \in 1 .. k /\ j - 1 \in Nat /\ (j - 1) + 1 = j /\ j \in Nat /\ j <= k
      BY <2>3
    <3>2. p + w <= q
      <4>1. p + w = w * j
        BY <3>1, Products
      <4>2. w * j <= w * k
        BY <3>1, Products
      <4> QED
        BY <4>1, <4>2
    <3>3. c[p + o] = g[p + o]
      <4> HIDE DEF c, p, q
      <4>1. p + o \in 1 .. q + w /\ p + o <= q
        BY <2>1, <3>2
      <4> QED
        BY <1>2, <4>1 DEF q
    <3>4. g[p + o] = f[j][o]
      BY <3>1 DEF Joined
    <3> QED
      BY <3>3, <3>4
  <2> QED
    BY <2>2, <2>3
<1>4. w * (k + 1) = w * k + w
  BY Products
<1> QED
  BY <1>2, <1>3, <1>4 DEF Joined

\* What FlattenSeq makes of them.
LEMMA FlattenIs ==
  ASSUME NEW S, NEW w \in Nat, NEW n \in Nat, NEW f, f = [i \in 1 .. n |-> f[i]],
         Even(f, n, w, S)
  PROVE  Joined(Level!FlattenSeq(f), f, n, w, S)
<1>2. f \in Seq(Seq(S)) /\ Len(f) = n
  <2>1. \A i \in 1 .. n : f[i] \in Seq(S)
    BY DEF Even
  <2>2. f \in [1 .. n -> Seq(S)]
    BY <2>1
  <2> QED
    BY <2>2
<1>3. CASE n = 0
  <2>1. f = << >>
    BY <1>2, <1>3, EmptySeq
  <2>2. Level!FlattenSeq(f) = << >>
    BY <1>2, <1>3, <2>1 DEF Level!FlattenSeq
  <2>3. w * n = 0
    BY <1>3
  <2>4. << >> \in Seq(S) /\ Len(<< >>) = 0
    BY EmptySeq
  <2>5. Joined(<< >>, f, n, w, S)
    <3>1. 1 .. n = {}
      BY <1>3
    <3> QED
      BY <2>3, <2>4, <3>1 DEF Joined
  <2> QED
    BY <2>2, <2>5
<1>4. CASE n # 0
  <2> DEFINE IsIt(g, m) == g = [i \in 1 .. m |-> IF i = 1 THEN f[i] ELSE g[i - 1] \o f[i]]
             Bad == {m \in Nat \ {0} : ~\E g : IsIt(g, m)}
             joined == CHOOSE g : IsIt(g, n)
  <2>1. Level!FlattenSeq(f) = joined[n]
    BY <1>2, <1>4 DEF Level!FlattenSeq
  <2>2. \E g : IsIt(g, 1)
    <3> DEFINE g == [i \in 1 .. 1 |-> f[i]]
    <3>1. IsIt(g, 1)
      OBVIOUS
    <3> QED
      BY <3>1
  <2>3. ASSUME NEW m \in Nat \ {0, 1}, NEW g, IsIt(g, m - 1) PROVE \E h : IsIt(h, m)
    <3> DEFINE h == [i \in 1 .. m |-> IF i = m THEN g[m - 1] \o f[m] ELSE g[i]]
    <3>1. ASSUME NEW i \in 1 .. m PROVE h[i] = IF i = 1 THEN f[i] ELSE h[i - 1] \o f[i]
      <4>1. CASE i = m
        <5>1. h[i - 1] = g[m - 1] /\ i # 1
          BY <4>1
        <5> QED
          BY <4>1, <5>1
      <4>2. CASE i # m
        <5>1. i \in 1 .. m - 1 /\ h[i] = g[i]
          BY <4>2
        <5>2. g[i] = IF i = 1 THEN f[i] ELSE g[i - 1] \o f[i]
          BY <2>3, <5>1
        <5>3. i # 1 => h[i - 1] = g[i - 1]
          BY <5>1
        <5> QED
          BY <5>1, <5>2, <5>3
      <4> QED
        BY <4>1, <4>2
    <3>2. h = [i \in 1 .. m |-> h[i]]
      OBVIOUS
    <3> HIDE DEF h
    <3>3. IsIt(h, m)
      BY <3>1, <3>2
    <3> QED
      BY <3>3
  <2>4. \E g : IsIt(g, n)
    <3> SUFFICES ASSUME ~\E g : IsIt(g, n) PROVE FALSE
      OBVIOUS
    <3> HIDE DEF IsIt
    <3>1. Bad \in SUBSET Nat /\ Bad # {}
      BY <1>4
    <3>2. PICK m \in Bad : \A k \in Bad : m <= k
      <4> HIDE DEF Bad
      <4> QED
        BY <3>1, LeastNatural
    <3>3. m \in Nat \ {0, 1}
      BY <2>2
    <3>4. m - 1 \notin Bad
      BY <3>2, <3>3
    <3>5. PICK g : IsIt(g, m - 1)
      BY <3>3, <3>4
    <3> QED
      BY <2>3, <3>3, <3>5
  <2>5. IsIt(joined, n)
    <3> HIDE DEF IsIt
    <3> QED
      BY <2>4
  <2>6. ASSUME NEW i \in 1 .. n PROVE joined[i] = IF i = 1 THEN f[i] ELSE joined[i - 1] \o f[i]
    <3> HIDE DEF joined
    <3> QED
      BY <2>5
  <2> DEFINE Wrong == {m \in Nat : m \in 1 .. n /\ ~Joined(joined[m], f, m, w, S)}
  <2>7. Joined(joined[1], f, 1, w, S)
    <3>0. 1 \in 1 .. n
      BY <1>4
    <3>1. joined[1] = f[1] /\ f[1] \in Seq(S) /\ Len(f[1]) = w
      <4>1. joined[1] = f[1]
        <5> HIDE DEF joined
        <5> QED
          BY <2>6, <3>0
      <4>2. f[1] \in Seq(S) /\ Len(f[1]) = w
        BY <3>0 DEF Even
      <4> QED
        BY <4>1, <4>2
    <3>2. \A j \in 1 .. 1, o \in 1 .. w : w * (j - 1) + o = o
      <4> TAKE j \in 1 .. 1, o \in 1 .. w
      <4>1. j - 1 = 0 /\ w * 0 = 0
        OBVIOUS
      <4> QED
        BY <4>1
    <3>3. w * 1 = w
      OBVIOUS
    <3> HIDE DEF joined
    <3> QED
      BY <3>1, <3>2, <3>3 DEF Joined
  <2>8. Wrong = {}
    <3> SUFFICES ASSUME Wrong # {} PROVE FALSE
      OBVIOUS
    <3>1. Wrong \in SUBSET Nat
      OBVIOUS
    <3>2. PICK m \in Wrong : \A k \in Wrong : m <= k
      <4> HIDE DEF Wrong
      <4> QED
        BY <3>1, LeastNatural
    <3> HIDE DEF joined
    <3>3. m \in 1 .. n /\ m # 1
      BY <2>7, <3>2
    <3>4. m - 1 \in 1 .. n /\ m - 1 \in Nat /\ m - 1 < n /\ (m - 1) + 1 = m
      BY <3>3
    <3>5. m - 1 \notin Wrong
      <4>1. ~(m <= m - 1)
        BY <3>4
      <4> HIDE DEF Wrong
      <4> QED
        BY <3>2, <4>1
    <3>6. Joined(joined[m - 1], f, m - 1, w, S)
      BY <3>4, <3>5
    <3>7. Joined(joined[m - 1] \o f[(m - 1) + 1], f, (m - 1) + 1, w, S)
      BY <3>4, <3>6, JoinedStep
    <3>8. joined[m] = joined[m - 1] \o f[m]
      BY <2>6, <3>3
    <3>9. Joined(joined[m], f, m, w, S)
      BY <3>4, <3>7, <3>8
    <3> QED
      BY <3>2, <3>9
  <2>9. n \in 1 .. n
    BY <1>4
  <2> HIDE DEF joined
  <2> QED
    BY <2>1, <2>8, <2>9
<1> QED
  BY <1>3, <1>4

-----------------------------------------------------------------------------
(***************************************************************************)
(* The lines of the file: three of the level itself, its three sections,   *)
(* and a last one.                                                         *)
(***************************************************************************)
MemberNames == {"x", "z", "width", "depth", "height", "color"}
Whats == MemberNames \cup Level!Keys \cup {"{", "}", "]", "name", "floorColor"}
LineSet == [what : Whats, value : Nat \cup Level!Names]

MembersOf(s) == Level!Members[s]
Width(s) == Len(MembersOf(s)) + 2
Part(s, j) == Level!ItemLines(s, Level!Item(s, j))
Body(s, n) == Level!FlattenSeq([i \in 1 .. n |-> Part(s, i)])

LEMMA MembersAre ==
  ASSUME NEW s \in Level!Sections
  PROVE  /\ MembersOf(s) \in Seq(MemberNames)
         /\ Len(MembersOf(s)) \in Nat \ {0}
         /\ DOMAIN MembersOf(s) = 1 .. Len(MembersOf(s))
<1> DEFINE O == <<"x", "z", "width", "depth", "height", "color">>
           A == <<"x", "z", "width", "depth", "color">>
           E == <<"x", "z", "color">>
<1>1. O \in Seq(MemberNames) /\ Len(O) \in Nat \ {0}
  BY DEF MemberNames
<1>2. A \in Seq(MemberNames) /\ Len(A) \in Nat \ {0}
  BY DEF MemberNames
<1>3. E \in Seq(MemberNames) /\ Len(E) \in Nat \ {0}
  BY DEF MemberNames
<1>4. MembersOf(s) = O \/ MembersOf(s) = A \/ MembersOf(s) = E
  BY DEF MembersOf, Level!Members, Level!Sections
<1> HIDE DEF O, A, E
<1>5. MembersOf(s) \in Seq(MemberNames) /\ Len(MembersOf(s)) \in Nat \ {0}
  <2> DEFINE M == MembersOf(s)
  <2>1. M = O \/ M = A \/ M = E
    BY <1>4
  <2> HIDE DEF M
  <2>2. M \in Seq(MemberNames) /\ Len(M) \in Nat \ {0}
    BY <1>1, <1>2, <1>3, <2>1
  <2> QED
    BY <2>2 DEF M
<1> QED
  BY <1>5, LenProperties

\* What an item is written as.
PartOf(p, s, j) ==
  /\ p \in Seq(LineSet) /\ Len(p) = Width(s)
  /\ p[1] = Level!Line("{", 0)
  /\ \A i \in 1 .. Len(MembersOf(s)) : p[i + 1] = Level!Line(MembersOf(s)[i], j)
  /\ p[Width(s)] = Level!Line("}", 0)

LEMMA OneLine ==
  ASSUME NEW S, NEW l \in S
  PROVE  <<l>> \in Seq(S) /\ Len(<<l>>) = 1 /\ <<l>>[1] = l
OBVIOUS

LEMMA LineIs ==
  ASSUME NEW w \in Whats, NEW v \in Nat \cup Level!Names
  PROVE  Level!Line(w, v) \in LineSet
BY DEF Level!Line, LineSet

LEMMA PartIs ==
  ASSUME NEW s \in Level!Sections, NEW j \in Nat
  PROVE  PartOf(Part(s, j), s, j)
<1> DEFINE n == Len(MembersOf(s))
           a == Level!Mark("{")
           b == [i \in DOMAIN MembersOf(s) |->
                   Level!Line(MembersOf(s)[i], Level!Item(s, j)[MembersOf(s)[i]])]
           c == Level!Mark("}")
<1>1. n \in Nat \ {0} /\ DOMAIN MembersOf(s) = 1 .. n /\ MembersOf(s) \in Seq(MemberNames)
  BY MembersAre
<1>2. ASSUME NEW i \in 1 .. n
      PROVE  Level!Item(s, j)[MembersOf(s)[i]] = j /\ MembersOf(s)[i] \in Whats
  <2>1. MembersOf(s)[i] \in Level!ToSet(MembersOf(s))
    BY <1>1 DEF Level!ToSet
  <2>2. MembersOf(s)[i] \in MemberNames
    BY <1>1
  <2>3. MembersOf(s)[i] \in Whats
    BY <2>2 DEF Whats
  <2>4. Level!Item(s, j)[MembersOf(s)[i]] = j
    <3> DEFINE m == MembersOf(s)[i]
    <3>1. m \in Level!ToSet(Level!Members[s])
      BY <2>1 DEF MembersOf
    <3> HIDE DEF m
    <3>2. Level!Item(s, j)[m] = j
      BY <3>1 DEF Level!Item
    <3> QED
      BY <3>2 DEF m
  <2> QED
    BY <2>3, <2>4
<1>3. b = [i \in 1 .. n |-> Level!Line(MembersOf(s)[i], j)]
  BY <1>1, <1>2
<1>4. b \in Seq(LineSet) /\ Len(b) = n /\ \A i \in 1 .. n : b[i] = Level!Line(MembersOf(s)[i], j)
  <2>1. \A i \in 1 .. n : Level!Line(MembersOf(s)[i], j) \in LineSet
    BY <1>2, LineIs
  <2>2. b \in [1 .. n -> LineSet]
    <3> HIDE DEF n
    <3> QED
      BY <1>3, <2>1
  <2>3. \A i \in 1 .. n : b[i] = Level!Line(MembersOf(s)[i], j)
    <3> HIDE DEF n
    <3> QED
      BY <1>3
  <2> HIDE DEF n, b
  <2> QED
    BY <1>1, <2>2, <2>3
<1>5. /\ a \in Seq(LineSet) /\ Len(a) = 1 /\ a[1] = Level!Line("{", 0)
      /\ c \in Seq(LineSet) /\ Len(c) = 1 /\ c[1] = Level!Line("}", 0)
  <2>1. "{" \in Whats /\ "}" \in Whats /\ 0 \in Nat \cup Level!Names
    BY DEF Whats
  <2>2. Level!Line("{", 0) \in LineSet /\ Level!Line("}", 0) \in LineSet
    BY <2>1, LineIs
  <2>3. a = <<Level!Line("{", 0)>> /\ c = <<Level!Line("}", 0)>>
    BY DEF Level!Mark
  <2> QED
    BY <2>2, <2>3, OneLine
<1>6. Part(s, j) = (a \o b) \o c
  BY DEF Part, Level!ItemLines, MembersOf
<1>7. n \in Nat \ {0} /\ b \in Seq(LineSet) /\ Len(b) = n
  BY <1>1, <1>4
<1>8. a \in Seq(LineSet) /\ Len(a) = 1 /\ c \in Seq(LineSet) /\ Len(c) = 1
  BY <1>5
<1> HIDE DEF a, b, c, n
<1> DEFINE d == a \o b
           p == d \o c
<1>9. /\ d \in Seq(LineSet) /\ Len(d) = n + 1
      /\ \A i \in 1 .. n + 1 : d[i] = IF i <= 1 THEN a[i] ELSE b[i - 1]
  <2>1. /\ d \in Seq(LineSet) /\ Len(d) = Len(a) + Len(b)
        /\ \A i \in 1 .. Len(a) + Len(b) : d[i] = IF i <= Len(a) THEN a[i] ELSE b[i - Len(a)]
    BY <1>7, <1>8, ConcatProperties
  <2>2. Len(a) + Len(b) = n + 1 /\ Len(a) = 1
    BY <1>7, <1>8
  <2> HIDE DEF d
  <2> QED
    BY <2>1, <2>2
<1> HIDE DEF d
<1>10. /\ p \in Seq(LineSet) /\ Len(p) = n + 2
       /\ \A i \in 1 .. n + 2 : p[i] = IF i <= n + 1 THEN d[i] ELSE c[i - (n + 1)]
  <2>0. d \in Seq(LineSet) /\ c \in Seq(LineSet)
    BY <1>8, <1>9
  <2>1. /\ p \in Seq(LineSet) /\ Len(p) = Len(d) + Len(c)
        /\ \A i \in 1 .. Len(d) + Len(c) : p[i] = IF i <= Len(d) THEN d[i] ELSE c[i - Len(d)]
    BY <2>0, ConcatProperties
  <2>2. Len(d) + Len(c) = n + 2 /\ Len(d) = n + 1
    BY <1>7, <1>8, <1>9
  <2> HIDE DEF p
  <2> QED
    BY <2>1, <2>2
<1>11. Part(s, j) = p
  BY <1>6 DEF d
<1> HIDE DEF p
<1>12. p[1] = Level!Line("{", 0)
  <2>1. p[1] = d[1]
    BY <1>7, <1>10
  <2>2. d[1] = a[1]
    BY <1>7, <1>9
  <2> QED
    BY <1>5, <2>1, <2>2
<1>13. ASSUME NEW i \in 1 .. n PROVE p[i + 1] = Level!Line(MembersOf(s)[i], j)
  <2>1. i + 1 \in 1 .. n + 1 /\ i + 1 \in 1 .. n + 2 /\ ~(i + 1 <= 1) /\ (i + 1) - 1 = i
    BY <1>7
  <2>2. p[i + 1] = d[i + 1]
    BY <1>7, <1>10, <2>1
  <2>3. d[i + 1] = b[i]
    BY <1>7, <1>9, <2>1
  <2> QED
    BY <1>4, <2>2, <2>3
<1>14. p[n + 2] = Level!Line("}", 0)
  <2>1. (n + 2) - (n + 1) = 1 /\ n + 2 \in 1 .. n + 2 /\ ~(n + 2 <= n + 1)
    BY <1>7
  <2>2. p[n + 2] = c[1]
    BY <1>10, <2>1
  <2> QED
    BY <1>5, <2>2
<1>15. PartOf(p, s, j)
  BY <1>10, <1>12, <1>13, <1>14 DEF PartOf, Width, n
<1> QED
  BY <1>11, <1>15

\* The items of a section, one after the other.
LEMMA BodyIs ==
  ASSUME NEW s \in Level!Sections, NEW n \in Nat
  PROVE  /\ Body(s, n) \in Seq(LineSet) /\ Len(Body(s, n)) = Width(s) * n
         /\ \A j \in 1 .. n, o \in 1 .. Width(s) :
              Body(s, n)[Width(s) * (j - 1) + o] = Part(s, j)[o]
<1> DEFINE f == [i \in 1 .. n |-> Part(s, i)]
           w == Width(s)
<1>1. w \in Nat
  BY MembersAre DEF Width
<1>2. \A i \in 1 .. n : f[i] = Part(s, i)
  OBVIOUS
<1>3. \A i \in 1 .. n : PartOf(Part(s, i), s, i)
  BY PartIs
<1>4. f = [i \in 1 .. n |-> f[i]]
  OBVIOUS
<1>5. Body(s, n) = Level!FlattenSeq(f)
  BY DEF Body
<1> HIDE DEF f
<1>6. Even(f, n, w, LineSet)
  BY <1>2, <1>3 DEF Even, PartOf
<1> HIDE DEF w
<1>7. Joined(Level!FlattenSeq(f), f, n, w, LineSet)
  BY <1>1, <1>4, <1>6, FlattenIs
<1>8. /\ Body(s, n) \in Seq(LineSet) /\ Len(Body(s, n)) = w * n
      /\ \A j \in 1 .. n, o \in 1 .. w : Body(s, n)[w * (j - 1) + o] = f[j][o]
  BY <1>5, <1>7 DEF Joined
<1> QED
  BY <1>2, <1>8 DEF w

-----------------------------------------------------------------------------
(***************************************************************************)
(* The file of the level that was saved.                                   *)
(***************************************************************************)
Count(s) == Len(written[s])
Closing == Level!Mark("}")
Sect(s) == Level!SectionLines(s, written[s])
AfterOf(s) ==
  CASE s = "areas" -> Sect("enemies") \o (Sect("obstacles") \o Closing)
    [] s = "enemies" -> Sect("obstacles") \o Closing
    [] s = "obstacles" -> Closing
Ending(s) == Level!Mark("]") \o AfterOf(s)
NameOf == <<Level!NameLine(written.name)>>
FloorOf == <<Level!Line("floorColor", written.floor)>>

\* What is saved has a number of items of each kind.
Counted == \A s \in Level!Sections : Count(s) \in Nat /\ written[s] = Level!Items(s, Count(s))

LEMMA SavedCounted ==
  ASSUME written \in Level!Saved
  PROVE  Counted /\ written.name \in Level!Names /\ written.floor = 1
<1>1. \A s \in Level!Sections : \E n \in 0 .. MaxItems : written[s] = Level!Items(s, n)
  BY DEF Level!Saved, Level!Sections
<1>2. ASSUME NEW s \in Level!Sections PROVE Count(s) \in Nat /\ written[s] = Level!Items(s, Count(s))
  <2>1. PICK n \in 0 .. MaxItems : written[s] = Level!Items(s, n)
    BY <1>1
  <2>2. n \in Nat
    BY LevelAssumption
  <2>3. Level!Items(s, n) = [k \in 1 .. n |-> Level!Item(s, k)]
    BY DEF Level!Items
  <2>4. Len(Level!Items(s, n)) = n
    BY <2>2, <2>3
  <2> QED
    BY <2>1, <2>2, <2>4 DEF Count
<1> QED
  BY <1>2 DEF Counted, Level!Saved

LEMMA MarkIs ==
  ASSUME NEW w \in Whats
  PROVE  /\ Level!Mark(w) = <<Level!Line(w, 0)>> /\ Level!Mark(w) \in Seq(LineSet)
         /\ Level!Line(w, 0) \in LineSet
<1>1. Level!Line(w, 0) \in LineSet
  BY LineIs
<1> QED
  BY <1>1, OneLine DEF Level!Mark

\* Sequences joined from the left are joined from the right.
Associates(s, t, u) == (s \o t) \o u = s \o (t \o u)

LEMMA JoinAssociates ==
  ASSUME NEW S, NEW s \in Seq(S), NEW t \in Seq(S), NEW u \in Seq(S)
  PROVE  Associates(s, t, u)
BY ConcatAssociative DEF Associates

FourFromRight(a, b, c, d, S) ==
  /\ ((a \o b) \o c) \o d = a \o (b \o (c \o d))
  /\ (a \o b) \o c \in Seq(S) /\ b \o (c \o d) \in Seq(S)
SixFromRight(a, b, c, d, e, f) ==
  ((((a \o b) \o c) \o d) \o e) \o f = a \o (b \o (c \o (d \o (e \o f))))

LEMMA FourJoined ==
  ASSUME NEW S, NEW a \in Seq(S), NEW b \in Seq(S), NEW c \in Seq(S), NEW d \in Seq(S)
  PROVE  FourFromRight(a, b, c, d, S)
<1> DEFINE J(s, t) == s \o t
<1>1. ASSUME NEW s \in Seq(S), NEW t \in Seq(S) PROVE J(s, t) \in Seq(S)
  BY ConcatProperties
<1>2. ASSUME NEW s, NEW t, NEW u, Associates(s, t, u) PROVE J(J(s, t), u) = J(s, J(t, u))
  BY <1>2 DEF Associates
<1> HIDE DEF J
<1>3. J(a, b) \in Seq(S) /\ J(c, d) \in Seq(S)
  BY <1>1
<1>4. J(J(a, b), c) \in Seq(S) /\ J(b, J(c, d)) \in Seq(S)
  BY <1>1, <1>3
<1>5. Associates(J(a, b), c, d) /\ Associates(a, b, J(c, d))
  BY <1>3, JoinAssociates
<1>6. J(J(J(a, b), c), d) = J(J(a, b), J(c, d))
  BY <1>2, <1>5
<1>7. J(J(a, b), J(c, d)) = J(a, J(b, J(c, d)))
  BY <1>2, <1>5
<1> QED
  BY <1>4, <1>6, <1>7 DEF J, FourFromRight

LEMMA SixJoined ==
  ASSUME NEW S, NEW a \in Seq(S), NEW b \in Seq(S), NEW c \in Seq(S), NEW d \in Seq(S),
         NEW e \in Seq(S), NEW f \in Seq(S)
  PROVE  SixFromRight(a, b, c, d, e, f)
<1> DEFINE J(s, t) == s \o t
           x == J(J(a, b), c)
           y == J(d, J(e, f))
<1>1. ASSUME NEW p \in Seq(S), NEW q \in Seq(S), NEW r \in Seq(S), NEW s \in Seq(S)
      PROVE  /\ J(J(J(p, q), r), s) = J(p, J(q, J(r, s)))
             /\ J(J(p, q), r) \in Seq(S) /\ J(q, J(r, s)) \in Seq(S)
  BY FourJoined DEF FourFromRight
<1> HIDE DEF J
<1>2. x \in Seq(S) /\ y \in Seq(S)
  BY <1>1
<1>3. J(J(J(x, d), e), f) = J(x, y)
  <2> HIDE DEF x
  <2> QED
    BY <1>1, <1>2
<1>4. J(x, y) = J(a, J(b, J(c, y)))
  <2> HIDE DEF y
  <2> QED
    BY <1>1, <1>2
<1> QED
  BY <1>3, <1>4 DEF J, SixFromRight

LEMMA PairJoined ==
  ASSUME NEW S, NEW x \in S, NEW y \in S
  PROVE  <<x, y>> = <<x>> \o <<y>>
<1>1. <<x>> \in Seq(S) /\ <<x, y>> = Append(<<x>>, y)
  OBVIOUS
<1> QED
  BY <1>1, AppendIsConcat

\* A section and what follows it.
LEMMA SectIs ==
  ASSUME Counted, NEW s \in Level!Sections, NEW t \in Seq(LineSet)
  PROVE  /\ Sect(s) \in Seq(LineSet)
         /\ Sect(s) \o t = Level!Mark(s) \o (Body(s, Count(s)) \o (Level!Mark("]") \o t))
<1> DEFINE n == Count(s)
           b == Body(s, n)
           m == Level!Mark(s)
           e == Level!Mark("]")
<1>1. n \in Nat /\ written[s] = Level!Items(s, n)
  BY DEF Counted
<1>2. DOMAIN written[s] = 1 .. n /\ \A i \in 1 .. n : written[s][i] = Level!Item(s, i)
  <2> HIDE DEF n
  <2> QED
    BY <1>1 DEF Level!Items
<1>3. [i \in DOMAIN written[s] |-> Level!ItemLines(s, written[s][i])] = [i \in 1 .. n |-> Part(s, i)]
  <2> HIDE DEF n
  <2> QED
    BY <1>2 DEF Part
<1>4. Sect(s) = (m \o b) \o e
  BY <1>3 DEF Sect, Level!SectionLines, Body
<1>5. s \in Whats /\ "]" \in Whats
  BY DEF Whats, Level!Keys
<1>6. m \in Seq(LineSet) /\ e \in Seq(LineSet) /\ b \in Seq(LineSet)
  BY <1>1, <1>5, MarkIs, BodyIs
<1> HIDE DEF m, e, b, n
<1>7. /\ ((m \o b) \o e) \o t = m \o (b \o (e \o t))
      /\ (m \o b) \o e \in Seq(LineSet)
  <2>1. FourFromRight(m, b, e, t, LineSet)
    BY <1>6, FourJoined
  <2> QED
    BY <2>1 DEF FourFromRight
<1> QED
  BY <1>4, <1>7 DEF m, e, b, n

LEMMA AfterIs ==
  ASSUME Counted, NEW s \in Level!Sections
  PROVE  AfterOf(s) \in Seq(LineSet) /\ Ending(s) \in Seq(LineSet)
<1>1. Closing \in Seq(LineSet) /\ Level!Mark("]") \in Seq(LineSet)
  BY MarkIs DEF Closing, Whats
<1>2. Sect("enemies") \in Seq(LineSet) /\ Sect("obstacles") \in Seq(LineSet)
  BY <1>1, SectIs DEF Level!Sections
<1>3. Sect("obstacles") \o Closing \in Seq(LineSet)
  BY <1>1, <1>2, ConcatProperties
<1>4. Sect("enemies") \o (Sect("obstacles") \o Closing) \in Seq(LineSet)
  BY <1>2, <1>3, ConcatProperties
<1>5. AfterOf(s) \in Seq(LineSet)
  BY <1>1, <1>3, <1>4 DEF AfterOf, Level!Sections
<1> QED
  BY <1>1, <1>5, ConcatProperties DEF Ending

LEMMA FileIs ==
  ASSUME Counted, written.name \in Level!Names, written.floor = 1
  PROVE  Level!saveLevelDefinition(written) =
           Level!Mark("{") \o (NameOf \o (FloorOf \o (Sect("areas") \o AfterOf("areas"))))
<1> DEFINE L == Seq(LineSet)
           a == Level!Mark("{")
           nf == <<Level!NameLine(written.name), Level!Line("floorColor", written.floor)>>
           sa == Sect("areas")
           se == Sect("enemies")
           so == Sect("obstacles")
<1>1. a \in L /\ Closing \in L
  BY MarkIs DEF Closing, Whats
<1>2. sa \in L /\ se \in L /\ so \in L
  BY <1>1, SectIs DEF Level!Sections
<1>3. NameOf \in L /\ FloorOf \in L /\ nf = NameOf \o FloorOf
  <2>1. Level!NameLine(written.name) \in LineSet
    BY DEF Level!NameLine, LineSet, Level!Line, Whats
  <2>2. Level!Line("floorColor", written.floor) \in LineSet
    BY LineIs DEF Whats
  <2>3. nf = NameOf \o FloorOf
    <3> DEFINE l == Level!NameLine(written.name)
               k == Level!Line("floorColor", written.floor)
    <3>1. nf = <<l, k>> /\ NameOf = <<l>> /\ FloorOf = <<k>>
      BY DEF NameOf, FloorOf
    <3> HIDE DEF l, k, nf
    <3>2. <<l, k>> = <<l>> \o <<k>>
      BY <2>1, <2>2, PairJoined DEF l, k
    <3> QED
      BY <3>1, <3>2
  <2> QED
    BY <2>1, <2>2, <2>3, OneLine DEF NameOf, FloorOf
<1>4. Level!saveLevelDefinition(written) = ((((a \o nf) \o sa) \o se) \o so) \o Closing
  BY DEF Level!saveLevelDefinition, Sect, Closing
<1>5. AfterOf("areas") = se \o (so \o Closing)
  BY DEF AfterOf
<1> HIDE DEF a, nf, sa, se, so
<1>6. nf \in L
  BY <1>3, ConcatProperties
<1>7. ((((a \o nf) \o sa) \o se) \o so) \o Closing =
        a \o (nf \o (sa \o (se \o (so \o Closing))))
  <2>1. SixFromRight(a, nf, sa, se, so, Closing)
    BY <1>1, <1>2, <1>6, SixJoined
  <2> QED
    BY <2>1 DEF SixFromRight
<1>8. sa \o (se \o (so \o Closing)) \in L
  <2>1. so \o Closing \in L
    BY <1>1, <1>2, ConcatProperties
  <2>2. se \o (so \o Closing) \in L
    BY <1>2, <2>1, ConcatProperties
  <2> QED
    BY <1>2, <2>2, ConcatProperties
<1> DEFINE rest == sa \o (se \o (so \o Closing))
<1>9. nf \o rest = NameOf \o (FloorOf \o rest)
  <2> HIDE DEF rest
  <2>1. Associates(NameOf, FloorOf, rest)
    BY <1>3, <1>8, JoinAssociates DEF rest
  <2> QED
    BY <1>3, <2>1 DEF Associates
<1> QED
  BY <1>4, <1>5, <1>7, <1>9 DEF a, sa

-----------------------------------------------------------------------------
(***************************************************************************)
(* What one line makes of the reader.                                      *)
(***************************************************************************)
Shaped(r) ==
  r = [section |-> r.section, inside |-> r.inside, item |-> r.item, patches |-> r.patches,
       level |-> r.level]

\* Where the reader stands, outside the patches.
Stands(r, s, n, i, l) ==
  Shaped(r) /\ r.section = s /\ r.inside = n /\ r.item = i /\ r.level = l /\ ~r.patches

\* What the reader does, one member at a time.
LEMMA ReaderChanged ==
  ASSUME NEW r, NEW s, NEW n, NEW i, NEW l, Stands(r, s, n, i, l), NEW v, NEW w
  PROVE  /\ Stands([r EXCEPT !.section = v], v, n, i, l)
         /\ Stands([r EXCEPT !.inside = v], s, v, i, l)
         /\ Stands([r EXCEPT !.item = v], s, n, v, l)
         /\ Stands([r EXCEPT !.item[w] = v], s, n, [i EXCEPT ![w] = v], l)
         /\ Stands([r EXCEPT !.level[w] = v], s, n, i, [l EXCEPT ![w] = v])
<1>1. Stands([r EXCEPT !.section = v], v, n, i, l)
  BY DEF Stands, Shaped
<1>2. Stands([r EXCEPT !.inside = v], s, v, i, l)
  BY DEF Stands, Shaped
<1>3. Stands([r EXCEPT !.item = v], s, n, v, l)
  BY DEF Stands, Shaped
<1>4. Stands([r EXCEPT !.item[w] = v], s, n, [i EXCEPT ![w] = v], l)
  BY DEF Stands, Shaped
<1>5. Stands([r EXCEPT !.level[w] = v], s, n, i, [l EXCEPT ![w] = v])
  BY DEF Stands, Shaped
<1> QED
  BY <1>1, <1>2, <1>3, <1>4, <1>5

LEMMA EnteredIs ==
  ASSUME NEW r, NEW s, NEW n, NEW i, NEW l, Stands(r, s, n, i, l), NEW v
  PROVE  Stands(Level!Entered(r, v), v, n, i, l)
BY ReaderChanged DEF Level!Entered

LEMMA NamedIs ==
  ASSUME NEW r, NEW s, NEW n, NEW i, NEW l, Stands(r, s, n, i, l), NEW v
  PROVE  Stands(Level!Named(r, v), s, n, i, [l EXCEPT !.name = v])
BY ReaderChanged DEF Level!Named

LEMMA FlooredIs ==
  ASSUME NEW r, NEW s, NEW n, NEW i, NEW l, Stands(r, s, n, i, l), NEW v
  PROVE  Stands(Level!Floored(r, v), s, n, i, [l EXCEPT !.floor = v])
BY ReaderChanged DEF Level!Floored

LEMMA FilledIs ==
  ASSUME NEW r, NEW s, NEW n, NEW i, NEW l, Stands(r, s, n, i, l), NEW w, NEW v
  PROVE  Stands(Level!Filled(r, w, v), s, n, [i EXCEPT ![w] = v], l)
BY ReaderChanged DEF Level!Filled

LEMMA BegunIs ==
  ASSUME NEW r, NEW s, NEW n, NEW i, NEW l, Stands(r, s, n, i, l)
  PROVE  Stands(Level!Begun(r), s, s, Level!Item(s, 0), l)
<1> DEFINE a == [r EXCEPT !.inside = s]
           q == [a EXCEPT !.item = Level!Item(s, 0)]
<1>1. Level!Begun(r) = q
  <2>1. r.section = s
    BY DEF Stands
  <2> QED
    BY <2>1 DEF Level!Begun
<1>2. Stands(a, s, s, i, l)
  BY ReaderChanged
<1>3. Stands(q, s, s, Level!Item(s, 0), l)
  <2> HIDE DEF a
  <2> QED
    BY <1>2, ReaderChanged
<1> HIDE DEF q
<1> QED
  BY <1>1, <1>3

LEMMA FinishedIs ==
  ASSUME NEW r, NEW s, NEW n, NEW i, NEW l, Stands(r, s, n, i, l)
  PROVE  Stands(Level!Finished(r), s, "none", i, [l EXCEPT ![n] = Append(l[n], i)])
<1> DEFINE v == Append(l[n], i)
           a == [r EXCEPT !.level[n] = v]
           q == [a EXCEPT !.inside = "none"]
           m == [l EXCEPT ![n] = v]
<1>1. Level!Finished(r) = q
  <2>1. r.inside = n /\ r.item = i /\ r.level = l
    BY DEF Stands
  <2> QED
    BY <2>1 DEF Level!Finished
<1> HIDE DEF v
<1>2. Stands(a, s, n, i, m)
  BY ReaderChanged
<1>3. Stands(q, s, "none", i, m)
  <2> HIDE DEF a, m
  <2> QED
    BY <1>2, ReaderChanged
<1> HIDE DEF q, m
<1>4. Stands(Level!Finished(r), s, "none", i, m)
  BY <1>1, <1>3
<1> QED
  BY <1>4 DEF m, v

\* The end of a section is seen outside an item.
LEMMA ClosedIs ==
  ASSUME NEW r, NEW s, NEW n, NEW i, NEW l, Stands(r, s, n, i, l), NEW line
  PROVE  Stands(Level!Closed(r, line),
                IF Level!HasBracket(line) /\ n = "none" THEN "none" ELSE s, n, i, l)
<1>1. Stands(Level!Entered(r, "none"), "none", n, i, l)
  BY EnteredIs
<1>2. r.inside = n
  BY DEF Stands
<1> QED
  BY <1>1, <1>2 DEF Level!Closed

\* A line outside the patches and no mark of a section.
LEMMA TakenMeant ==
  ASSUME NEW r, NEW s, NEW n, NEW i, NEW l, Stands(r, s, n, i, l), NEW line,
         line.what \notin Level!Sections, line.what # "floorPatches"
  PROVE  Level!Taken(r, line) = Level!Meant(Level!Closed(r, line), line)
<1>1. ~r.patches
  BY DEF Stands
<1> QED
  BY <1>1 DEF Level!Taken

LEMMA TakenOpenly ==
  ASSUME NEW r, NEW s, NEW n, NEW i, NEW l, Stands(r, s, n, i, l), NEW line,
         line.what \notin Level!Sections, line.what # "floorPatches",
         ~(Level!HasBracket(line) /\ n = "none")
  PROVE  Level!Taken(r, line) = Level!Meant(r, line)
<1>1. Level!Closed(r, line) = r
  BY DEF Level!Closed, Stands
<1> QED
  BY <1>1, TakenMeant

\* The mark of a section.
LEMMA TakenSection ==
  ASSUME NEW r, NEW s, NEW n, NEW i, NEW l, Stands(r, s, n, i, l), NEW w \in Level!Sections, NEW v
  PROVE  Stands(Level!Taken(r, Level!Line(w, v)), w, n, i, l)
<1> DEFINE line == Level!Line(w, v)
<1>1. line.what = w /\ w # "floorPatches"
  BY DEF Level!Line, Level!Sections
<1>2. ~r.patches
  BY DEF Stands
<1> HIDE DEF line
<1>3. Level!Taken(r, line) = Level!Entered(r, w)
  BY <1>1, <1>2 DEF Level!Taken
<1> QED
  BY <1>3, EnteredIs DEF line

\* A brace outside the sections.
LEMMA TakenBrace ==
  ASSUME NEW r, NEW i, NEW l, Stands(r, "none", "none", i, l), NEW w \in {"{", "}"}
  PROVE  Stands(Level!Taken(r, Level!Line(w, 0)), "none", "none", i, l)
<1> DEFINE line == Level!Line(w, 0)
<1>1. line.what = w /\ ~Level!HasBracket(line)
  BY DEF Level!Line, Level!HasBracket
<1>2. w \notin Level!Sections /\ w # "floorPatches"
  BY DEF Level!Sections
<1> HIDE DEF line
<1>3. Level!Taken(r, line) = Level!Meant(r, line)
  BY <1>1, <1>2, TakenOpenly
<1>4. Level!Meant(r, line) = r
  BY <1>1 DEF Level!Meant, Stands
<1> QED
  BY <1>3, <1>4 DEF line

\* The start of an item.
LEMMA TakenOpen ==
  ASSUME NEW r, NEW s \in Level!Sections, NEW i, NEW l, Stands(r, s, "none", i, l)
  PROVE  Stands(Level!Taken(r, Level!Line("{", 0)), s, s, Level!Item(s, 0), l)
<1> DEFINE line == Level!Line("{", 0)
<1>1. line.what = "{" /\ ~Level!HasBracket(line)
  BY DEF Level!Line, Level!HasBracket
<1>2. line.what \notin Level!Sections /\ line.what # "floorPatches" /\ s # "none"
  BY <1>1 DEF Level!Sections
<1> HIDE DEF line
<1>3. Level!Taken(r, line) = Level!Meant(r, line)
  BY <1>1, <1>2, TakenOpenly
<1>4. Level!Meant(r, line) = Level!Begun(r)
  BY <1>1, <1>2 DEF Level!Meant, Stands
<1> QED
  BY <1>3, <1>4, BegunIs DEF line

\* A member of an item.
LEMMA TakenMember ==
  ASSUME NEW r, NEW s, NEW n, n # "none", NEW i, NEW l, Stands(r, s, n, i, l),
         NEW w \in MemberNames, w \in DOMAIN i, NEW v
  PROVE  Stands(Level!Taken(r, Level!Line(w, v)), s, n, [i EXCEPT ![w] = v], l)
<1> DEFINE line == Level!Line(w, v)
<1>1. line.what = w /\ line.value = v
  BY DEF Level!Line
<1>2. w \notin Level!Sections /\ w # "floorPatches" /\ w # "name" /\ w # "floorColor" /\ w # "{" /\ w # "}"
  BY DEF MemberNames, Level!Sections
<1> HIDE DEF line
<1>3. Level!Taken(r, line) = Level!Meant(r, line)
  BY <1>1, <1>2, TakenOpenly
<1>4. Level!Meant(r, line) = Level!Filled(r, w, v)
  BY <1>1, <1>2 DEF Level!Meant, Stands
<1> QED
  BY <1>3, <1>4, FilledIs DEF line

\* The end of an item.
LEMMA TakenShut ==
  ASSUME NEW r, NEW s, NEW n \in Level!Sections, NEW i, "}" \notin DOMAIN i, NEW l,
         Stands(r, s, n, i, l)
  PROVE  Stands(Level!Taken(r, Level!Line("}", 0)), s, "none", i, [l EXCEPT ![n] = Append(l[n], i)])
<1> DEFINE line == Level!Line("}", 0)
<1>1. line.what = "}" /\ n # "none"
  BY DEF Level!Line, Level!Sections
<1>2. line.what \notin Level!Sections /\ line.what # "floorPatches"
  BY <1>1 DEF Level!Sections
<1> HIDE DEF line
<1>3. Level!Taken(r, line) = Level!Meant(r, line)
  BY <1>1, <1>2, TakenOpenly
<1>4. Level!Meant(r, line) = Level!Finished(r)
  BY <1>1 DEF Level!Meant, Stands
<1> QED
  <2>1. Stands(Level!Finished(r), s, "none", i, [l EXCEPT ![n] = Append(l[n], i)])
    BY FinishedIs
  <2> QED
    BY <1>3, <1>4, <2>1 DEF line

\* The end of a section.
LEMMA TakenBracket ==
  ASSUME NEW r, NEW s, NEW i, NEW l, Stands(r, s, "none", i, l)
  PROVE  Stands(Level!Taken(r, Level!Line("]", 0)), "none", "none", i, l)
<1> DEFINE line == Level!Line("]", 0)
           q == Level!Closed(r, line)
<1>1. line.what = "]" /\ Level!HasBracket(line)
  BY DEF Level!Line, Level!HasBracket
<1>2. line.what \notin Level!Sections /\ line.what # "floorPatches"
  BY <1>1 DEF Level!Sections
<1> HIDE DEF line
<1>3. Level!Taken(r, line) = Level!Meant(q, line)
  BY <1>2, TakenMeant
<1>4. Stands(q, "none", "none", i, l)
  BY <1>1, ClosedIs
<1> HIDE DEF q
<1>5. Level!Meant(q, line) = q
  BY <1>1, <1>4 DEF Level!Meant, Stands
<1> QED
  BY <1>3, <1>4, <1>5 DEF line

\* The name, unless it spells a key.
LEMMA TakenName ==
  ASSUME NEW r, NEW s, NEW i, NEW l, Stands(r, s, "none", i, l), NEW v
  PROVE  Stands(Level!Taken(r, Level!Line("name", v)), s, "none", i, [l EXCEPT !.name = v])
<1> DEFINE line == Level!Line("name", v)
<1>1. line.what = "name" /\ line.value = v /\ ~Level!HasBracket(line)
  BY DEF Level!Line, Level!HasBracket
<1>2. line.what \notin Level!Sections /\ line.what # "floorPatches"
  BY <1>1 DEF Level!Sections
<1> HIDE DEF line
<1>3. Level!Taken(r, line) = Level!Meant(r, line)
  BY <1>1, <1>2, TakenOpenly
<1>4. Level!Meant(r, line) = Level!Named(r, v)
  BY <1>1 DEF Level!Meant, Stands
<1> QED
  BY <1>3, <1>4, NamedIs DEF line

\* The colour of the floor, which ends as well what the name may have started.
LEMMA TakenFloor ==
  ASSUME NEW r, NEW s, NEW i, NEW l, Stands(r, s, "none", i, l), NEW v
  PROVE  Stands(Level!Taken(r, Level!Line("floorColor", v)), "none", "none", i, [l EXCEPT !.floor = v])
<1> DEFINE line == Level!Line("floorColor", v)
           a == Level!Closed(r, line)
<1>1. line.what = "floorColor" /\ line.value = v /\ Level!HasBracket(line)
  BY DEF Level!Line, Level!HasBracket
<1>2. line.what \notin Level!Sections /\ line.what # "floorPatches"
  BY <1>1 DEF Level!Sections
<1> HIDE DEF line
<1>3. Level!Taken(r, line) = Level!Meant(a, line)
  BY <1>2, TakenMeant
<1>4. Stands(a, "none", "none", i, l)
  BY <1>1, ClosedIs
<1> HIDE DEF a
<1>5. Level!Meant(a, line) = Level!Floored(a, v)
  BY <1>1, <1>4 DEF Level!Meant, Stands
<1> QED
  BY <1>3, <1>4, <1>5, FlooredIs DEF line

\* Among the patches, which are what the name spells.
Patched(r, i, l) ==
  Shaped(r) /\ r.section = "none" /\ r.inside = "none" /\ r.item = i /\ r.level = l /\ r.patches

LEMMA TakenPatches ==
  ASSUME NEW r, NEW i, NEW l, Stands(r, "none", "none", i, l), NEW v
  PROVE  Patched(Level!Taken(r, Level!Line("floorPatches", v)), i, l)
<1> DEFINE line == Level!Line("floorPatches", v)
<1>1. line.what = "floorPatches"
  BY DEF Level!Line
<1> HIDE DEF line
<1>2. Level!Taken(r, line) = Level!Patching(r, TRUE)
  BY <1>1 DEF Level!Taken, Level!Sections
<1> DEFINE b == TRUE
           q == [r EXCEPT !.patches = b]
<1>3. b /\ Level!Patching(r, TRUE) = q
  BY DEF Level!Patching
<1> HIDE DEF b
<1>4. Patched(q, i, l)
  BY <1>3 DEF Stands, Patched, Shaped
<1> HIDE DEF q
<1> QED
  BY <1>2, <1>3, <1>4 DEF line

LEMMA TakenPatched ==
  ASSUME NEW r, NEW i, NEW l, Patched(r, i, l), NEW v
  PROVE  Stands(Level!Taken(r, Level!Line("floorColor", v)), "none", "none", i, l)
<1> DEFINE line == Level!Line("floorColor", v)
           b == ~Level!HasBracket(line)
           q == [r EXCEPT !.patches = b]
<1>1. line.what # "floorPatches" /\ Level!HasBracket(line)
  BY DEF Level!Line, Level!HasBracket
<1> HIDE DEF line
<1>2. Level!Taken(r, line) = Level!Patching(r, b)
  BY <1>1 DEF Level!Taken, Patched
<1>3. ~b /\ Level!Patching(r, b) = q
  BY <1>1 DEF Level!Patching
<1> HIDE DEF b
<1>4. Stands(q, "none", "none", i, l)
  BY <1>3 DEF Stands, Patched, Shaped
<1> HIDE DEF q
<1> QED
  BY <1>2, <1>3, <1>4 DEF line

-----------------------------------------------------------------------------
(***************************************************************************)
(* Where the reading may be.                                               *)
(***************************************************************************)
Standing(r, s, n) == Stands(r, s, n, r.item, r.level)

LevelMembers == {"name", "floor", "areas", "enemies", "obstacles"}
Whole(l) == l = [m \in LevelMembers |-> l[m]]

\* The number of items of each kind that are loaded after k of section s.
Before(s) ==
  {q \in Level!Sections : (q = "areas" /\ s # "areas") \/ (q = "enemies" /\ s = "obstacles")}
Amount(s, k) ==
  [q \in Level!Sections |-> IF q = s THEN k ELSE IF q \in Before(s) THEN Count(q) ELSE 0]
Everything == [q \in Level!Sections |-> Count(q)]

Loaded(l, c) ==
  /\ Whole(l)
  /\ \A q \in Level!Sections : c[q] \in 0 .. Count(q) /\ l[q] = Level!Items(q, c[q])

\* The name is lost only if it spells a key, and only then the colour of the floor may be.
Called(l) == l.name \in {written.name, "Untitled"}
Right(l) ==
  Called(l) /\ (written.name \notin Level!Keys => l.name = written.name /\ l.floor = written.floor)

\* The item that is read, up to the line o of it.
Partial(s, k, o) ==
  [m \in Level!ToSet(MembersOf(s)) |->
     IF \E j \in 1 .. o - 1 : MembersOf(s)[j] = m THEN k + 1 ELSE 0]

Rest(s, p) == SubSeq(Body(s, Count(s)), p + 1, Len(Body(s, Count(s))))

AtStart(ls, r) ==
  /\ ls = Level!Mark("{") \o (NameOf \o (FloorOf \o (Sect("areas") \o AfterOf("areas"))))
  /\ Standing(r, "none", "none") /\ r.level.name = "Untitled"
  /\ Loaded(r.level, Amount("areas", 0))

AtName(ls, r) ==
  /\ ls = NameOf \o (FloorOf \o (Sect("areas") \o AfterOf("areas")))
  /\ Standing(r, "none", "none") /\ r.level.name = "Untitled"
  /\ Loaded(r.level, Amount("areas", 0))

AtFloor(ls, r) ==
  /\ ls = FloorOf \o (Sect("areas") \o AfterOf("areas"))
  /\ \/ \E s : Standing(r, s, "none")
     \/ Patched(r, r.item, r.level) /\ written.name \in Level!Keys
  /\ Called(r.level)
  /\ written.name \notin Level!Keys => r.level.name = written.name
  /\ Loaded(r.level, Amount("areas", 0))

AtSection(ls, r, s) ==
  /\ ls = Sect(s) \o AfterOf(s)
  /\ Standing(r, "none", "none") /\ Right(r.level) /\ Loaded(r.level, Amount(s, 0))

InSection(ls, r, s, k, o) ==
  /\ ls = Rest(s, Width(s) * k + o) \o Ending(s)
  /\ o = 0 => Standing(r, s, "none")
  /\ o # 0 => k < Count(s) /\ Standing(r, s, s) /\ r.item = Partial(s, k, o)
  /\ Right(r.level) /\ Loaded(r.level, Amount(s, k))

AtClosing(ls, r) ==
  ls = Closing /\ Standing(r, "none", "none") /\ Right(r.level) /\ Loaded(r.level, Everything)

AtEnd(ls, r) ==
  ls = << >> /\ Standing(r, "none", "none") /\ Right(r.level) /\ Loaded(r.level, Everything)

AtSome(ls, r) == \E s \in Level!Sections : AtSection(ls, r, s)
InSome(ls, r) ==
  \E s \in Level!Sections, k \in Nat, o \in Nat :
    k <= Count(s) /\ o < Width(s) /\ InSection(ls, r, s, k, o)

Halfway(ls, r) ==
  \/ AtStart(ls, r) \/ AtName(ls, r) \/ AtFloor(ls, r)
  \/ AtSome(ls, r) \/ InSome(ls, r)
  \/ AtClosing(ls, r) \/ AtEnd(ls, r)

LevelInv ==
  /\ written \in Level!Saved
  /\ end = "reading" => Halfway(lines, reader)
  /\ LevelReadsBack

-----------------------------------------------------------------------------
\* The level as the reader has it starts empty.
LEMMA StartsAtStart ==
  ASSUME Counted, written.name \in Level!Names, written.floor = 1
  PROVE  AtStart(Level!saveLevelDefinition(written), Level!Nothing)
<1> DEFINE r == Level!Nothing
           e == [name |-> "Untitled", floor |-> 0, areas |-> << >>, enemies |-> << >>, obstacles |-> << >>]
           b == FALSE
           n == [section |-> "none", inside |-> "none", item |-> << >>, patches |-> b, level |-> e]
<1>1. r = n /\ ~b
  BY DEF Level!Nothing
<1>2. Standing(r, "none", "none") /\ r.level = e
  <2> HIDE DEF b, e
  <2>1. Standing(n, "none", "none") /\ n.level = e
    BY <1>1 DEF Standing, Stands, Shaped
  <2> HIDE DEF n, r
  <2> QED
    BY <1>1, <2>1
<1>3. Whole(e) /\ e.name = "Untitled" /\ \A q \in Level!Sections : e[q] = << >>
  BY DEF Whole, LevelMembers, Level!Sections
<1>4. ASSUME NEW q \in Level!Sections
      PROVE  Amount("areas", 0)[q] = 0 /\ 0 \in 0 .. Count(q) /\ Level!Items(q, 0) = << >>
  <2>1. Amount("areas", 0)[q] = 0
    BY DEF Amount, Before
  <2>2. 0 \in 0 .. Count(q)
    BY DEF Counted
  <2>3. Level!Items(q, 0) = << >>
    <3>1. 1 .. 0 = {}
      OBVIOUS
    <3>2. [i \in 1 .. 0 |-> Level!Item(q, i)] = << >>
      BY <3>1
    <3> QED
      BY <3>2 DEF Level!Items
  <2> QED
    BY <2>1, <2>2, <2>3
<1>5. Loaded(e, Amount("areas", 0))
  <2> HIDE DEF e
  <2> QED
    BY <1>3, <1>4 DEF Loaded
<1> HIDE DEF r, e, n
<1> QED
  BY <1>2, <1>3, <1>5, FileIs DEF AtStart, r

-----------------------------------------------------------------------------
\* An item, as its lines are read.
LEMMA PartialIs ==
  ASSUME NEW s \in Level!Sections, NEW k \in Nat
  PROVE  /\ Partial(s, k, 1) = Level!Item(s, 0)
         /\ Partial(s, k, Len(MembersOf(s)) + 1) = Level!Item(s, k + 1)
<1>1. DOMAIN MembersOf(s) = 1 .. Len(MembersOf(s)) /\ Len(MembersOf(s)) \in Nat
  BY MembersAre
<1>2. Level!ToSet(MembersOf(s)) = {MembersOf(s)[j] : j \in 1 .. Len(MembersOf(s))}
  BY <1>1 DEF Level!ToSet
<1>3. Partial(s, k, 1) = Level!Item(s, 0)
  <2>1. 1 .. 1 - 1 = {}
    OBVIOUS
  <2> QED
    BY <2>1 DEF Partial, Level!Item, MembersOf
<1>4. Partial(s, k, Len(MembersOf(s)) + 1) = Level!Item(s, k + 1)
  <2>1. (Len(MembersOf(s)) + 1) - 1 = Len(MembersOf(s))
    BY <1>1
  <2>2. \A m \in Level!ToSet(MembersOf(s)) : \E j \in 1 .. Len(MembersOf(s)) : MembersOf(s)[j] = m
    BY <1>2
  <2> QED
    BY <2>1, <2>2 DEF Partial, Level!Item, MembersOf
<1> QED
  BY <1>3, <1>4

LEMMA PartialStep ==
  ASSUME NEW s \in Level!Sections, NEW k \in Nat, NEW o \in 1 .. Len(MembersOf(s))
  PROVE  /\ MembersOf(s)[o] \in MemberNames /\ MembersOf(s)[o] \in DOMAIN Partial(s, k, o)
         /\ [Partial(s, k, o) EXCEPT ![MembersOf(s)[o]] = k + 1] = Partial(s, k, o + 1)
<1> DEFINE M == MembersOf(s)
           T == Level!ToSet(M)
           w == M[o]
<1>1. /\ M \in Seq(MemberNames) /\ DOMAIN M = 1 .. Len(M) /\ Len(M) \in Nat
      /\ T = {M[j] : j \in 1 .. Len(M)}
  BY MembersAre DEF Level!ToSet
<1>2. w \in MemberNames /\ w \in T
  BY <1>1, ElementOfSeq
<1>3. /\ Partial(s, k, o) = [m \in T |-> IF \E j \in 1 .. o - 1 : M[j] = m THEN k + 1 ELSE 0]
      /\ Partial(s, k, o + 1) = [m \in T |-> IF \E j \in 1 .. (o + 1) - 1 : M[j] = m THEN k + 1 ELSE 0]
  BY DEF Partial
<1>4. o \in Nat \ {0} /\ 1 .. (o + 1) - 1 = (1 .. o - 1) \cup {o}
  BY <1>1
<1> DEFINE a == Partial(s, k, o)
           b == Partial(s, k, o + 1)
<1>5. DOMAIN a = T /\ DOMAIN b = T /\ b = [m \in T |-> b[m]] /\ a = [m \in T |-> a[m]]
  BY <1>3
<1>6. ASSUME NEW m \in T PROVE b[m] = IF m = w THEN k + 1 ELSE a[m]
  BY <1>3, <1>4
<1> HIDE DEF a, b, T, w
<1>7. [a EXCEPT ![w] = k + 1] = b
  BY <1>2, <1>5, <1>6
<1> QED
  BY <1>2, <1>5, <1>7 DEF a, b, w

\* One more of the items.
LEMMA ItemsStep ==
  ASSUME NEW s \in Level!Sections, NEW k \in Nat
  PROVE  Level!Items(s, k + 1) = Append(Level!Items(s, k), Level!Item(s, k + 1))
<1> DEFINE a == Level!Items(s, k)
           b == Level!Items(s, k + 1)
           v == Level!Item(s, k + 1)
           S == {Level!Item(s, i) : i \in Nat}
<1>1. a \in Seq(S) /\ Len(a) = k /\ \A i \in 1 .. k : a[i] = Level!Item(s, i)
  BY DEF Level!Items
<1>2. b \in Seq(S) /\ Len(b) = k + 1 /\ \A i \in 1 .. k + 1 : b[i] = Level!Item(s, i)
  BY DEF Level!Items
<1>3. v \in S
  OBVIOUS
<1> DEFINE c == Append(a, v)
<1> HIDE DEF a, b, S
<1>4. c \in Seq(S) /\ Len(c) = k + 1 /\ \A i \in 1 .. k + 1 : c[i] = IF i = k + 1 THEN v ELSE a[i]
  <2> HIDE DEF v
  <2> QED
    BY <1>1, <1>3
<1> HIDE DEF c
<1>5. ASSUME NEW i \in 1 .. k + 1 PROVE b[i] = c[i]
  <2>1. CASE i = k + 1
    BY <1>2, <1>4, <2>1
  <2>2. CASE i # k + 1
    <3>1. i \in 1 .. k
      BY <2>2
    <3> QED
      BY <1>1, <1>2, <1>4, <3>1
  <2> QED
    BY <2>1, <2>2
<1>6. b = c
  BY <1>2, <1>4, <1>5, SeqEqual
<1> QED
  BY <1>6 DEF a, b, c

LEMMA LoadedMore ==
  ASSUME NEW s \in Level!Sections, NEW k \in Nat, Counted, k < Count(s),
         NEW l, Loaded(l, Amount(s, k)), Right(l)
  PROVE  /\ Loaded([l EXCEPT ![s] = Append(l[s], Level!Item(s, k + 1))], Amount(s, k + 1))
         /\ Right([l EXCEPT ![s] = Append(l[s], Level!Item(s, k + 1))])
<1> DEFINE v == Append(l[s], Level!Item(s, k + 1))
           m == [l EXCEPT ![s] = v]
<1>1. v = Level!Items(s, k + 1)
  <2>1. Amount(s, k)[s] = k
    BY DEF Amount
  <2> QED
    BY <2>1, ItemsStep DEF Loaded
<1>2. Whole(l)
  BY DEF Loaded
<1> HIDE DEF v
<1>3. /\ Whole(m) /\ m.name = l.name /\ m.floor = l.floor
      /\ \A q \in Level!Sections : m[q] = IF q = s THEN v ELSE l[q]
  <2>1. Whole(m)
    BY <1>2 DEF Whole, LevelMembers, Level!Sections
  <2>2. m.name = l.name /\ m.floor = l.floor
    BY <1>2 DEF Whole, LevelMembers, Level!Sections
  <2>3. \A q \in Level!Sections : m[q] = IF q = s THEN v ELSE l[q]
    BY <1>2 DEF Whole, LevelMembers, Level!Sections
  <2> QED
    BY <2>1, <2>2, <2>3
<1> HIDE DEF m
<1>4. ASSUME NEW q \in Level!Sections
      PROVE  Amount(s, k + 1)[q] \in 0 .. Count(q) /\ m[q] = Level!Items(q, Amount(s, k + 1)[q])
  <2>1. CASE q = s
    <3>1. Amount(s, k + 1)[q] = k + 1
      BY <2>1 DEF Amount
    <3>2. k + 1 \in 0 .. Count(q)
      BY <2>1 DEF Counted
    <3> QED
      BY <1>1, <1>3, <2>1, <3>1, <3>2
  <2>2. CASE q # s
    <3>1. Amount(s, k + 1)[q] = Amount(s, k)[q]
      BY <2>2 DEF Amount
    <3> QED
      BY <1>3, <2>2, <3>1 DEF Loaded
  <2> QED
    BY <2>1, <2>2
<1>5. Loaded(m, Amount(s, k + 1)) /\ Right(m)
  BY <1>3, <1>4 DEF Loaded, Right, Called
<1> QED
  BY <1>5 DEF m, v

\* All of a section, and none of the next one.
LEMMA AmountNext ==
  ASSUME Counted
  PROVE  /\ Amount("areas", Count("areas")) = Amount("enemies", 0)
         /\ Amount("enemies", Count("enemies")) = Amount("obstacles", 0)
         /\ Amount("obstacles", Count("obstacles")) = Everything
<1>1. ASSUME NEW q \in Level!Sections
      PROVE  /\ Amount("areas", Count("areas"))[q] = Amount("enemies", 0)[q]
             /\ Amount("enemies", Count("enemies"))[q] = Amount("obstacles", 0)[q]
             /\ Amount("obstacles", Count("obstacles"))[q] = Everything[q]
  BY DEF Amount, Everything, Before, Level!Sections
<1>2. \A s, k : Amount(s, k) = [q \in Level!Sections |-> Amount(s, k)[q]]
  BY DEF Amount
<1>3. Everything = [q \in Level!Sections |-> Everything[q]]
  BY DEF Everything
<1>4. Amount("areas", Count("areas")) = Amount("enemies", 0)
  BY <1>1, <1>2
<1>5. Amount("enemies", Count("enemies")) = Amount("obstacles", 0)
  BY <1>1, <1>2
<1>6. Amount("obstacles", Count("obstacles")) = Everything
  BY <1>1, <1>2, <1>3
<1> QED
  BY <1>4, <1>5, <1>6

-----------------------------------------------------------------------------
\* One line is read: of what stands around the sections,
Proper == Counted /\ written.name \in Level!Names /\ written.floor = 1

LEMMA PartsAre ==
  ASSUME Proper
  PROVE  /\ Level!NameLine(written.name) \in LineSet /\ Level!Line("floorColor", 1) \in LineSet
         /\ \A s \in Level!Sections : Sect(s) \o AfterOf(s) \in Seq(LineSet)
         /\ FloorOf \o (Sect("areas") \o AfterOf("areas")) \in Seq(LineSet)
         /\ NameOf \o (FloorOf \o (Sect("areas") \o AfterOf("areas"))) \in Seq(LineSet)
<1> DEFINE w == IF written.name \in Level!Keys THEN written.name ELSE "name"
<1>1. w \in Whats /\ written.name \in Nat \cup Level!Names
  BY DEF Whats, Proper
<1>2. Level!NameLine(written.name) = Level!Line(w, written.name)
  BY DEF Level!NameLine
<1>3. Level!NameLine(written.name) \in LineSet
  <2> HIDE DEF w
  <2> QED
    BY <1>1, <1>2, LineIs
<1>4. Level!Line("floorColor", 1) \in LineSet
  BY LineIs DEF Whats
<1>5. ASSUME NEW s \in Level!Sections PROVE Sect(s) \o AfterOf(s) \in Seq(LineSet)
  <2>1. Counted
    BY DEF Proper
  <2>2. AfterOf(s) \in Seq(LineSet)
    BY <2>1, AfterIs
  <2>3. Sect(s) \in Seq(LineSet)
    BY <2>1, <2>2, SectIs
  <2> QED
    BY <2>2, <2>3, ConcatProperties
<1>6. NameOf \in Seq(LineSet) /\ FloorOf \in Seq(LineSet)
  BY <1>3, <1>4, OneLine DEF NameOf, FloorOf, Proper
<1> DEFINE a == Sect("areas") \o AfterOf("areas")
           b == FloorOf \o a
<1>7. a \in Seq(LineSet)
  BY <1>5 DEF Level!Sections
<1>8. b \in Seq(LineSet)
  <2> HIDE DEF a
  <2> QED
    BY <1>6, <1>7, ConcatProperties
<1>9. NameOf \o b \in Seq(LineSet)
  <2> HIDE DEF b
  <2> QED
    BY <1>6, <1>8, ConcatProperties
<1> HIDE DEF a, b
<1>10. FloorOf \o (Sect("areas") \o AfterOf("areas")) \in Seq(LineSet)
  BY <1>8 DEF a, b
<1>11. NameOf \o (FloorOf \o (Sect("areas") \o AfterOf("areas"))) \in Seq(LineSet)
  BY <1>9 DEF a, b
<1> QED
  BY <1>3, <1>4, <1>5, <1>10, <1>11

\* What the line stands for leaves the item and the level.
LEMMA StandsIsStanding ==
  ASSUME NEW r, NEW s, NEW n, NEW i, NEW l, Stands(r, s, n, i, l)
  PROVE  Standing(r, s, n) /\ r.item = i /\ r.level = l
BY DEF Stands, Standing

LEMMA StepStart ==
  ASSUME Proper, NEW ls, NEW r, AtStart(ls, r)
  PROVE  ls # << >> /\ AtName(Tail(ls), Level!Taken(r, Head(ls)))
<1> DEFINE line == Level!Line("{", 0)
           t == NameOf \o (FloorOf \o (Sect("areas") \o AfterOf("areas")))
           q == Level!Taken(r, line)
<1>1. t \in Seq(LineSet)
  BY PartsAre
<1>2. ls = <<line>> \o t /\ line \in LineSet
  BY MarkIs DEF AtStart, Whats
<1>3. Head(ls) = line /\ Tail(ls) = t /\ ls # << >>
  <2> HIDE DEF t, line
  <2> QED
    BY <1>1, <1>2, HeadOfLine
<1>4. Stands(r, "none", "none", r.item, r.level)
  BY DEF AtStart, Standing
<1>5. Stands(q, "none", "none", r.item, r.level)
  BY <1>4, TakenBrace
<1>6. Standing(q, "none", "none") /\ q.level = r.level
  <2> HIDE DEF q
  <2> QED
    BY <1>5, StandsIsStanding
<1>7. AtName(t, q)
  <2> HIDE DEF q
  <2> QED
    BY <1>6 DEF AtName, AtStart
<1> HIDE DEF t, line, q
<1>8. Level!Taken(r, Head(ls)) = q
  BY <1>3 DEF q
<1> QED
  BY <1>3, <1>7, <1>8

\* the name,
LEMMA StepName ==
  ASSUME Proper, NEW ls, NEW r, AtName(ls, r)
  PROVE  ls # << >> /\ AtFloor(Tail(ls), Level!Taken(r, Head(ls)))
<1> DEFINE line == Level!NameLine(written.name)
           t == FloorOf \o (Sect("areas") \o AfterOf("areas"))
           q == Level!Taken(r, line)
<1>1. t \in Seq(LineSet) /\ line \in LineSet
  BY PartsAre
<1>2. ls = <<line>> \o t
  BY DEF AtName, NameOf
<1>3. Head(ls) = line /\ Tail(ls) = t /\ ls # << >>
  <2> HIDE DEF t, line
  <2> QED
    BY <1>1, <1>2, HeadOfLine
<1>4. Stands(r, "none", "none", r.item, r.level) /\ r.level.name = "Untitled"
  BY DEF AtName, Standing
<1>5. Loaded(r.level, Amount("areas", 0))
  BY DEF AtName
<1>6. ASSUME written.name \in Level!Sections PROVE AtFloor(t, q)
  <2>1. line = Level!Line(written.name, written.name)
    BY <1>6 DEF Level!NameLine, Level!Keys
  <2>2. Stands(q, written.name, "none", r.item, r.level)
    <3> HIDE DEF line
    <3> QED
      BY <1>4, <1>6, <2>1, TakenSection
  <2> HIDE DEF q, line, t
  <2>3. Standing(q, written.name, "none") /\ q.level = r.level
    BY <2>2, StandsIsStanding
  <2>4. written.name \in Level!Keys
    BY <1>6 DEF Level!Keys
  <2> QED
    BY <1>4, <1>5, <2>3, <2>4 DEF AtFloor, Called, t
<1>7. ASSUME written.name = "floorPatches" PROVE AtFloor(t, q)
  <2>1. line = Level!Line("floorPatches", written.name) /\ written.name \in Level!Keys
    BY <1>7 DEF Level!NameLine, Level!Keys
  <2>2. Patched(q, r.item, r.level)
    <3> HIDE DEF line
    <3> QED
      BY <1>4, <2>1, TakenPatches
  <2> HIDE DEF q, line, t
  <2>3. Patched(q, q.item, q.level) /\ q.level = r.level
    BY <2>2 DEF Patched
  <2> QED
    BY <1>4, <1>5, <2>1, <2>3 DEF AtFloor, Called, t
<1>8. ASSUME written.name \notin Level!Keys PROVE AtFloor(t, q)
  <2>1. line = Level!Line("name", written.name)
    BY <1>8 DEF Level!NameLine
  <2> DEFINE l == [r.level EXCEPT !.name = written.name]
  <2>2. Stands(q, "none", "none", r.item, l)
    <3> HIDE DEF line
    <3> QED
      BY <1>4, <2>1, TakenName
  <2>3. Loaded(l, Amount("areas", 0)) /\ l.name = written.name
    <3>1. Whole(r.level)
      BY <1>5 DEF Loaded
    <3>2. Whole(l) /\ l.name = written.name /\ \A p \in Level!Sections : l[p] = r.level[p]
      BY <3>1 DEF Whole, LevelMembers, Level!Sections
    <3> HIDE DEF l
    <3> QED
      BY <1>5, <3>2 DEF Loaded
  <2> HIDE DEF q, line, t, l
  <2>4. Standing(q, "none", "none") /\ q.level = l
    BY <2>2, StandsIsStanding
  <2> QED
    BY <2>3, <2>4 DEF AtFloor, Called, t
<1>9. AtFloor(t, q)
  BY <1>6, <1>7, <1>8 DEF Level!Keys
<1> HIDE DEF t, line, q
<1>10. Level!Taken(r, Head(ls)) = q
  BY <1>3 DEF q
<1> QED
  BY <1>3, <1>9, <1>10

\* the colour of the floor,
LEMMA StepFloor ==
  ASSUME Proper, NEW ls, NEW r, AtFloor(ls, r)
  PROVE  ls # << >> /\ AtSection(Tail(ls), Level!Taken(r, Head(ls)), "areas")
<1> DEFINE line == Level!Line("floorColor", 1)
           t == Sect("areas") \o AfterOf("areas")
           q == Level!Taken(r, line)
<1>1. t \in Seq(LineSet) /\ line \in LineSet
  BY PartsAre DEF Level!Sections
<1>2. ls = <<line>> \o t
  BY DEF AtFloor, FloorOf, Proper
<1>3. Head(ls) = line /\ Tail(ls) = t /\ ls # << >>
  <2> HIDE DEF t, line
  <2> QED
    BY <1>1, <1>2, HeadOfLine
<1>4. Loaded(r.level, Amount("areas", 0)) /\ Called(r.level)
  BY DEF AtFloor
<1>5. ASSUME NEW s, Standing(r, s, "none") PROVE AtSection(t, q, "areas")
  <2> DEFINE l == [r.level EXCEPT !.floor = 1]
  <2>1. Stands(q, "none", "none", r.item, l)
    <3>1. Stands(r, s, "none", r.item, r.level)
      BY <1>5 DEF Standing
    <3> QED
      BY <3>1, TakenFloor
  <2>2. Loaded(l, Amount("areas", 0)) /\ l.name = r.level.name /\ l.floor = 1
    <3>1. Whole(r.level)
      BY <1>4 DEF Loaded
    <3>2. /\ Whole(l) /\ l.name = r.level.name /\ l.floor = 1
          /\ \A p \in Level!Sections : l[p] = r.level[p]
      BY <3>1 DEF Whole, LevelMembers, Level!Sections
    <3> HIDE DEF l
    <3> QED
      BY <1>4, <3>2 DEF Loaded
  <2> HIDE DEF q, line, t, l
  <2>3. Standing(q, "none", "none") /\ q.level = l
    BY <2>1, StandsIsStanding
  <2>4. Right(l)
    BY <1>4, <2>2 DEF AtFloor, Right, Called, Proper
  <2> QED
    BY <2>2, <2>3, <2>4 DEF AtSection, t
<1>6. ASSUME Patched(r, r.item, r.level), written.name \in Level!Keys PROVE AtSection(t, q, "areas")
  <2>1. Stands(q, "none", "none", r.item, r.level)
    BY <1>6, TakenPatched
  <2> HIDE DEF q, line, t
  <2>2. Standing(q, "none", "none") /\ q.level = r.level
    BY <2>1, StandsIsStanding
  <2>3. Right(r.level)
    BY <1>4, <1>6 DEF Right
  <2> QED
    BY <1>4, <2>2, <2>3 DEF AtSection, t
<1>7. AtSection(t, q, "areas")
  <2> HIDE DEF t, q
  <2> QED
    BY <1>5, <1>6 DEF AtFloor
<1> HIDE DEF t, line, q
<1>8. Level!Taken(r, Head(ls)) = q
  BY <1>3 DEF q
<1> QED
  BY <1>3, <1>7, <1>8

\* the mark of a section,
LEMMA StepSection ==
  ASSUME Proper, NEW s \in Level!Sections, NEW ls, NEW r, AtSection(ls, r, s)
  PROVE  ls # << >> /\ InSection(Tail(ls), Level!Taken(r, Head(ls)), s, 0, 0)
<1> DEFINE line == Level!Line(s, 0)
           body == Body(s, Count(s))
           t == body \o Ending(s)
           q == Level!Taken(r, line)
<1>1. Counted /\ Count(s) \in Nat
  BY DEF Proper, Counted
<1>2. body \in Seq(LineSet) /\ AfterOf(s) \in Seq(LineSet) /\ Ending(s) \in Seq(LineSet)
  BY <1>1, BodyIs, AfterIs
<1>3. t \in Seq(LineSet)
  <2> HIDE DEF body
  <2> QED
    BY <1>2, ConcatProperties
<1>4. ls = <<line>> \o t /\ line \in LineSet
  <2>1. s \in Whats
    BY DEF Whats, Level!Keys
  <2>2. Level!Mark(s) = <<line>> /\ line \in LineSet
    BY <2>1, MarkIs
  <2>3. Sect(s) \o AfterOf(s) = Level!Mark(s) \o t
    BY <1>1, <1>2, SectIs DEF Ending
  <2> HIDE DEF line, t
  <2> QED
    BY <2>2, <2>3 DEF AtSection
<1>5. Head(ls) = line /\ Tail(ls) = t /\ ls # << >>
  <2> HIDE DEF t, line
  <2> QED
    BY <1>3, <1>4, HeadOfLine
<1>6. t = Rest(s, Width(s) * 0 + 0) \o Ending(s)
  <2>1. Width(s) * 0 + 0 = 0
    BY MembersAre DEF Width
  <2>2. Rest(s, 0) = body
    <3> HIDE DEF body
    <3>1. SubSeq(body, 1, Len(body)) = body
      BY <1>2
    <3>2. 0 + 1 = 1
      OBVIOUS
    <3> QED
      BY <3>1, <3>2 DEF Rest, body
  <2> HIDE DEF body
  <2> QED
    BY <2>1, <2>2
<1>7. Stands(r, "none", "none", r.item, r.level) /\ Right(r.level) /\ Loaded(r.level, Amount(s, 0))
  BY DEF AtSection, Standing
<1>8. Stands(q, s, "none", r.item, r.level)
  BY <1>7, TakenSection
<1>9. InSection(t, q, s, 0, 0)
  <2> HIDE DEF t, q
  <2>1. Standing(q, s, "none") /\ q.level = r.level
    BY <1>8, StandsIsStanding
  <2> QED
    BY <1>6, <1>7, <2>1 DEF InSection
<1> HIDE DEF t, line, q
<1>10. Level!Taken(r, Head(ls)) = q
  BY <1>5 DEF q
<1> QED
  BY <1>5, <1>9, <1>10

\* What is left of the items.
LEMMA RestIs ==
  ASSUME Proper, NEW s \in Level!Sections, NEW k \in Nat, NEW o \in Nat, k < Count(s), o < Width(s)
  PROVE  LET ls == Rest(s, Width(s) * k + o) \o Ending(s) IN
         /\ ls # << >> /\ Head(ls) = Part(s, k + 1)[o + 1]
         /\ Tail(ls) = Rest(s, Width(s) * k + (o + 1)) \o Ending(s)
<1> DEFINE body == Body(s, Count(s))
           w == Width(s)
           p == w * k + o
           e == Ending(s)
<1>1. Counted /\ Count(s) \in Nat
  BY DEF Proper, Counted
<1>2. body \in Seq(LineSet) /\ e \in Seq(LineSet) /\ Len(body) = w * Count(s)
  BY <1>1, BodyIs, AfterIs
<1>3. w \in Nat
  BY MembersAre DEF Width
<1>4. w * k \in Nat /\ w * Count(s) \in Nat /\ w * k + w <= w * Count(s)
  <2>1. w * (k + 1) = w * k + w /\ w * k \in Nat
    <3> HIDE DEF w
    <3> QED
      BY <1>3, Products
  <2>2. k + 1 \in Nat /\ k + 1 <= Count(s)
    BY <1>1
  <2>3. w * (k + 1) <= w * Count(s) /\ w * Count(s) \in Nat
    <3> HIDE DEF w
    <3> QED
      BY <1>1, <1>3, <2>2, Products
  <2> QED
    BY <2>1, <2>3
<1> DEFINE wk == w * k
           wc == w * Count(s)
<1>5. p \in Nat /\ p < Len(body) /\ p + 1 = wk + (o + 1) /\ p + 2 = (wk + (o + 1)) + 1
  <2>1. wk \in Nat /\ wc \in Nat /\ wk + w <= wc /\ p = wk + o /\ Len(body) = wc /\ o < w
    BY <1>2, <1>4
  <2> HIDE DEF body, w, p, wk, wc
  <2> QED
    BY <1>3, <2>1
<1>6. body[p + 1] = Part(s, k + 1)[o + 1]
  <2>1. k + 1 \in 1 .. Count(s) /\ (k + 1) - 1 = k
    BY <1>1
  <2>2. o + 1 \in 1 .. w
    BY <1>3
  <2>3. body[w * ((k + 1) - 1) + (o + 1)] = Part(s, k + 1)[o + 1]
    <3>1. \A j \in 1 .. Count(s), i \in 1 .. Width(s) :
            Body(s, Count(s))[Width(s) * (j - 1) + i] = Part(s, j)[i]
      BY <1>1, BodyIs
    <3> QED
      BY <2>1, <2>2, <3>1
  <2> QED
    BY <1>5, <2>1, <2>3
<1> DEFINE ls == SubSeq(body, p + 1, Len(body)) \o e
<1>7. ls # << >> /\ Head(ls) = body[p + 1] /\ Tail(ls) = SubSeq(body, p + 2, Len(body)) \o e
  <2> HIDE DEF body, p, e
  <2> QED
    BY <1>2, <1>5, HeadOfRest
<1>8. Rest(s, w * k + o) = SubSeq(body, p + 1, Len(body))
  BY DEF Rest
<1>9. Rest(s, w * k + (o + 1)) = SubSeq(body, p + 2, Len(body))
  <2>1. Rest(s, w * k + (o + 1)) = SubSeq(body, (wk + (o + 1)) + 1, Len(body))
    BY DEF Rest
  <2> QED
    BY <1>5, <2>1
<1> HIDE DEF body, w, p, wk, wc
<1> QED
  BY <1>6, <1>7, <1>8, <1>9 DEF w

\* and nothing is left of them.
LEMMA NoRest ==
  ASSUME Proper, NEW s \in Level!Sections
  PROVE  Rest(s, Width(s) * Count(s) + 0) \o Ending(s) = Ending(s) /\ Ending(s) \in Seq(LineSet)
<1> DEFINE body == Body(s, Count(s))
           n == Len(body)
<1>1. Counted /\ Count(s) \in Nat
  BY DEF Proper, Counted
<1>2. body \in Seq(LineSet) /\ Ending(s) \in Seq(LineSet) /\ n = Width(s) * Count(s)
  BY <1>1, BodyIs, AfterIs
<1>3. n \in Nat
  BY <1>2
<1>4. n + 0 = n
  BY <1>3
<1>5. Rest(s, n + 0) = SubSeq(body, n + 1, n)
  BY <1>4 DEF Rest
<1>6. SubSeq(body, n + 1, n) = << >>
  <2> HIDE DEF body, n
  <2>1. n + 1 \in Int /\ n \in Int /\ n < n + 1
    BY <1>3
  <2> QED
    BY <2>1, SubSeqEmpty
<1> HIDE DEF body, n
<1>7. << >> \o Ending(s) = Ending(s)
  BY <1>2, ConcatEmptySeq
<1> QED
  BY <1>2, <1>5, <1>6, <1>7

\* the start of an item,
LEMMA StepOpen ==
  ASSUME Proper, NEW s \in Level!Sections, NEW k \in Nat, k < Count(s),
         NEW ls, NEW r, InSection(ls, r, s, k, 0)
  PROVE  ls # << >> /\ InSection(Tail(ls), Level!Taken(r, Head(ls)), s, k, 1)
<1> DEFINE line == Level!Line("{", 0)
           t == Rest(s, Width(s) * k + 1) \o Ending(s)
           q == Level!Taken(r, line)
<1>1. Width(s) \in Nat /\ 0 < Width(s) /\ Len(MembersOf(s)) \in Nat
  BY MembersAre DEF Width
<1>2. ls # << >> /\ Head(ls) = Part(s, k + 1)[0 + 1] /\ Tail(ls) = Rest(s, Width(s) * k + (0 + 1)) \o Ending(s)
  <2>1. ls = Rest(s, Width(s) * k + 0) \o Ending(s)
    BY DEF InSection
  <2> QED
    BY <1>1, <2>1, RestIs
<1>3. Head(ls) = line /\ Tail(ls) = t
  <2>1. PartOf(Part(s, k + 1), s, k + 1)
    BY PartIs
  <2>2. 0 + 1 = 1
    OBVIOUS
  <2> QED
    BY <1>2, <2>1, <2>2 DEF PartOf
<1>4. Stands(r, s, "none", r.item, r.level) /\ Right(r.level) /\ Loaded(r.level, Amount(s, k))
  BY DEF InSection, Standing
<1>5. Stands(q, s, s, Level!Item(s, 0), r.level)
  BY <1>4, TakenOpen
<1>6. InSection(t, q, s, k, 1)
  <2> HIDE DEF t, q
  <2>1. Standing(q, s, s) /\ q.level = r.level /\ q.item = Partial(s, k, 1)
    BY <1>5, StandsIsStanding, PartialIs
  <2> QED
    BY <1>4, <2>1 DEF InSection, t
<1> HIDE DEF t, line, q
<1>7. Level!Taken(r, Head(ls)) = q
  BY <1>3 DEF q
<1> QED
  BY <1>2, <1>3, <1>6, <1>7

\* a member of it,
LEMMA StepMember ==
  ASSUME Proper, NEW s \in Level!Sections, NEW k \in Nat, NEW o \in 1 .. Len(MembersOf(s)),
         NEW ls, NEW r, InSection(ls, r, s, k, o)
  PROVE  ls # << >> /\ InSection(Tail(ls), Level!Taken(r, Head(ls)), s, k, o + 1)
<1> DEFINE w == MembersOf(s)[o]
           line == Level!Line(w, k + 1)
           t == Rest(s, Width(s) * k + (o + 1)) \o Ending(s)
           q == Level!Taken(r, line)
<1>1. /\ Width(s) \in Nat /\ Len(MembersOf(s)) \in Nat /\ o \in Nat \ {0} /\ o < Width(s)
      /\ s # "none"
  BY MembersAre DEF Width, Level!Sections
<1>2. k < Count(s) /\ Standing(r, s, s) /\ r.item = Partial(s, k, o)
  BY <1>1 DEF InSection
<1>3. ls # << >> /\ Head(ls) = Part(s, k + 1)[o + 1] /\ Tail(ls) = t
  <2>1. ls = Rest(s, Width(s) * k + o) \o Ending(s)
    BY DEF InSection
  <2> QED
    BY <1>1, <1>2, <2>1, RestIs
<1>4. Head(ls) = line
  <2>1. PartOf(Part(s, k + 1), s, k + 1)
    BY PartIs
  <2> QED
    BY <1>3, <2>1 DEF PartOf
<1>5. /\ w \in MemberNames /\ w \in DOMAIN Partial(s, k, o)
      /\ [Partial(s, k, o) EXCEPT ![w] = k + 1] = Partial(s, k, o + 1)
  BY PartialStep
<1>6. Stands(r, s, s, Partial(s, k, o), r.level) /\ Right(r.level) /\ Loaded(r.level, Amount(s, k))
  BY <1>2 DEF InSection, Standing
<1>7. Stands(q, s, s, Partial(s, k, o + 1), r.level)
  <2>1. Stands(q, s, s, [Partial(s, k, o) EXCEPT ![w] = k + 1], r.level)
    <3> DEFINE i == Partial(s, k, o)
    <3> HIDE DEF i, w
    <3> QED
      BY <1>1, <1>5, <1>6, TakenMember DEF i
  <2> QED
    BY <1>5, <2>1
<1>8. InSection(t, q, s, k, o + 1)
  <2> HIDE DEF t, q
  <2>1. Standing(q, s, s) /\ q.level = r.level /\ q.item = Partial(s, k, o + 1)
    BY <1>7, StandsIsStanding
  <2>2. o + 1 # 0
    BY <1>1
  <2> QED
    BY <1>2, <1>6, <2>1, <2>2 DEF InSection, t
<1> HIDE DEF t, line, q
<1>9. Level!Taken(r, Head(ls)) = q
  BY <1>4 DEF q
<1> QED
  BY <1>3, <1>8, <1>9

\* the end of it,
LEMMA StepShut ==
  ASSUME Proper, NEW s \in Level!Sections, NEW k \in Nat,
         NEW ls, NEW r, InSection(ls, r, s, k, Len(MembersOf(s)) + 1)
  PROVE  /\ ls # << >> /\ k + 1 <= Count(s)
         /\ InSection(Tail(ls), Level!Taken(r, Head(ls)), s, k + 1, 0)
<1> DEFINE o == Len(MembersOf(s)) + 1
           line == Level!Line("}", 0)
           t == Rest(s, Width(s) * (k + 1) + 0) \o Ending(s)
           q == Level!Taken(r, line)
           i == Level!Item(s, k + 1)
           l == [r.level EXCEPT ![s] = Append(r.level[s], i)]
<1>1. /\ Width(s) \in Nat /\ Len(MembersOf(s)) \in Nat /\ o \in Nat \ {0}
      /\ o < Width(s) /\ o + 1 = Width(s)
  BY MembersAre DEF Width
<1>2. /\ k < Count(s) /\ Standing(r, s, s) /\ r.item = Partial(s, k, o)
      /\ Right(r.level) /\ Loaded(r.level, Amount(s, k))
  BY <1>1 DEF InSection
<1>3. Counted /\ Count(s) \in Nat
  BY DEF Proper, Counted
<1>4. ls # << >> /\ Head(ls) = Part(s, k + 1)[o + 1] /\ Tail(ls) = Rest(s, Width(s) * k + (o + 1)) \o Ending(s)
  <2>1. ls = Rest(s, Width(s) * k + o) \o Ending(s)
    BY DEF InSection
  <2> HIDE DEF o
  <2> QED
    BY <1>1, <1>2, <2>1, RestIs
<1>5. Width(s) * k + (o + 1) = Width(s) * (k + 1) + 0
  <2>1. Width(s) * (k + 1) = Width(s) * k + Width(s) /\ Width(s) * k \in Nat
    BY <1>1, Products
  <2> QED
    BY <1>1, <2>1
<1>6. Head(ls) = line /\ Tail(ls) = t
  <2>1. PartOf(Part(s, k + 1), s, k + 1)
    BY PartIs
  <2> HIDE DEF o
  <2> QED
    BY <1>1, <1>4, <1>5, <2>1 DEF PartOf
<1>7. Partial(s, k, o) = i
  BY PartialIs
<1>8. Stands(r, s, s, i, r.level)
  BY <1>2, <1>7 DEF Standing
<1>9. "}" \notin DOMAIN i
  <2>1. DOMAIN i = {MembersOf(s)[j] : j \in 1 .. Len(MembersOf(s))}
    BY MembersAre DEF Level!Item, MembersOf, Level!ToSet
  <2>2. \A j \in 1 .. Len(MembersOf(s)) : MembersOf(s)[j] \in MemberNames
    BY MembersAre, ElementOfSeq
  <2> HIDE DEF i
  <2> QED
    BY <2>1, <2>2 DEF MemberNames
<1>10. Stands(q, s, "none", i, l)
  <2> HIDE DEF i
  <2> QED
    BY <1>8, <1>9, TakenShut
<1>11. Loaded(l, Amount(s, k + 1)) /\ Right(l)
  BY <1>2, <1>3, LoadedMore
<1>12. InSection(t, q, s, k + 1, 0)
  <2> HIDE DEF t, q, i, l
  <2>1. Standing(q, s, "none") /\ q.level = l
    BY <1>10, StandsIsStanding
  <2> QED
    BY <1>11, <2>1 DEF InSection, t
<1> HIDE DEF t, line, q
<1>13. Level!Taken(r, Head(ls)) = q
  BY <1>6 DEF q
<1>14. k + 1 <= Count(s)
  BY <1>2, <1>3
<1> QED
  BY <1>4, <1>6, <1>12, <1>13, <1>14

\* the end of a section,
LEMMA StepEnding ==
  ASSUME Proper, NEW s \in Level!Sections, NEW ls, NEW r, InSection(ls, r, s, Count(s), 0)
  PROVE  /\ ls # << >>
         /\ \/ AtSome(Tail(ls), Level!Taken(r, Head(ls)))
            \/ AtClosing(Tail(ls), Level!Taken(r, Head(ls)))
<1> DEFINE line == Level!Line("]", 0)
           t == AfterOf(s)
           q == Level!Taken(r, line)
<1>1. Counted
  BY DEF Proper
<1>2. t \in Seq(LineSet)
  BY <1>1, AfterIs
<1>3. ls = <<line>> \o t /\ line \in LineSet
  <2>1. ls = Ending(s)
    BY NoRest DEF InSection
  <2>2. Level!Mark("]") = <<line>> /\ line \in LineSet
    BY MarkIs DEF Whats
  <2> HIDE DEF line
  <2> QED
    BY <2>1, <2>2 DEF Ending
<1>4. Head(ls) = line /\ Tail(ls) = t /\ ls # << >>
  <2> HIDE DEF t, line
  <2> QED
    BY <1>2, <1>3, HeadOfLine
<1>5. /\ Stands(r, s, "none", r.item, r.level)
      /\ Right(r.level) /\ Loaded(r.level, Amount(s, Count(s)))
  BY DEF InSection, Standing
<1>6. Stands(q, "none", "none", r.item, r.level)
  BY <1>5, TakenBracket
<1>7. Standing(q, "none", "none") /\ q.level = r.level
  <2> HIDE DEF q
  <2> QED
    BY <1>6, StandsIsStanding
<1> HIDE DEF line, q
<1>8. AtSome(t, q) \/ AtClosing(t, q)
  <2>1. CASE s = "areas"
    <3>1. t = Sect("enemies") \o AfterOf("enemies")
      BY <2>1 DEF AfterOf
    <3>2. Loaded(q.level, Amount("enemies", 0))
      BY <1>1, <1>5, <1>7, <2>1, AmountNext
    <3> HIDE DEF t
    <3>3. AtSection(t, q, "enemies")
      BY <1>5, <1>7, <3>1, <3>2 DEF AtSection
    <3> QED
      BY <3>3 DEF AtSome, Level!Sections
  <2>2. CASE s = "enemies"
    <3>1. t = Sect("obstacles") \o AfterOf("obstacles")
      BY <2>2 DEF AfterOf
    <3>2. Loaded(q.level, Amount("obstacles", 0))
      BY <1>1, <1>5, <1>7, <2>2, AmountNext
    <3> HIDE DEF t
    <3>3. AtSection(t, q, "obstacles")
      BY <1>5, <1>7, <3>1, <3>2 DEF AtSection
    <3> QED
      BY <3>3 DEF AtSome, Level!Sections
  <2>3. CASE s = "obstacles"
    <3>1. t = Closing
      BY <2>3 DEF AfterOf
    <3>2. Loaded(q.level, Everything)
      BY <1>1, <1>5, <1>7, <2>3, AmountNext
    <3> HIDE DEF t
    <3> QED
      BY <1>5, <1>7, <3>1, <3>2 DEF AtClosing
  <2> HIDE DEF t
  <2> QED
    BY <2>1, <2>2, <2>3 DEF Level!Sections
<1> HIDE DEF t
<1>9. Level!Taken(r, Head(ls)) = q
  BY <1>4 DEF q
<1> QED
  BY <1>4, <1>8, <1>9

\* and the last line.
LEMMA StepClosing ==
  ASSUME NEW ls, NEW r, AtClosing(ls, r)
  PROVE  ls # << >> /\ AtEnd(Tail(ls), Level!Taken(r, Head(ls)))
<1> DEFINE line == Level!Line("}", 0)
           q == Level!Taken(r, line)
<1>1. ls = <<line>>
  BY MarkIs DEF AtClosing, Closing, Whats
<1>2. Head(ls) = line /\ Tail(ls) = << >> /\ ls # << >>
  <2> HIDE DEF line
  <2> QED
    BY <1>1
<1>3. Stands(r, "none", "none", r.item, r.level) /\ Right(r.level) /\ Loaded(r.level, Everything)
  BY DEF AtClosing, Standing
<1>4. Stands(q, "none", "none", r.item, r.level)
  BY <1>3, TakenBrace
<1>5. Standing(q, "none", "none") /\ q.level = r.level
  <2> HIDE DEF q
  <2> QED
    BY <1>4, StandsIsStanding
<1> HIDE DEF line, q
<1>6. Level!Taken(r, Head(ls)) = q
  BY <1>2 DEF q
<1> QED
  BY <1>2, <1>3, <1>5, <1>6 DEF AtEnd

-----------------------------------------------------------------------------
\* Every line leads from one place to another, and after the last one all is loaded.
LEMMA HalfwayOn ==
  ASSUME Proper, NEW ls, NEW r, Halfway(ls, r), ls # << >>
  PROVE  Halfway(Tail(ls), Level!Taken(r, Head(ls)))
<1> DEFINE t == Tail(ls)
           q == Level!Taken(r, Head(ls))
<1>1. ASSUME AtStart(ls, r) PROVE Halfway(t, q)
  BY <1>1, StepStart DEF Halfway
<1>2. ASSUME AtName(ls, r) PROVE Halfway(t, q)
  BY <1>2, StepName DEF Halfway
<1>3. ASSUME AtFloor(ls, r) PROVE Halfway(t, q)
  <2>1. AtSection(t, q, "areas") /\ "areas" \in Level!Sections
    BY <1>3, StepFloor DEF Level!Sections
  <2> HIDE DEF t, q
  <2>2. AtSome(t, q)
    BY <2>1 DEF AtSome
  <2> QED
    BY <2>2 DEF Halfway
<1>4. ASSUME AtSome(ls, r) PROVE Halfway(t, q)
  <2>1. PICK s \in Level!Sections : AtSection(ls, r, s)
    BY <1>4 DEF AtSome
  <2>2. InSection(t, q, s, 0, 0)
    BY <2>1, StepSection
  <2>3. 0 <= Count(s) /\ 0 < Width(s)
    BY MembersAre DEF Proper, Counted, Width
  <2> HIDE DEF t, q
  <2>4. InSome(t, q)
    BY <2>2, <2>3 DEF InSome
  <2> QED
    BY <2>4 DEF Halfway
<1>5. ASSUME InSome(ls, r) PROVE Halfway(t, q)
  <2>1. PICK s \in Level!Sections, k \in Nat, o \in Nat :
          k <= Count(s) /\ o < Width(s) /\ InSection(ls, r, s, k, o)
    BY <1>5 DEF InSome
  <2>2. /\ Count(s) \in Nat /\ Len(MembersOf(s)) \in Nat \ {0}
        /\ Width(s) = Len(MembersOf(s)) + 2
    BY MembersAre DEF Proper, Counted, Width
  <2>3. ASSUME o = 0, k < Count(s) PROVE Halfway(t, q)
    <3>1. InSection(t, q, s, k, 1) /\ 1 < Width(s)
      BY <2>1, <2>2, <2>3, StepOpen
    <3> HIDE DEF t, q
    <3>2. InSome(t, q)
      BY <2>1, <3>1 DEF InSome
    <3> QED
      BY <3>2 DEF Halfway
  <2>4. ASSUME o = 0, ~(k < Count(s)) PROVE Halfway(t, q)
    <3>1. k = Count(s)
      BY <2>1, <2>2, <2>4
    <3>2. AtSome(t, q) \/ AtClosing(t, q)
      BY <2>1, <2>4, <3>1, StepEnding
    <3> HIDE DEF t, q
    <3> QED
      BY <3>2 DEF Halfway
  <2>5. ASSUME o \in 1 .. Len(MembersOf(s)) PROVE Halfway(t, q)
    <3>1. InSection(t, q, s, k, o + 1) /\ o + 1 \in Nat /\ o + 1 < Width(s)
      BY <2>1, <2>2, <2>5, StepMember
    <3> HIDE DEF t, q
    <3>2. InSome(t, q)
      BY <2>1, <3>1 DEF InSome
    <3> QED
      BY <3>2 DEF Halfway
  <2>6. ASSUME o = Len(MembersOf(s)) + 1 PROVE Halfway(t, q)
    <3>1. InSection(t, q, s, k + 1, 0) /\ k + 1 <= Count(s) /\ k + 1 \in Nat /\ 0 < Width(s)
      BY <2>1, <2>2, <2>6, StepShut
    <3> HIDE DEF t, q
    <3>2. InSome(t, q)
      BY <3>1 DEF InSome
    <3> QED
      BY <3>2 DEF Halfway
  <2>7. o = 0 \/ o \in 1 .. Len(MembersOf(s)) \/ o = Len(MembersOf(s)) + 1
    BY <2>1, <2>2
  <2> HIDE DEF t, q
  <2> QED
    BY <2>3, <2>4, <2>5, <2>6, <2>7
<1>6. ASSUME AtClosing(ls, r) PROVE Halfway(t, q)
  BY <1>6, StepClosing DEF Halfway
<1>7. ~AtEnd(ls, r)
  BY DEF AtEnd
<1> HIDE DEF t, q
<1>8. Halfway(t, q)
  BY <1>1, <1>2, <1>3, <1>4, <1>5, <1>6, <1>7 DEF Halfway
<1> QED
  BY <1>8 DEF t, q

LEMMA HalfwayDone ==
  ASSUME Proper, NEW r, Halfway(<< >>, r)
  PROVE  AtEnd(<< >>, r)
<1> DEFINE ls == << >>
<1>1. ~AtStart(ls, r) /\ ~AtName(ls, r) /\ ~AtFloor(ls, r) /\ ~AtClosing(ls, r)
  <2> HIDE DEF ls
  <2>1. ls = << >>
    BY DEF ls
  <2> QED
    BY <2>1, StepStart, StepName, StepFloor, StepClosing
<1>2. ~AtSome(ls, r)
  BY StepSection DEF AtSome
<1>3. ~InSome(ls, r)
  <2> SUFFICES ASSUME NEW s \in Level!Sections, NEW k \in Nat, NEW o \in Nat,
                      k <= Count(s), o < Width(s), InSection(ls, r, s, k, o)
               PROVE  FALSE
    BY DEF InSome
  <2> HIDE DEF ls
  <2>0. ls = << >>
    BY DEF ls
  <2>1. /\ Count(s) \in Nat /\ Len(MembersOf(s)) \in Nat \ {0}
        /\ Width(s) = Len(MembersOf(s)) + 2
    BY MembersAre DEF Proper, Counted, Width
  <2>2. o = 0 \/ o \in 1 .. Len(MembersOf(s)) \/ o = Len(MembersOf(s)) + 1
    BY <2>1
  <2>3. CASE o = 0 /\ k < Count(s)
    BY <2>0, <2>3, StepOpen
  <2>4. CASE o = 0 /\ k = Count(s)
    BY <2>0, <2>4, StepEnding
  <2>5. CASE o \in 1 .. Len(MembersOf(s))
    BY <2>0, <2>5, StepMember
  <2>6. CASE o = Len(MembersOf(s)) + 1
    BY <2>0, <2>6, StepShut
  <2>7. k < Count(s) \/ k = Count(s)
    BY <2>1
  <2> QED
    BY <2>2, <2>3, <2>4, <2>5, <2>6, <2>7
<1> QED
  BY <1>1, <1>2, <1>3 DEF Halfway

\* On the way there are some of the items, and the name is no other.
Readable(r) == Shaped(r) /\ Called(r.level) /\ \E c : Loaded(r.level, c)

LEMMA HalfwayReadable ==
  ASSUME NEW ls, NEW r, Halfway(ls, r)
  PROVE  Readable(r)
<1>1. \A s, n : Standing(r, s, n) => Shaped(r)
  BY DEF Standing, Stands
<1>2. Right(r.level) => Called(r.level)
  BY DEF Right
<1>3. r.level.name = "Untitled" => Called(r.level)
  BY DEF Called
<1>4. CASE AtStart(ls, r)
  BY <1>1, <1>3, <1>4 DEF AtStart, Readable
<1>5. CASE AtName(ls, r)
  BY <1>1, <1>3, <1>5 DEF AtName, Readable
<1>6. CASE AtFloor(ls, r)
  <2>1. Shaped(r)
    BY <1>1, <1>6 DEF AtFloor, Patched
  <2> QED
    BY <1>6, <2>1 DEF AtFloor, Readable
<1>7. CASE AtSome(ls, r)
  BY <1>1, <1>2, <1>7 DEF AtSome, AtSection, Readable
<1>8. CASE InSome(ls, r)
  <2>1. PICK s \in Level!Sections, k \in Nat, o \in Nat : InSection(ls, r, s, k, o)
    BY <1>8 DEF InSome
  <2>2. Shaped(r)
    BY <1>1, <2>1 DEF InSection
  <2> QED
    BY <1>2, <2>1, <2>2 DEF InSection, Readable
<1>9. CASE AtClosing(ls, r)
  BY <1>1, <1>2, <1>9 DEF AtClosing, Readable
<1>10. CASE AtEnd(ls, r)
  BY <1>1, <1>2, <1>10 DEF AtEnd, Readable
<1> QED
  BY <1>4, <1>5, <1>6, <1>7, <1>8, <1>9, <1>10 DEF Halfway

LEMMA FirstItems ==
  ASSUME NEW s \in Level!Sections, NEW n \in Nat, NEW c \in 0 .. n
  PROVE  Level!IsPrefix(Level!Items(s, c), Level!Items(s, n))
<1> DEFINE a == Level!Items(s, c)
           b == Level!Items(s, n)
           S == {Level!Item(s, i) : i \in Nat}
<1>1. a \in Seq(S) /\ Len(a) = c /\ \A i \in 1 .. c : a[i] = Level!Item(s, i)
  BY DEF Level!Items
<1>2. b \in Seq(S) /\ Len(b) = n /\ \A i \in 1 .. n : b[i] = Level!Item(s, i)
  BY DEF Level!Items
<1> HIDE DEF a, b, S
<1>3. c \in Nat /\ c <= n /\ \A i \in 1 .. c : i \in 1 .. n /\ a[i] \in S /\ b[i] \in S /\ a[i] = b[i]
  BY <1>1, <1>2
<1> DEFINE d == SubSeq(a, 1, c)
           e == SubSeq(b, 1, c)
<1>4. /\ d \in Seq(S) /\ Len(d) = IF 1 <= c THEN (c - 1) + 1 ELSE 0
      /\ \A i \in 1 .. (c - 1) + 1 : d[i] = a[(1 + i) - 1]
  BY <1>3, SubSeqProperties
<1>5. /\ e \in Seq(S) /\ Len(e) = IF 1 <= c THEN (c - 1) + 1 ELSE 0
      /\ \A i \in 1 .. (c - 1) + 1 : e[i] = b[(1 + i) - 1]
  BY <1>3, SubSeqProperties
<1> HIDE DEF d, e
<1>6. Len(d) = c /\ Len(e) = c /\ \A i \in 1 .. c : d[i] = a[i] /\ e[i] = b[i]
  BY <1>3, <1>4, <1>5
<1>7. d = e
  BY <1>3, <1>4, <1>5, <1>6, SeqEqual
<1> QED
  BY <1>1, <1>2, <1>3, <1>7 DEF Level!IsPrefix, a, b, d, e

LEMMA ReadableIs ==
  ASSUME Proper, NEW l, NEW c, Loaded(l, c), NEW s \in Level!Sections
  PROVE  Level!IsPrefix(l[s], written[s])
BY FirstItems DEF Proper, Counted, Loaded

-----------------------------------------------------------------------------
LEMMA LevelInit == FilesInit => LevelInv
<1> SUFFICES ASSUME FilesInit PROVE LevelInv
  OBVIOUS
<1>1. /\ written \in Level!Saved /\ lines = Level!saveLevelDefinition(written)
      /\ reader = Level!Nothing /\ end = "reading"
  BY DEF FilesInit, Level!LevelFileInit
<1>2. AtStart(lines, reader)
  BY <1>1, SavedCounted, StartsAtStart
<1>3. Halfway(lines, reader)
  BY <1>2 DEF Halfway
<1>4. LevelReadsBack
  BY <1>1 DEF LevelReadsBack, Level!LevelReadsBack
<1> QED
  BY <1>1, <1>3, <1>4 DEF LevelInv

\* The places speak of the level that was saved, which no step changes.
LEMMA LinesKept ==
  ASSUME written' = written
  PROVE  /\ \A s : Count(s)' = Count(s) /\ Sect(s)' = Sect(s)
         /\ \A s : AfterOf(s)' = AfterOf(s) /\ Ending(s)' = Ending(s)
         /\ \A s, p : Rest(s, p)' = Rest(s, p)
         /\ NameOf' = NameOf /\ FloorOf' = FloorOf
<1>1. ASSUME NEW s PROVE Count(s)' = Count(s) /\ Sect(s)' = Sect(s)
  BY DEF Count, Sect
<1>2. ASSUME NEW s PROVE AfterOf(s)' = AfterOf(s)
  <2>1. Sect("enemies")' = Sect("enemies") /\ Sect("obstacles")' = Sect("obstacles")
    BY <1>1
  <2> QED
    BY <2>1 DEF AfterOf
<1>3. ASSUME NEW s PROVE Ending(s)' = Ending(s)
  BY <1>2 DEF Ending
<1>4. ASSUME NEW s, NEW p PROVE Rest(s, p)' = Rest(s, p)
  BY <1>1 DEF Rest
<1>5. NameOf' = NameOf /\ FloorOf' = FloorOf
  BY DEF NameOf, FloorOf
<1> QED
  BY <1>1, <1>2, <1>3, <1>4, <1>5

LEMMA LoadedKept ==
  ASSUME written' = written
  PROVE  /\ \A s, k : Amount(s, k)' = Amount(s, k)
         /\ Everything' = Everything
<1>1. ASSUME NEW s PROVE Count(s)' = Count(s)
  BY DEF Count
<1>2. ASSUME NEW s, NEW k PROVE Amount(s, k)' = Amount(s, k)
  BY <1>1 DEF Amount
<1>3. Everything' = Everything
  BY <1>1 DEF Everything
<1> QED
  BY <1>2, <1>3

LEMMA HalfwayMoved ==
  ASSUME NEW ls, NEW r, Halfway(ls, r), lines' = ls, reader' = r, written' = written
  PROVE  Halfway(lines, reader)'
<1>1. /\ \A s : Count(s)' = Count(s) /\ Sect(s)' = Sect(s)
      /\ \A s : AfterOf(s)' = AfterOf(s) /\ Ending(s)' = Ending(s)
      /\ \A s, p : Rest(s, p)' = Rest(s, p)
      /\ NameOf' = NameOf /\ FloorOf' = FloorOf
  BY LinesKept
<1>2. \A s, k : Amount(s, k)' = Amount(s, k)
  BY LoadedKept
<1>3. Everything' = Everything
  BY LoadedKept
<1>4. Called(reader.level)' <=> Called(r.level)
  BY DEF Called
<1>5. Right(reader.level)' <=> Right(r.level)
  BY <1>4 DEF Right
<1>6. ASSUME NEW s, NEW k PROVE Loaded(reader.level, Amount(s, k))' <=> Loaded(r.level, Amount(s, k))
  BY <1>1, <1>2 DEF Loaded
<1>7. Loaded(reader.level, Everything)' <=> Loaded(r.level, Everything)
  BY <1>1, <1>3 DEF Loaded
<1>8. ASSUME NEW s, NEW n PROVE Standing(reader, s, n)' <=> Standing(r, s, n)
  BY DEF Standing, Stands, Shaped
<1>9. ASSUME AtStart(ls, r) PROVE AtStart(lines, reader)'
  BY <1>1, <1>6, <1>8, <1>9 DEF AtStart
<1>10. ASSUME AtName(ls, r) PROVE AtName(lines, reader)'
  BY <1>1, <1>6, <1>8, <1>10 DEF AtName
<1>11. ASSUME AtFloor(ls, r) PROVE AtFloor(lines, reader)'
  <2>1. Patched(reader, reader.item, reader.level)' <=> Patched(r, r.item, r.level)
    BY DEF Patched, Shaped
  <2> QED
    BY <1>1, <1>4, <1>6, <1>8, <1>11, <2>1 DEF AtFloor
<1>12. ASSUME NEW s \in Level!Sections, AtSection(ls, r, s) PROVE AtSection(lines, reader, s)'
  BY <1>1, <1>5, <1>6, <1>8, <1>12 DEF AtSection
<1>13. ASSUME NEW s \in Level!Sections, NEW k \in Nat, NEW o \in Nat, InSection(ls, r, s, k, o)
       PROVE  InSection(lines, reader, s, k, o)'
  BY <1>1, <1>5, <1>6, <1>8, <1>13 DEF InSection
<1>14. ASSUME AtClosing(ls, r) PROVE AtClosing(lines, reader)'
  BY <1>5, <1>7, <1>8, <1>14 DEF AtClosing
<1>15. ASSUME AtEnd(ls, r) PROVE AtEnd(lines, reader)'
  BY <1>5, <1>7, <1>8, <1>15 DEF AtEnd
<1>16. ASSUME AtSome(ls, r) PROVE AtSome(lines, reader)'
  BY <1>12, <1>16 DEF AtSome
<1>17. ASSUME InSome(ls, r) PROVE InSome(lines, reader)'
  BY <1>1, <1>13, <1>17 DEF InSome
<1> QED
  BY <1>9, <1>10, <1>11, <1>14, <1>15, <1>16, <1>17 DEF Halfway

LEMMA ReadKeeps ==
  ASSUME LevelInv, Level!ReadLine
  PROVE  LevelInv'
<1>1. /\ end = "reading" /\ lines # << >> /\ UNCHANGED <<written, end>>
      /\ reader' = Level!Taken(reader, Head(lines)) /\ lines' = Tail(lines)
  BY DEF Level!ReadLine
<1>2. Proper
  BY SavedCounted DEF LevelInv, Proper
<1>3. Halfway(Tail(lines), Level!Taken(reader, Head(lines)))
  BY <1>1, <1>2, HalfwayOn DEF LevelInv
<1>4. Halfway(lines, reader)'
  BY <1>1, <1>3, HalfwayMoved
<1>5. LevelReadsBack'
  BY <1>1 DEF LevelReadsBack, Level!LevelReadsBack
<1>6. (written \in Level!Saved)'
  BY <1>1 DEF LevelInv
<1> QED
  BY <1>4, <1>5, <1>6 DEF LevelInv

\* What is loaded of a file that is cut short.
LEMMA CutKeeps ==
  ASSUME LevelInv, Level!CutShort
  PROVE  LevelInv'
<1>1. /\ end = "reading" /\ end' = "cut" /\ written' = written
      /\ reader' = reader \/ (~reader.patches /\ reader' = Level!Floored(reader, 2))
  BY DEF Level!CutShort
<1>2. Proper
  BY SavedCounted DEF LevelInv, Proper
<1>3. Readable(reader)
  BY <1>1, HalfwayReadable DEF LevelInv
<1>4. PICK c : Loaded(reader.level, c)
  BY <1>3 DEF Readable
<1>5. Called(reader'.level) /\ Loaded(reader'.level, c)
  <2>1. CASE reader' = reader
    BY <1>3, <1>4, <2>1 DEF Readable
  <2>2. CASE ~reader.patches /\ reader' = Level!Floored(reader, 2)
    <3> DEFINE l == [reader.level EXCEPT !.floor = 2]
    <3>1. Stands(reader, reader.section, reader.inside, reader.item, reader.level)
      BY <1>3, <2>2 DEF Stands, Readable
    <3>2. reader'.level = l
      <4>1. Stands(reader', reader.section, reader.inside, reader.item, l)
        BY <2>2, <3>1, FlooredIs
      <4> HIDE DEF l
      <4> QED
        BY <4>1 DEF Stands
    <3>3. Whole(reader.level)
      BY <1>4 DEF Loaded
    <3>4. Whole(l) /\ l.name = reader.level.name /\ \A q \in Level!Sections : l[q] = reader.level[q]
      BY <3>3 DEF Whole, LevelMembers, Level!Sections
    <3> HIDE DEF l
    <3>5. Called(l) /\ Loaded(l, c)
      BY <1>3, <1>4, <3>4 DEF Readable, Called, Loaded
    <3> QED
      BY <3>2, <3>5
  <2> QED
    BY <1>1, <2>1, <2>2
<1>6. \A s \in Level!Sections : Level!IsPrefix(reader'.level[s], written[s])
  BY <1>2, <1>5, ReadableIs
<1>7. LevelReadsBack'
  BY <1>1, <1>5, <1>6 DEF LevelReadsBack, Level!LevelReadsBack, Called
<1>8. (written \in Level!Saved)'
  BY <1>1 DEF LevelInv
<1> QED
  BY <1>1, <1>7, <1>8 DEF LevelInv

\* What is loaded of a whole file.
LEMMA EndKeeps ==
  ASSUME LevelInv, Level!EndOfFile
  PROVE  LevelInv'
<1>1. end = "reading" /\ lines = << >> /\ end' = "end" /\ UNCHANGED <<written, lines, reader>>
  BY DEF Level!EndOfFile
<1>2. Proper
  BY SavedCounted DEF LevelInv, Proper
<1>3. Right(reader.level) /\ Loaded(reader.level, Everything)
  <2>1. AtEnd(<< >>, reader)
    BY <1>1, <1>2, HalfwayDone DEF LevelInv
  <2> QED
    BY <2>1 DEF AtEnd
<1>4. \A s \in Level!Sections : reader.level[s] = written[s]
  BY <1>2, <1>3 DEF Loaded, Everything, Proper, Counted
<1>5. LevelReadsBack'
  BY <1>1, <1>3, <1>4 DEF LevelReadsBack, Level!LevelReadsBack, Right, Called
<1>6. (written \in Level!Saved)'
  BY <1>1 DEF LevelInv
<1> QED
  BY <1>1, <1>5, <1>6 DEF LevelInv

\* Wherever the reading of a level is, the reader has the items that came before and stands in
\* the section of the line it reads next (saveLevelDefinition, loadLevelDefinition).
THEOREM LevelInvariant == FilesSpec => []LevelInv
<1>1. LevelInv /\ [FilesNext]_<<vars, readVars, levelVars, reads>> => LevelInv'
  <2> SUFFICES ASSUME LevelInv, [FilesNext]_<<vars, readVars, levelVars, reads>> PROVE LevelInv'
    OBVIOUS
  <2>1. CASE UNCHANGED levelVars
    <3>1. UNCHANGED <<lines, reader, written>> /\ end' = end
      BY <2>1 DEF levelVars
    <3>2. end = "reading" => Halfway(lines, reader)'
      BY <3>1, HalfwayMoved DEF LevelInv
    <3>3. LevelReadsBack' /\ (written \in Level!Saved)'
      BY <3>1 DEF LevelInv, LevelReadsBack, Level!LevelReadsBack
    <3> QED
      BY <3>1, <3>2, <3>3 DEF LevelInv
  <2>2. CASE Level!LevelFileNext
    BY <2>2, ReadKeeps, CutKeeps, EndKeeps DEF Level!LevelFileNext
  <2> QED
    BY <2>1, <2>2 DEF FilesNext
<1> QED
  BY <1>1, LevelInit, PTL DEF FilesSpec

\* A level is loaded as it was saved, and from the beginning of a file are loaded the first
\* items, each of them whole (LevelData::saveLevelDefinition, loadLevelDefinition).
THEOREM LevelFaithful == FilesSpec => []LevelReadsBack
<1>1. LevelInv => LevelReadsBack
  BY DEF LevelInv
<1> QED
  BY <1>1, LevelInvariant, PTL

=============================================================================
