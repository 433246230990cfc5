---------------------------- MODULE CombatProofs ----------------------------
(***************************************************************************)
(* Scores, kill feeds and rewound shots: kills, deaths, respawns and       *)
(* health tell the same story, every feed agrees with the scores shown     *)
(* with it, and who aims at a living opponent he sees hits him.            *)
(***************************************************************************)
EXTENDS Combat, FiniteSetTheorems, SequenceTheorems, WellFoundedInduction, TLAPS

-----------------------------------------------------------------------------
(***************************************************************************)
(* Numbers: finite sets have a least and a greatest; how a sum grows.      *)
(***************************************************************************)
LEMMA LeastNatural ==
  ASSUME NEW S \in SUBSET Nat, S # {}
  PROVE  \E x \in S : \A y \in S : x <= y
<1> DEFINE R == OpToRel(<, Nat)
<1>1. IsWellFoundedOn(R, Nat)
  BY NatLessThanWellFounded
<1>2. \A x, y \in Nat : y < x => <<y, x>> \in R
  BY DEF OpToRel
<1> HIDE DEF R
<1>3. S \subseteq Nat
  OBVIOUS
<1>4. PICK x \in S : \A y \in S : ~(<<y, x>> \in R)
  BY <1>1, <1>3, WFMin, Zenon
<1>5. \A y \in S : ~(y < x)
  BY <1>2, <1>3, <1>4, Zenon
<1>6. \A y \in S : x <= y
  <2> TAKE y \in S
  <2>1. ~(y < x) /\ x \in Nat /\ y \in Nat
    BY <1>3, <1>5
  <2> QED
    BY <2>1
<1> QED
  BY <1>6

LEMMA LeastOf ==
  ASSUME NEW S \in SUBSET Nat, S # {}
  PROVE  Min(S) \in S /\ \A y \in S : Min(S) <= y
<1>1. PICK x \in S : \A y \in S : x <= y
  BY LeastNatural
<1> QED
  BY <1>1, Zenon DEF Min

LEMMA GreatestOf ==
  ASSUME NEW n \in Nat, NEW S \in SUBSET (0..n), S # {}
  PROVE  Max(S) \in S /\ \A p \in S : Max(S) >= p
<1> DEFINE Below == {k \in Nat : \E p \in S : k = n - p}
<1>1. \A p \in S : p \in Int /\ n - p \in Nat
  OBVIOUS
<1>2. Below \in SUBSET Nat /\ Below # {}
  <2>1. PICK p \in S : TRUE
    OBVIOUS
  <2>2. n - p \in Below
    BY <1>1
  <2> QED
    BY <2>2
<1>3. PICK k \in Below : \A m \in Below : k <= m
  <2> HIDE DEF Below
  <2> QED
    BY <1>2, LeastNatural
<1>4. PICK x \in S : k = n - x
  OBVIOUS
<1>5. \A p \in S : x >= p
  <2> TAKE p \in S
  <2>1. k <= n - p
    BY <1>1, <1>3
  <2> QED
    BY <1>1, <1>4, <2>1
<1> QED
  BY <1>5, Zenon DEF Max

LEMMA ActorsAre ==
  /\ Actors \subseteq Nat /\ Nobody \notin Actors /\ IsFiniteSet(Actors)
  /\ Sessions \subseteq Actors /\ Bots \subseteq Actors /\ Remote \subseteq Sessions
  /\ Sessions \cap Bots = {}
<1>1. IsFiniteSet(Sessions) /\ IsFiniteSet(Bots)
  BY ConstantsAssumption
<1>2. IsFiniteSet(Sessions \cup Bots)
  BY <1>1, FS_Union
<1> QED
  BY <1>2, ConstantsAssumption DEF Actors, Nobody

Counted(f) == UNION {{a} \X (1 .. f[a]) : a \in Actors}

LEMMA CountedFinite ==
  ASSUME NEW f \in [Actors -> Nat]
  PROVE  IsFiniteSet(Counted(f))
<1> DEFINE part == [a \in Actors |-> {a} \X (1 .. f[a])]
           Parts == {{a} \X (1 .. f[a]) : a \in Actors}
<1>1. part \in Surjection(Actors, Parts)
  BY DEF Surjection
<1>2. IsFiniteSet(Parts)
  <2> HIDE DEF part, Parts
  <2> QED
    BY <1>1, ActorsAre, FS_Surjection
<1>3. ASSUME NEW T \in Parts PROVE IsFiniteSet(T)
  <2>1. PICK a \in Actors : T = {a} \X (1 .. f[a])
    OBVIOUS
  <2>2. f[a] \in Int /\ 1 \in Int
    OBVIOUS
  <2>3. IsFiniteSet({a}) /\ IsFiniteSet(1 .. f[a])
    BY <2>2, FS_Singleton, FS_Interval
  <2> QED
    BY <2>1, <2>3, FS_Product
<1>4. IsFiniteSet(UNION Parts)
  <2> HIDE DEF Parts
  <2> QED
    BY <1>2, <1>3, FS_UNION
<1> QED
  BY <1>4 DEF Counted

\* One more for one actor is one more in all.
LEMMA SumUp ==
  ASSUME NEW f \in [Actors -> Nat], NEW a \in Actors
  PROVE  /\ Sum(f) \in Nat
         /\ Sum([f EXCEPT ![a] = @ + 1]) = Sum(f) + 1
<1> DEFINE g == [f EXCEPT ![a] = @ + 1]
           new == <<a, f[a] + 1>>
<1>1. g \in [Actors -> Nat] /\ g[a] = f[a] + 1 /\ \A b \in Actors \ {a} : g[b] = f[b]
  OBVIOUS
<1> HIDE DEF g
<1>2. Counted(g) = Counted(f) \cup {new}
  <2>1. ASSUME NEW x \in Counted(g) PROVE x \in Counted(f) \cup {new}
    <3>1. PICK b \in Actors : x \in {b} \X (1 .. g[b])
      BY DEF Counted
    <3>2. PICK k \in 1 .. g[b] : x = <<b, k>>
      BY <3>1
    <3>3. CASE b = a /\ k = f[a] + 1
      BY <3>2, <3>3
    <3>4. CASE ~(b = a /\ k = f[a] + 1)
      <4>1. k \in 1 .. f[b]
        BY <1>1, <3>2, <3>4
      <4>2. x \in {b} \X (1 .. f[b])
        BY <4>1, <3>2
      <4> QED
        BY <4>2 DEF Counted
    <3> QED
      BY <3>3, <3>4
  <2>2. ASSUME NEW x \in Counted(f) PROVE x \in Counted(g)
    <3>1. PICK b \in Actors : x \in {b} \X (1 .. f[b])
      BY DEF Counted
    <3>2. PICK k \in 1 .. f[b] : x = <<b, k>>
      BY <3>1
    <3>3. k \in 1 .. g[b]
      BY <1>1, <3>2
    <3>4. x \in {b} \X (1 .. g[b])
      BY <3>2, <3>3
    <3> QED
      BY <3>4 DEF Counted
  <2>3. new \in {a} \X (1 .. g[a])
    BY <1>1
  <2>4. new \in Counted(g)
    BY <2>3 DEF Counted
  <2> QED
    BY <2>1, <2>2, <2>4
<1>3. new \notin Counted(f)
  <2> SUFFICES ASSUME NEW b \in Actors, new \in {b} \X (1 .. f[b]) PROVE FALSE
    BY DEF Counted
  <2>1. b = a /\ f[a] + 1 \in 1 .. f[b]
    OBVIOUS
  <2>2. f[a] \in Nat
    OBVIOUS
  <2> QED
    BY <2>1, <2>2
<1>4. IsFiniteSet(Counted(f))
  BY CountedFinite
<1>5. Cardinality(Counted(f)) \in Nat
  BY <1>4, FS_CardinalityType
<1>6. Cardinality(Counted(g)) = Cardinality(Counted(f)) + 1
  <2> HIDE DEF new
  <2>1. Cardinality(Counted(f) \cup {new}) = Cardinality(Counted(f)) + 1
    BY <1>3, <1>4, FS_AddElement
  <2> QED
    BY <1>2, <2>1
<1>7. Sum(f) = Cardinality(Counted(f)) /\ Sum(g) = Cardinality(Counted(g))
  BY DEF Sum, Counted
<1>8. Sum(g) = Sum(f) + 1
  BY <1>6, <1>7
<1> QED
  BY <1>5, <1>7, <1>8 DEF g

LEMMA SumOfNothing == Zero \in [Actors -> Nat] /\ Sum(Zero) = 0
<1>1. ASSUME NEW a \in Actors PROVE {a} \X (1 .. Zero[a]) = {}
  <2>1. 1 .. Zero[a] = {}
    BY DEF Zero
  <2> QED
    BY <2>1
<1>2. Counted(Zero) = {}
  BY <1>1 DEF Counted
<1>3. Sum(Zero) = Cardinality(Counted(Zero))
  BY DEF Sum, Counted
<1> QED
  BY <1>2, <1>3, FS_EmptySet DEF Zero

-----------------------------------------------------------------------------
(***************************************************************************)
(* The turns of a tick, one after the other.                               *)
(***************************************************************************)
Turns == [does : {"command", "respawn"}, actor : Sessions] \cup [does : {"bot"}, actor : Bots]

LEMMA ScheduleIs == Schedule \in Seq(Turns) /\ Len(Schedule) \in Nat
<1> DEFINE commands == [i \in 1 .. Len(Order) |-> [does |-> "command", actor |-> Order[i]]]
           directed == [i \in 1 .. Len(BotOrder) |-> [does |-> "bot", actor |-> BotOrder[i]]]
           revived == [i \in 1 .. Len(Order) |-> [does |-> "respawn", actor |-> Order[i]]]
<1>1. Order \in Seq(Sessions) /\ BotOrder \in Seq(Bots)
  BY ConstantsAssumption
<1>2. Len(Order) \in Nat /\ Len(BotOrder) \in Nat
  BY <1>1, LenProperties
<1>3. \A i \in 1 .. Len(Order) : Order[i] \in Sessions
  BY <1>1, ElementOfSeq
<1>4. \A i \in 1 .. Len(BotOrder) : BotOrder[i] \in Bots
  BY <1>1, ElementOfSeq
<1>5. commands \in Seq(Turns)
  <2>1. \A i \in 1 .. Len(Order) : [does |-> "command", actor |-> Order[i]] \in Turns
    BY <1>3 DEF Turns
  <2> QED
    BY <1>2, <2>1, IsASeq
<1>6. directed \in Seq(Turns)
  <2>1. \A i \in 1 .. Len(BotOrder) : [does |-> "bot", actor |-> BotOrder[i]] \in Turns
    BY <1>4 DEF Turns
  <2> QED
    BY <1>2, <2>1, IsASeq
<1>7. revived \in Seq(Turns)
  <2>1. \A i \in 1 .. Len(Order) : [does |-> "respawn", actor |-> Order[i]] \in Turns
    BY <1>3 DEF Turns
  <2> QED
    BY <1>2, <2>1, IsASeq
<1>8. Schedule = commands \o directed \o revived
  BY DEF Schedule
<1> HIDE DEF commands, directed, revived
<1>9. commands \o directed \in Seq(Turns)
  BY <1>5, <1>6, ConcatProperties
<1>10. Schedule \in Seq(Turns)
  BY <1>7, <1>8, <1>9, ConcatProperties
<1> QED
  BY <1>10, LenProperties

\* The worlds after a turn follow from those before it.
LEMMA TurnsFollow ==
  ASSUME NEW s, NEW order, NEW botOrder, NEW current
  PROVE  /\ AfterTurns(s, order, botOrder, current)[0] = {s}
         /\ \A i \in 1 .. Len(Schedule) :
              AfterTurns(s, order, botOrder, current)[i] =
                {Turn(t, Schedule[i], order, botOrder, current) :
                   t \in AfterTurns(s, order, botOrder, current)[i - 1]}
<1> DEFINE Step(i, X) == {Turn(t, Schedule[i], order, botOrder, current) : t \in X}
           IsIt(f, n) == f = [i \in 0 .. n |-> IF i = 0 THEN {s} ELSE Step(i, f[i - 1])]
           Bad == {n \in Nat : ~\E f : IsIt(f, n)}
           N == Len(Schedule)
           after == AfterTurns(s, order, botOrder, current)
<1>1. after = CHOOSE f : IsIt(f, N)
  BY DEF AfterTurns
<1> HIDE DEF Step
<1>2. \E f : IsIt(f, 0)
  <2> DEFINE f == [i \in 0 .. 0 |-> {s}]
  <2>1. IsIt(f, 0)
    OBVIOUS
  <2> QED
    BY <2>1
<1>3. ASSUME NEW n \in Nat \ {0}, NEW f, IsIt(f, n - 1) PROVE \E g : IsIt(g, n)
  <2> DEFINE g == [i \in 0 .. n |-> IF i = n THEN Step(n, f[n - 1]) ELSE f[i]]
  <2>1. ASSUME NEW i \in 0 .. n PROVE g[i] = IF i = 0 THEN {s} ELSE Step(i, g[i - 1])
    <3>1. CASE i = n
      <4>1. g[i - 1] = f[n - 1]
        BY <3>1
      <4> QED
        BY <3>1, <4>1
    <3>2. CASE i # n
      <4>1. i \in 0 .. n - 1 /\ g[i] = f[i]
        BY <3>2
      <4>2. f[i] = IF i = 0 THEN {s} ELSE Step(i, f[i - 1])
        BY <1>3, <4>1
      <4>3. i # 0 => g[i - 1] = f[i - 1]
        BY <4>1
      <4> QED
        BY <4>1, <4>2, <4>3
    <3> QED
      BY <3>1, <3>2
  <2>2. g = [i \in 0 .. n |-> g[i]]
    OBVIOUS
  <2> HIDE DEF g
  <2>3. IsIt(g, n)
    BY <2>1, <2>2
  <2> QED
    BY <2>3
<1>4. \E f : IsIt(f, N)
  <2> SUFFICES ASSUME ~\E f : IsIt(f, N) PROVE FALSE
    OBVIOUS
  <2> HIDE DEF IsIt
  <2>1. N \in Bad
    BY ScheduleIs
  <2>2. Bad \in SUBSET Nat /\ Bad # {}
    BY <2>1
  <2>3. PICK n \in Bad : \A k \in Bad : n <= k
    <3> HIDE DEF Bad
    <3> QED
      BY <2>2, LeastNatural
  <2>4. n \in Nat \ {0}
    BY <1>2
  <2>5. n - 1 \in Nat /\ n - 1 \notin Bad
    BY <2>3, <2>4
  <2>6. PICK f : IsIt(f, n - 1)
    BY <2>5
  <2>7. \E g : IsIt(g, n)
    BY <1>3, <2>4, <2>6
  <2> QED
    BY <2>7
<1>5. IsIt(after, N)
  <2> HIDE DEF IsIt, after, N
  <2> QED
    BY <1>1, <1>4, Zenon
<1> HIDE DEF after, N
<1>6. N \in Nat
  BY ScheduleIs DEF N
<1>7. after[0] = {s}
  BY <1>5, <1>6
<1>8. ASSUME NEW i \in 1 .. N PROVE after[i] = Step(i, after[i - 1])
  <2>1. i \in 0 .. N /\ i # 0
    BY <1>6
  <2>2. after[i] = IF i = 0 THEN {s} ELSE Step(i, after[i - 1])
    BY <1>5, <2>1, Zenon
  <2> QED
    BY <2>1, <2>2
<1> QED
  BY <1>7, <1>8 DEF after, N, Step

-----------------------------------------------------------------------------
(***************************************************************************)
(* A world in the course of a tick. Its turns touch neither the history of *)
(* positions nor the numbers of snapshots, and tell every kill.            *)
(***************************************************************************)
Worlds(scheduled, hist, shots) ==
  [mode : Modes, pos : [Actors -> Cells], hp : [Actors -> 0 .. MaxHealth], timer : [Actors -> Nat],
   protectedUntil : [Actors -> Nat], kills : [Actors -> Nat], deaths : [Actors -> Nat],
   respawns : [Actors -> Nat], scheduled : {scheduled}, botsActive : BOOLEAN, botsShoot : BOOLEAN,
   hist : {hist}, seq : Nat, killed : Nat, pending : Seq(Nat), shots : {shots}]

Typed(s) == s \in Worlds(s.scheduled, s.hist, s.shots)

\* KillsAddUp, of any world.
Tally(s) ==
  /\ \A a \in Actors : s.deaths[a] = s.respawns[a] + (IF s.hp[a] = 0 THEN 1 ELSE 0)
  /\ Sum(s.kills) = s.killed /\ Sum(s.deaths) = s.killed

\* The events not yet sent are those of the last kills.
Told(s) ==
  /\ Len(s.pending) <= s.killed
  /\ \A i \in 1 .. Len(s.pending) : s.pending[i] = s.killed - Len(s.pending) + i

Lasting(s, t) ==
  /\ t.mode = s.mode /\ t.hist = s.hist /\ t.seq = s.seq
  /\ t.killed - Len(t.pending) = s.killed - Len(s.pending)

Sound(s, t) == Typed(t) /\ Tally(t) /\ Told(t) /\ Lasting(s, t)

LEMMA SoundFollows ==
  ASSUME NEW r, NEW s, NEW t, Sound(r, s), Sound(s, t)
  PROVE  Sound(r, t)
BY DEF Sound, Lasting

LEMMA DamagedSound ==
  ASSUME NEW s, Typed(s), Tally(s), Told(s), NEW shooter \in Actors, NEW victim \in Actors
  PROVE  Sound(s, Damaged(s, shooter, victim)) /\ Damaged(s, shooter, victim).shots = s.shots
<1> DEFINE n == Damaged(s, shooter, victim)
           dies == s.hp[victim] = 1
           hp == [s.hp EXCEPT ![victim] = IF @ = 0 THEN 0 ELSE @ - 1]
           kills == [s.kills EXCEPT ![shooter] = IF dies THEN @ + 1 ELSE @]
           deaths == [s.deaths EXCEPT ![victim] = IF dies THEN @ + 1 ELSE @]
           killed == IF dies THEN s.killed + 1 ELSE s.killed
           pending == IF dies THEN Append(s.pending, s.killed + 1) ELSE s.pending
<1>1. s \in Worlds(s.scheduled, s.hist, s.shots)
  BY DEF Typed
<1>2. n = [s EXCEPT !.hp = hp, !.kills = kills, !.deaths = deaths, !.killed = killed, !.pending = pending]
  BY <1>1 DEF Damaged, Worlds
<1>3. /\ s.hp \in [Actors -> 0 .. MaxHealth] /\ s.kills \in [Actors -> Nat]
      /\ s.deaths \in [Actors -> Nat] /\ s.respawns \in [Actors -> Nat]
      /\ s.killed \in Nat /\ s.pending \in Seq(Nat) /\ Len(s.pending) \in Nat
  BY <1>1, LenProperties DEF Worlds
<1>4. MaxHealth \in Nat
  BY ConstantsAssumption
<1>5. hp \in [Actors -> 0 .. MaxHealth] /\ kills \in [Actors -> Nat] /\ deaths \in [Actors -> Nat]
  <2>1. s.hp[victim] \in 0 .. MaxHealth
    BY <1>3
  <2>2. (IF s.hp[victim] = 0 THEN 0 ELSE s.hp[victim] - 1) \in 0 .. MaxHealth
    BY <1>4, <2>1
  <2>3. s.kills[shooter] \in Nat /\ s.deaths[victim] \in Nat
    BY <1>3
  <2>4. (IF dies THEN s.kills[shooter] + 1 ELSE s.kills[shooter]) \in Nat
    BY <2>3
  <2>5. (IF dies THEN s.deaths[victim] + 1 ELSE s.deaths[victim]) \in Nat
    BY <2>3
  <2>6. hp \in [Actors -> 0 .. MaxHealth]
    BY <1>3, <2>2
  <2> HIDE DEF dies
  <2>7. kills \in [Actors -> Nat] /\ deaths \in [Actors -> Nat]
    BY <1>3, <2>4, <2>5
  <2> QED
    BY <2>6, <2>7
<1>6. killed \in Nat /\ pending \in Seq(Nat) /\ Len(pending) = Len(s.pending) + (killed - s.killed)
  <2>1. CASE dies
    <3>1. s.killed + 1 \in Nat
      BY <1>3
    <3>2. Append(s.pending, s.killed + 1) \in Seq(Nat) /\ Len(Append(s.pending, s.killed + 1)) = Len(s.pending) + 1
      BY <1>3, <3>1, AppendProperties
    <3> QED
      BY <1>3, <2>1, <3>1, <3>2
  <2>2. CASE ~dies
    BY <1>3, <2>2
  <2> QED
    BY <2>1, <2>2
<1>7. Tally(s) /\ Told(s)
  OBVIOUS
<1>8. \A a \in Actors : deaths[a] = s.respawns[a] + (IF hp[a] = 0 THEN 1 ELSE 0)
  <2> TAKE a \in Actors
  <2>1. s.deaths[a] = s.respawns[a] + (IF s.hp[a] = 0 THEN 1 ELSE 0)
    BY <1>7 DEF Tally
  <2>2. s.deaths[a] \in Nat /\ s.respawns[a] \in Nat /\ s.hp[a] \in 0 .. MaxHealth
    BY <1>3
  <2>3. CASE a = victim
    <3>1. /\ hp[a] = IF s.hp[a] = 0 THEN 0 ELSE s.hp[a] - 1
          /\ deaths[a] = IF s.hp[a] = 1 THEN s.deaths[a] + 1 ELSE s.deaths[a]
      BY <1>3, <2>3
    <3> HIDE DEF hp, deaths
    <3> QED
      BY <1>4, <2>1, <2>2, <3>1
  <2>4. CASE a # victim
    <3>1. hp[a] = s.hp[a] /\ deaths[a] = s.deaths[a]
      BY <1>3, <2>4
    <3> QED
      BY <2>1, <3>1
  <2> QED
    BY <2>3, <2>4
<1>9. Sum(kills) = killed /\ Sum(deaths) = killed
  <2>1. Sum(s.kills) = s.killed /\ Sum(s.deaths) = s.killed
    BY <1>7 DEF Tally
  <2>2. CASE dies
    <3>1. kills = [s.kills EXCEPT ![shooter] = @ + 1] /\ deaths = [s.deaths EXCEPT ![victim] = @ + 1]
      BY <1>3, <2>2
    <3>2. Sum([s.kills EXCEPT ![shooter] = @ + 1]) = s.killed + 1
      BY <1>3, <2>1, SumUp
    <3>3. Sum([s.deaths EXCEPT ![victim] = @ + 1]) = s.killed + 1
      BY <1>3, <2>1, SumUp
    <3>4. killed = s.killed + 1
      BY <2>2
    <3> HIDE DEF kills, deaths, killed
    <3> QED
      BY <3>1, <3>2, <3>3, <3>4
  <2>3. CASE ~dies
    <3>1. kills = s.kills /\ deaths = s.deaths /\ killed = s.killed
      BY <1>3, <2>3
    <3> HIDE DEF kills, deaths, killed
    <3> QED
      BY <2>1, <3>1
  <2> QED
    BY <2>2, <2>3
<1>10. \A i \in 1 .. Len(pending) : pending[i] = killed - Len(pending) + i
  <2>1. CASE dies
    <3>1. s.killed + 1 \in Nat
      BY <1>3
    <3>2. /\ \A i \in 1 .. Len(s.pending) : Append(s.pending, s.killed + 1)[i] = s.pending[i]
          /\ Append(s.pending, s.killed + 1)[Len(s.pending) + 1] = s.killed + 1
          /\ Len(Append(s.pending, s.killed + 1)) = Len(s.pending) + 1
      BY <1>3, <3>1, AppendProperties
    <3>3. pending = Append(s.pending, s.killed + 1) /\ killed = s.killed + 1
      BY <2>1
    <3> HIDE DEF pending, killed
    <3> SUFFICES ASSUME NEW i \in 1 .. Len(pending) PROVE pending[i] = killed - Len(pending) + i
      OBVIOUS
    <3>4. CASE i = Len(s.pending) + 1
      BY <1>3, <3>2, <3>3, <3>4
    <3>5. CASE i # Len(s.pending) + 1
      <4> DEFINE m == Len(s.pending)
      <4>1. Len(pending) = m + 1 /\ m \in Nat
        BY <1>3, <3>2, <3>3, Zenon
      <4> HIDE DEF m
      <4>2. i \in 1 .. m + 1 /\ i # m + 1
        BY <3>5, <4>1, Zenon DEF m
      <4>3. i \in 1 .. m
        BY <4>1, <4>2
      <4>4. i \in 1 .. Len(s.pending)
        BY <4>3, Zenon DEF m
      <4>5. pending[i] = s.pending[i]
        BY <3>2, <3>3, <4>4
      <4>6. s.pending[i] = s.killed - Len(s.pending) + i
        BY <1>7, <4>4 DEF Told
      <4>7. Len(pending) = Len(s.pending) + 1 /\ killed = s.killed + 1
        BY <3>2, <3>3
      <4>8. s.killed \in Int /\ Len(s.pending) \in Int /\ i \in Int
        BY <1>3, <4>4
      <4>9. s.killed - Len(s.pending) + i = killed - Len(pending) + i
        BY <4>7, <4>8
      <4> QED
        BY <4>5, <4>6, <4>9, Zenon
    <3> QED
      BY <3>4, <3>5
  <2>2. CASE ~dies
    BY <1>7, <2>2 DEF Told
  <2> QED
    BY <2>1, <2>2
<1> HIDE DEF n, hp, kills, deaths, killed, pending
<1>11. n \in Worlds(s.scheduled, s.hist, s.shots)
  BY <1>1, <1>2, <1>5, <1>6 DEF Worlds
<1>12. /\ n.hp = hp /\ n.kills = kills /\ n.deaths = deaths /\ n.killed = killed /\ n.pending = pending
       /\ n.respawns = s.respawns /\ n.mode = s.mode /\ n.hist = s.hist /\ n.seq = s.seq
       /\ n.shots = s.shots /\ n.scheduled = s.scheduled
  BY <1>1, <1>2 DEF Worlds
<1>13. Typed(n)
  BY <1>11, <1>12 DEF Typed
<1>14. Tally(n)
  BY <1>8, <1>9, <1>12 DEF Tally
<1>15. Told(n)
  <2>1. Len(pending) <= killed
    BY <1>3, <1>6, <1>7 DEF Told
  <2> QED
    BY <1>10, <1>12, <2>1, Zenon DEF Told
<1>16. n.killed - Len(n.pending) = s.killed - Len(s.pending)
  <2>1. killed - Len(pending) = s.killed - Len(s.pending)
    BY <1>3, <1>6
  <2> QED
    BY <1>12, <2>1
<1> QED
  BY <1>12, <1>13, <1>14, <1>15, <1>16 DEF Sound, Lasting, n

Alike(s, t) ==
  /\ t.deaths = s.deaths /\ t.kills = s.kills /\ t.killed = s.killed /\ t.pending = s.pending
  /\ t.mode = s.mode /\ t.hist = s.hist /\ t.seq = s.seq

LEMMA SameCountsSound ==
  ASSUME NEW s, Tally(s), Told(s), NEW t, Typed(t), Alike(s, t),
         t.hp = s.hp, t.respawns = s.respawns
  PROVE  Sound(s, t)
<1>1. Tally(t)
  BY DEF Alike, Tally
<1>2. Told(t)
  BY DEF Alike, Told
<1>3. Lasting(s, t)
  BY DEF Alike, Lasting
<1> QED
  BY <1>1, <1>2, <1>3 DEF Sound

LEMMA RevivedSound ==
  ASSUME NEW s, Typed(s), Tally(s), Told(s), NEW a \in Actors, s.hp[a] = 0,
         NEW t, Typed(t), Alike(s, t),
         t.hp = [s.hp EXCEPT ![a] = MaxHealth],
         t.respawns = [s.respawns EXCEPT ![a] = @ + 1]
  PROVE  Sound(s, t)
<1>1. s.hp \in [Actors -> 0 .. MaxHealth] /\ s.deaths \in [Actors -> Nat] /\ s.respawns \in [Actors -> Nat]
  BY DEF Typed, Worlds
<1>2. MaxHealth \in Nat \ {0}
  BY ConstantsAssumption
<1>3. ASSUME NEW b \in Actors
      PROVE  t.deaths[b] = t.respawns[b] + (IF t.hp[b] = 0 THEN 1 ELSE 0)
  <2>1. s.deaths[b] = s.respawns[b] + (IF s.hp[b] = 0 THEN 1 ELSE 0)
    BY DEF Tally
  <2>2. t.deaths[b] = s.deaths[b]
    BY DEF Alike
  <2>3. s.deaths[b] \in Nat /\ s.respawns[b] \in Nat
    BY <1>1
  <2>4. CASE b = a
    <3>1. t.hp[b] = MaxHealth /\ t.respawns[b] = s.respawns[b] + 1 /\ s.hp[b] = 0
      BY <1>1, <2>4
    <3> QED
      BY <1>2, <2>1, <2>2, <2>3, <3>1
  <2>5. CASE b # a
    <3>1. t.hp[b] = s.hp[b] /\ t.respawns[b] = s.respawns[b]
      BY <1>1, <2>5
    <3> QED
      BY <2>1, <2>2, <3>1
  <2> QED
    BY <2>4, <2>5
<1>4. Tally(t)
  BY <1>3 DEF Alike, Tally
<1>5. Told(t)
  BY DEF Alike, Told
<1>6. Lasting(s, t)
  BY DEF Alike, Lasting
<1> QED
  BY <1>4, <1>5, <1>6 DEF Sound

\* Whoever of the actors on the line is hit, the one aimed at first.
LEMMA HitIs ==
  ASSUME NEW line \in SUBSET Actors, NEW target
  PROVE  /\ HitOf(line, target) # Nobody => HitOf(line, target) \in Actors
         /\ target \in line => HitOf(line, target) = target
<1>1. CASE line = {}
  BY <1>1 DEF HitOf
<1>2. CASE line # {}
  <2>1. Min(line) \in line
    BY <1>2, ActorsAre, LeastOf
  <2> QED
    BY <1>2, <2>1, Zenon DEF HitOf
<1> QED
  BY <1>1, <1>2

Noted(s, shooter, shot, current) ==
  [shooter |-> shooter, hit |-> HitOf(OnRay(s, shooter, shot, current), shot.target), shot |-> shot,
   fair |-> MayBeHit(s, shooter, shot.target, current)]

LEMMA FiredSound ==
  ASSUME NEW s, Typed(s), Tally(s), Told(s), NEW shooter \in Actors, NEW shot, NEW current
  PROVE  /\ Sound(s, Fired(s, shooter, shot, current))
         /\ Fired(s, shooter, shot, current).shots = s.shots \cup {Noted(s, shooter, shot, current)}
<1> DEFINE shots == s.shots \cup {Noted(s, shooter, shot, current)}
           hit == HitOf(OnRay(s, shooter, shot, current), shot.target)
           n == [s EXCEPT !.shots = shots]
<1>1. Fired(s, shooter, shot, current) = IF hit = Nobody THEN n ELSE Damaged(n, shooter, hit)
  <2>1. s \in Worlds(s.scheduled, s.hist, s.shots)
    BY DEF Typed
  <2> QED
    BY <2>1, Zenon DEF Fired, Noted
<1>2. hit # Nobody => hit \in Actors
  <2>1. OnRay(s, shooter, shot, current) \in SUBSET Actors
    BY DEF OnRay
  <2> QED
    BY <2>1, HitIs
<1> HIDE DEF shots, hit, n
<1>3. n \in Worlds(s.scheduled, s.hist, shots)
  BY DEF n, Typed, Worlds
<1>4. /\ n.scheduled = s.scheduled /\ n.hist = s.hist /\ n.shots = shots
      /\ Alike(s, n) /\ n.hp = s.hp /\ n.respawns = s.respawns
  BY DEF n, Typed, Worlds, Alike
<1>5. Typed(n)
  BY <1>3, <1>4 DEF Typed
<1>6. Sound(s, n)
  BY <1>4, <1>5, SameCountsSound
<1>7. CASE hit = Nobody
  BY <1>1, <1>4, <1>6, <1>7 DEF shots
<1>8. CASE hit # Nobody
  <2>1. Sound(n, Damaged(n, shooter, hit)) /\ Damaged(n, shooter, hit).shots = n.shots
    BY <1>2, <1>6, <1>8, DamagedSound DEF Sound
  <2>2. Sound(s, Damaged(n, shooter, hit))
    BY <1>6, <2>1, SoundFollows
  <2> QED
    BY <1>1, <1>4, <1>8, <2>1, <2>2 DEF shots
<1> QED
  BY <1>7, <1>8

-----------------------------------------------------------------------------
(***************************************************************************)
(* A turn of each kind keeps the tally, and a session that aims at what    *)
(* the history confirms hits it.                                           *)
(***************************************************************************)
Aged(shot, current) ==
  shot.drawn >= Max({0, current - MaxRewind}) /\ shot.drawn = shot.viewed - shot.delay

Met(shot, current) ==
  (shot.fair /\ shot.shooter \in Sessions /\ Aged(shot.shot, current)) => shot.hit = shot.shot.target

AllMet(s, current) == s.mode = "SeenPosition" => \A shot \in s.shots : Met(shot, current)

\* What a client aims at is what rewinding gives.
SeesRight(s, current) ==
  \A c \in Sessions : \A screen \in Screens(c, current), a \in Actors :
    (screen.picture.alive[a] /\ Aged(ShotAt(c, screen, a), current))
       => LET then == Rewound(s.hist[a], ClampRewindTime(RewindTime(ShotAt(c, screen, a)), current)) IN
          then.alive /\ then.pos = ShotAt(c, screen, a).cell

Turned(s, t, current) ==
  Sound(s, t) /\ (SeesRight(s, current) /\ AllMet(s, current) => AllMet(t, current))

Calm(s) == Typed(s) /\ Tally(s) /\ Told(s)

LEMMA NoShotTurned ==
  ASSUME NEW s, NEW t, NEW current, Sound(s, t), t.shots = s.shots
  PROVE  Turned(s, t, current)
BY DEF Turned, AllMet, Sound, Lasting

LEMMA StillTurned ==
  ASSUME NEW s, Calm(s), NEW current
  PROVE  Turned(s, s, current)
<1>1. Sound(s, s)
  BY DEF Calm, Sound, Lasting
<1> QED
  BY <1>1, NoShotTurned

\* A shot is aimed at a living opponent on the screen.
LEMMA AllowedIs ==
  ASSUME NEW current, NEW c \in Sessions, NEW order \in Allowed(c, current)
  PROVE  \/ order.kind = "idle" \/ order.kind = "move"
         \/ /\ order.kind = "fire"
            /\ \E screen \in Screens(c, current), target \in Actors :
                 screen.picture.alive[target] /\ order.shot = ShotAt(c, screen, target)
<1> DEFINE moves == {[kind |-> "move"] : a \in Movers \cap {c}}
           targets(screen) == {a \in Actors : Team[a] # Team[c] /\ screen.picture.alive[a]}
           shots(screen) == {[kind |-> "fire", shot |-> ShotAt(c, screen, target)] :
                               target \in targets(screen)}
<1>1. order = Idle \/ order \in moves \/ \E screen \in Screens(c, current) : order \in shots(screen)
  <2> DEFINE fires == UNION {shots(screen) : screen \in Screens(c, current)}
  <2>1. order \in {Idle} \cup moves \cup fires
    BY DEF Allowed
  <2>2. order \in fires => \E screen \in Screens(c, current) : order \in shots(screen)
    <3> HIDE DEF shots
    <3> QED
      OBVIOUS
  <2> HIDE DEF moves, fires
  <2> QED
    BY <2>1, <2>2
<1>2. order \in moves => order.kind = "move"
  OBVIOUS
<1>3. ASSUME NEW screen \in Screens(c, current), order \in shots(screen)
      PROVE  /\ order.kind = "fire"
             /\ \E target \in Actors :
                  screen.picture.alive[target] /\ order.shot = ShotAt(c, screen, target)
  <2>1. PICK target \in targets(screen) : order = [kind |-> "fire", shot |-> ShotAt(c, screen, target)]
    BY <1>3
  <2>2. order.kind = "fire" /\ order.shot = ShotAt(c, screen, target)
    BY <2>1
  <2> QED
    BY <2>1, <2>2
<1>4. order = Idle => order.kind = "idle"
  BY DEF Idle
<1> HIDE DEF moves, shots
<1> QED
  BY <1>1, <1>2, <1>3, <1>4, Zenon

LEMMA SessionTurnSound ==
  ASSUME NEW s, Calm(s), NEW current, NEW c \in Sessions, NEW order \in Allowed(c, current)
  PROVE  Turned(s, SessionTurn(s, c, order, current), current)
<1>1. CASE s.hp[c] = 0 \/ order.kind = "idle"
  <2>1. SessionTurn(s, c, order, current) = s
    <3>1. ~(s.hp[c] > 0 /\ order.kind = "move") /\ ~(s.hp[c] > 0 /\ order.kind = "fire")
      BY <1>1
    <3> QED
      BY <1>1, <3>1, Zenon DEF SessionTurn
  <2> QED
    BY <2>1, StillTurned
<1>2. CASE s.hp[c] > 0 /\ order.kind = "move"
  <2> DEFINE n == [s EXCEPT !.pos[c] = 1 - @]
  <2>1. SessionTurn(s, c, order, current) = n
    <3>1. ~(s.hp[c] = 0 \/ order.kind = "idle") /\ ~(s.hp[c] > 0 /\ order.kind = "fire")
      BY <1>2
    <3> QED
      BY <1>2, <3>1, Zenon DEF SessionTurn
  <2>2. s.pos \in [Actors -> Cells] /\ c \in Actors
    BY ActorsAre DEF Calm, Typed, Worlds
  <2>3. [s.pos EXCEPT ![c] = 1 - @] \in [Actors -> Cells]
    <3>1. s.pos[c] \in {0, 1}
      BY <2>2 DEF Cells
    <3>2. 1 - s.pos[c] \in Cells
      BY <3>1 DEF Cells
    <3> QED
      BY <2>2, <3>2
  <2>4. n = [s EXCEPT !.pos = [s.pos EXCEPT ![c] = 1 - @]]
    BY DEF Calm, Typed, Worlds
  <2> HIDE DEF n
  <2>5. n \in Worlds(s.scheduled, s.hist, s.shots)
    BY <2>3, <2>4 DEF Calm, Typed, Worlds
  <2>6. /\ n.scheduled = s.scheduled /\ n.hist = s.hist /\ n.shots = s.shots
        /\ Alike(s, n) /\ n.hp = s.hp /\ n.respawns = s.respawns
    BY <2>4 DEF Calm, Typed, Worlds, Alike
  <2>7. Sound(s, n)
    BY <2>5, <2>6, SameCountsSound DEF Calm, Typed
  <2> QED
    BY <2>1, <2>6, <2>7, NoShotTurned
<1>3. CASE s.hp[c] > 0 /\ order.kind = "fire"
  <2>1. PICK screen \in Screens(c, current), target \in Actors :
          screen.picture.alive[target] /\ order.shot = ShotAt(c, screen, target)
    BY <1>3, AllowedIs
  <2> DEFINE shot == ShotAt(c, screen, target)
             n == Fired(s, c, shot, current)
  <2>2. order.shot = shot /\ shot.target = target
    BY <2>1 DEF ShotAt
  <2> HIDE DEF shot
  <2>3. SessionTurn(s, c, order, current) = n
    <3>1. ~(s.hp[c] = 0 \/ order.kind = "idle") /\ ~(s.hp[c] > 0 /\ order.kind = "move")
      BY <1>3
    <3> QED
      BY <1>3, <2>2, <3>1, Zenon DEF SessionTurn
  <2>4. c \in Actors
    BY ActorsAre
  <2>5. Sound(s, n) /\ n.shots = s.shots \cup {Noted(s, c, shot, current)}
    BY <2>4, FiredSound DEF Calm
  <2>6. ASSUME SeesRight(s, current), AllMet(s, current) PROVE AllMet(n, current)
    <3> DEFINE noted == Noted(s, c, shot, current)
    <3>1. SUFFICES ASSUME n.mode = "SeenPosition" PROVE \A x \in n.shots : Met(x, current)
      BY DEF AllMet
    <3>2. s.mode = "SeenPosition"
      BY <2>5, <3>1 DEF Sound, Lasting
    <3>3. \A x \in s.shots : Met(x, current)
      BY <2>6, <3>2 DEF AllMet
    <3>4. Met(noted, current)
      <4>1. /\ noted.hit = HitOf(OnRay(s, c, shot, current), target) /\ noted.shot = shot
            /\ noted.fair = MayBeHit(s, c, target, current)
        BY <2>2 DEF Noted
      <4>2. SUFFICES ASSUME MayBeHit(s, c, target, current), Aged(shot, current)
                     PROVE  HitOf(OnRay(s, c, shot, current), target) = target
        <5> HIDE DEF noted
        <5> QED
          BY <2>2, <4>1, Zenon DEF Met
      <4> DEFINE then == Rewound(s.hist[target], ClampRewindTime(RewindTime(shot), current))
      <4>3. then.alive /\ then.pos = shot.cell
        BY <2>6, <2>1, <4>2, Zenon DEF SeesRight, shot
      <4>4. Evaluated(s, shot, current)[target] = then
        BY <3>2 DEF Evaluated
      <4> HIDE DEF then
      <4>5. target \in OnRay(s, c, shot, current)
        BY <4>2, <4>3, <4>4, Zenon DEF OnRay
      <4>6. OnRay(s, c, shot, current) \in SUBSET Actors
        BY DEF OnRay
      <4> QED
        BY <4>5, <4>6, HitIs
    <3> HIDE DEF n
    <3> QED
      BY <2>5, <3>3, <3>4
  <2> HIDE DEF n
  <2> QED
    BY <2>3, <2>5, <2>6 DEF Turned
<1>4. s.hp[c] > 0 \/ s.hp[c] = 0
  <2>1. s.hp[c] \in 0 .. MaxHealth
    BY ActorsAre DEF Calm, Typed, Worlds
  <2> QED
    BY <2>1, ConstantsAssumption
<1>5. order.kind = "idle" \/ order.kind = "move" \/ order.kind = "fire"
  BY AllowedIs
<1> QED
  BY <1>1, <1>2, <1>3, <1>4, <1>5

LEMMA RespawnTurnSound ==
  ASSUME NEW s, Calm(s), NEW c \in Sessions, NEW current \in Nat
  PROVE  Turned(s, RespawnTurn(s, c, current), current)
<1>1. /\ c \in Actors /\ s.hp \in [Actors -> 0 .. MaxHealth] /\ s.pos \in [Actors -> Cells]
      /\ s.timer \in [Actors -> Nat] /\ s.protectedUntil \in [Actors -> Nat]
      /\ s.respawns \in [Actors -> Nat]
  BY ActorsAre DEF Calm, Typed, Worlds
<1>2. MaxHealth \in Nat \ {0} /\ Protection \in Nat
  BY ConstantsAssumption
<1>3. ASSUME NEW ticks \in Nat, NEW n, n = [s EXCEPT !.timer = [s.timer EXCEPT ![c] = ticks]]
      PROVE  Turned(s, n, current)
  <2>1. [s.timer EXCEPT ![c] = ticks] \in [Actors -> Nat]
    BY <1>1
  <2>2. n \in Worlds(s.scheduled, s.hist, s.shots)
    BY <1>3, <2>1 DEF Calm, Typed, Worlds
  <2>3. /\ n.scheduled = s.scheduled /\ n.hist = s.hist /\ n.shots = s.shots
        /\ Alike(s, n) /\ n.hp = s.hp /\ n.respawns = s.respawns
    BY <1>3 DEF Calm, Typed, Worlds, Alike
  <2>4. Sound(s, n)
    BY <2>2, <2>3, SameCountsSound DEF Calm, Typed
  <2> QED
    BY <2>3, <2>4, NoShotTurned
<1>4. CASE s.hp[c] > 0
  <2>1. RespawnTurn(s, c, current) = [s EXCEPT !.timer = [s.timer EXCEPT ![c] = 0]]
    BY <1>4 DEF RespawnTurn, Calm, Typed, Worlds
  <2>2. 0 \in Nat
    OBVIOUS
  <2> QED
    BY <1>3, <2>1, <2>2
<1>5. CASE ~(s.hp[c] > 0) /\ s.timer[c] + 1 < RespawnTicks
  <2>1. RespawnTurn(s, c, current) = [s EXCEPT !.timer = [s.timer EXCEPT ![c] = s.timer[c] + 1]]
    BY <1>5 DEF RespawnTurn, Calm, Typed, Worlds
  <2>2. s.timer[c] + 1 \in Nat
    BY <1>1
  <2> QED
    BY <1>3, <2>1, <2>2
<1>6. CASE ~(s.hp[c] > 0) /\ ~(s.timer[c] + 1 < RespawnTicks)
  <2> DEFINE hp == [s.hp EXCEPT ![c] = MaxHealth]
             pos == [s.pos EXCEPT ![c] = Spawn]
             timer == [s.timer EXCEPT ![c] = 0]
             protectedUntil == [s.protectedUntil EXCEPT ![c] = current + Protection]
             respawns == [s.respawns EXCEPT ![c] = @ + 1]
             n == [s EXCEPT !.hp = hp, !.pos = pos, !.timer = timer,
                            !.protectedUntil = protectedUntil, !.respawns = respawns]
  <2>1. RespawnTurn(s, c, current) = n
    BY <1>6 DEF RespawnTurn, Calm, Typed, Worlds
  <2>2. hp \in [Actors -> 0 .. MaxHealth] /\ pos \in [Actors -> Cells] /\ timer \in [Actors -> Nat]
    BY <1>1, <1>2 DEF Spawn, Cells
  <2>3. protectedUntil \in [Actors -> Nat] /\ respawns \in [Actors -> Nat]
    <3>1. current + Protection \in Nat /\ s.respawns[c] + 1 \in Nat
      BY <1>1, <1>2
    <3> QED
      BY <1>1, <3>1
  <2>4. s.hp[c] = 0
    <3>1. s.hp[c] \in 0 .. MaxHealth
      BY <1>1
    <3> QED
      BY <1>2, <1>6, <3>1
  <2> HIDE DEF hp, pos, timer, protectedUntil, respawns, n
  <2>5. n \in Worlds(s.scheduled, s.hist, s.shots)
    BY <2>2, <2>3 DEF n, Calm, Typed, Worlds
  <2>6. /\ n.scheduled = s.scheduled /\ n.hist = s.hist /\ n.shots = s.shots
        /\ Alike(s, n) /\ n.hp = hp /\ n.respawns = respawns
    BY DEF n, Calm, Typed, Worlds, Alike
  <2>7. Sound(s, n)
    BY <1>1, <2>4, <2>5, <2>6, RevivedSound DEF Calm, Typed, hp, respawns
  <2> QED
    BY <2>1, <2>6, <2>7, NoShotTurned
<1> QED
  BY <1>4, <1>5, <1>6

\* Commands put aside or thrown away change no count.
Rescheduled(s, scheduled, timer) == [s EXCEPT !.scheduled = scheduled, !.timer = timer]

LEMMA RescheduledSound ==
  ASSUME NEW s, Calm(s), NEW scheduled, NEW timer \in [Actors -> Nat]
  PROVE  LET n == Rescheduled(s, scheduled, timer) IN
         Sound(s, n) /\ Calm(n) /\ n.shots = s.shots /\ n.hp = s.hp
<1> DEFINE n == Rescheduled(s, scheduled, timer)
<1>1. n \in Worlds(scheduled, s.hist, s.shots)
  BY DEF Rescheduled, Calm, Typed, Worlds
<1>2. /\ n.scheduled = scheduled /\ n.hist = s.hist /\ n.shots = s.shots
      /\ Alike(s, n) /\ n.hp = s.hp /\ n.respawns = s.respawns
  BY DEF Rescheduled, Calm, Typed, Worlds, Alike
<1> HIDE DEF n
<1>3. Typed(n)
  BY <1>1, <1>2 DEF Typed
<1>4. Sound(s, n)
  BY <1>2, <1>3, SameCountsSound DEF Calm
<1> QED
  BY <1>2, <1>4 DEF Sound, Calm, n

LEMMA DeadBotTurnSound ==
  ASSUME NEW s, Calm(s), NEW b \in Bots, s.hp[b] = 0
  PROVE  Sound(s, DeadBotTurn(s, b)) /\ DeadBotTurn(s, b).shots = s.shots
<1>1. b \in Actors /\ s.timer \in [Actors -> Nat]
  BY ActorsAre DEF Calm, Typed, Worlds
<1> DEFINE scheduled == [s.scheduled EXCEPT ![b] = <<>>]
           timer == [s.timer EXCEPT ![b] = @ + 1]
           cleared == [s EXCEPT !.scheduled[b] = <<>>, !.timer[b] = @ + 1]
<1>2. timer \in [Actors -> Nat]
  <2>1. s.timer[b] + 1 \in Nat
    BY <1>1
  <2> QED
    BY <1>1, <2>1
<1>3. cleared = Rescheduled(s, scheduled, timer)
  BY DEF Rescheduled, Calm, Typed, Worlds
<1>4. DeadBotTurn(s, b) = IF cleared.timer[b] >= RespawnTicks THEN RespawnedBot(cleared, b) ELSE cleared
  BY Zenon DEF DeadBotTurn
<1> HIDE DEF scheduled, timer, cleared
<1>5. Sound(s, cleared) /\ Calm(cleared) /\ cleared.shots = s.shots /\ cleared.hp = s.hp
  BY <1>2, <1>3, RescheduledSound
<1> DEFINE n == RespawnedBot(cleared, b)
           hp == [cleared.hp EXCEPT ![b] = MaxHealth]
           pos == [cleared.pos EXCEPT ![b] = Spawn]
           ticks == [cleared.timer EXCEPT ![b] = 0]
           respawns == [cleared.respawns EXCEPT ![b] = @ + 1]
<1>6. n = [cleared EXCEPT !.hp = hp, !.pos = pos, !.timer = ticks, !.respawns = respawns]
  BY <1>5 DEF RespawnedBot, Calm, Typed, Worlds
<1>7. hp \in [Actors -> 0 .. MaxHealth] /\ pos \in [Actors -> Cells] /\ ticks \in [Actors -> Nat]
  <2>1. cleared.hp \in [Actors -> 0 .. MaxHealth] /\ cleared.pos \in [Actors -> Cells] /\ cleared.timer \in [Actors -> Nat]
    BY <1>5 DEF Calm, Typed, Worlds
  <2>2. MaxHealth \in Nat
    BY ConstantsAssumption
  <2> QED
    BY <1>1, <2>1, <2>2 DEF Spawn, Cells
<1>8. respawns \in [Actors -> Nat]
  <2>1. cleared.respawns \in [Actors -> Nat]
    BY <1>5 DEF Calm, Typed, Worlds
  <2>2. cleared.respawns[b] + 1 \in Nat
    BY <1>1, <2>1
  <2> QED
    BY <2>1, <2>2
<1> HIDE DEF n, hp, pos, ticks, respawns
<1>9. n \in Worlds(cleared.scheduled, cleared.hist, cleared.shots)
  BY <1>5, <1>6, <1>7, <1>8 DEF Calm, Typed, Worlds
<1>10. /\ n.scheduled = cleared.scheduled /\ n.hist = cleared.hist /\ n.shots = cleared.shots
       /\ Alike(cleared, n) /\ n.hp = hp /\ n.respawns = respawns
  BY <1>5, <1>6 DEF Calm, Typed, Worlds, Alike
<1>11. cleared.hp[b] = 0
  BY <1>5
<1>12. Sound(cleared, n)
  BY <1>1, <1>5, <1>9, <1>10, <1>11, RevivedSound DEF Calm, Typed, hp, respawns
<1>13. Sound(s, n) /\ n.shots = s.shots
  BY <1>5, <1>10, <1>12, SoundFollows
<1> QED
  BY <1>4, <1>5, <1>13 DEF n

Undisturbed(s, t) == Sound(s, t) /\ Calm(t) /\ t.shots = s.shots

LEMMA UndisturbedFollows ==
  ASSUME NEW r, NEW s, NEW t, Undisturbed(r, s), Undisturbed(s, t)
  PROVE  Undisturbed(r, t)
BY SoundFollows DEF Undisturbed

LEMMA QueuedUndisturbed ==
  ASSUME NEW s, Calm(s), NEW b \in Bots, NEW order, NEW current
  PROVE  Undisturbed(s, Queued(s, b, order, current))
<1> DEFINE late == [due |-> IF order.kind = "prompt" THEN current ELSE current + 1,
                    shot |-> [target |-> order.target, cell |-> s.pos[order.target],
                              viewed |-> current, delay |-> 0, drawn |-> NotDrawn]]
           scheduled == [s.scheduled EXCEPT ![b] = Append(@, late)]
           n == [s EXCEPT !.scheduled[b] = Append(@, late)]
           none == order.kind = "idle" \/ ~s.botsShoot \/ s.hp[order.target] = 0 \/ Team[order.target] = Team[b]
<1>1. Queued(s, b, order, current) = IF none THEN s ELSE n
  BY Zenon DEF Queued
<1> HIDE DEF late, none
<1>2. n = Rescheduled(s, scheduled, s.timer)
  BY DEF Rescheduled, Calm, Typed, Worlds
<1>3. s.timer \in [Actors -> Nat]
  BY DEF Calm, Typed, Worlds
<1> HIDE DEF scheduled, n
<1>4. Undisturbed(s, n)
  BY <1>2, <1>3, RescheduledSound DEF Undisturbed
<1>5. Undisturbed(s, s)
  BY DEF Undisturbed, Calm, Sound, Lasting
<1> QED
  BY <1>1, <1>4, <1>5

LEMMA DeliveredTurned ==
  ASSUME NEW s, Calm(s), NEW b \in Bots, NEW current
  PROVE  Turned(s, Delivered(s, b, current), current)
<1> DEFINE due == SelectSeq(s.scheduled[b], LAMBDA p : p.due <= current)
           later == SelectSeq(s.scheduled[b], LAMBDA p : p.due > current)
           scheduled == [s.scheduled EXCEPT ![b] = later]
           rest == [s EXCEPT !.scheduled[b] = SelectSeq(@, LAMBDA p : p.due > current)]
           shot == Head(due).shot
           n == Fired(rest, b, shot, current)
<1>1. Delivered(s, b, current) = IF due = <<>> \/ ~s.botsShoot THEN rest ELSE n
  BY DEF Delivered
<1>2. rest = [s EXCEPT !.scheduled[b] = later]
  BY DEF Calm, Typed, Worlds
<1> HIDE DEF due, later, rest, shot
<1>3. rest = Rescheduled(s, scheduled, s.timer)
  BY <1>2 DEF Rescheduled, Calm, Typed, Worlds
<1> HIDE DEF scheduled
<1>4. s.timer \in [Actors -> Nat]
  BY DEF Calm, Typed, Worlds
<1>5. Sound(s, rest) /\ Calm(rest) /\ rest.shots = s.shots
  BY <1>3, <1>4, RescheduledSound
<1>6. Turned(s, rest, current)
  BY <1>5, NoShotTurned
<1>7. b \in Actors /\ b \notin Sessions
  BY ActorsAre
<1>8. Sound(rest, n) /\ n.shots = rest.shots \cup {Noted(rest, b, shot, current)}
  BY <1>5, <1>7, FiredSound DEF Calm
<1> HIDE DEF n
<1>9. Sound(s, n)
  BY <1>5, <1>8, SoundFollows
<1>10. Met(Noted(rest, b, shot, current), current)
  <2>1. Noted(rest, b, shot, current).shooter = b
    BY DEF Noted
  <2> QED
    BY <1>7, <2>1, Zenon DEF Met
<1>11. ASSUME AllMet(s, current) PROVE AllMet(n, current)
  <2>1. n.mode = s.mode /\ n.shots = s.shots \cup {Noted(rest, b, shot, current)}
    BY <1>5, <1>8, <1>9 DEF Sound, Lasting
  <2> QED
    BY <1>10, <1>11, <2>1 DEF AllMet
<1>12. Turned(s, n, current)
  BY <1>9, <1>11 DEF Turned
<1> QED
  BY <1>1, <1>6, <1>12

LEMMA TurnedFollows ==
  ASSUME NEW r, NEW s, NEW t, NEW current, Undisturbed(r, s), Turned(s, t, current)
  PROVE  Turned(r, t, current)
<1>1. Sound(r, t)
  BY SoundFollows DEF Undisturbed, Turned
<1>2. s.mode = r.mode /\ s.hist = r.hist /\ s.shots = r.shots
  BY DEF Undisturbed, Sound, Lasting
<1>3. SeesRight(r, current) => SeesRight(s, current)
  BY <1>2 DEF SeesRight
<1>4. AllMet(r, current) => AllMet(s, current)
  BY <1>2 DEF AllMet
<1> QED
  BY <1>1, <1>3, <1>4 DEF Turned

LEMMA BotTurnSound ==
  ASSUME NEW s, Calm(s), NEW b \in Bots, NEW order, NEW current
  PROVE  Turned(s, BotTurn(s, b, order, current), current)
<1> DEFINE timer == [s.timer EXCEPT ![b] = 0]
           none == [s.scheduled EXCEPT ![b] = <<>>]
           awake == [s EXCEPT !.timer[b] = 0]
           idle == [s EXCEPT !.scheduled[b] = <<>>, !.timer[b] = 0]
           queued == Queued(awake, b, order, current)
<1>1. BotTurn(s, b, order, current) =
        IF s.hp[b] = 0 THEN DeadBotTurn(s, b)
        ELSE IF ~s.botsActive THEN idle ELSE Delivered(queued, b, current)
  BY DEF BotTurn
<1>2. b \in Actors /\ s.timer \in [Actors -> Nat]
  BY ActorsAre DEF Calm, Typed, Worlds
<1>3. timer \in [Actors -> Nat]
  BY <1>2
<1>4. idle = Rescheduled(s, none, timer)
  BY DEF Rescheduled, Calm, Typed, Worlds
<1>5. awake = Rescheduled(s, s.scheduled, timer)
  BY DEF Rescheduled, Calm, Typed, Worlds
<1> HIDE DEF timer, none, awake, idle, queued
<1>6. Turned(s, idle, current)
  <2>1. Sound(s, idle) /\ idle.shots = s.shots
    BY <1>3, <1>4, RescheduledSound
  <2> QED
    BY <2>1, NoShotTurned
<1>7. Undisturbed(s, awake)
  BY <1>3, <1>5, RescheduledSound DEF Undisturbed
<1>8. Undisturbed(awake, queued)
  BY <1>7, QueuedUndisturbed DEF Undisturbed, queued
<1>9. Undisturbed(s, queued)
  BY <1>7, <1>8, UndisturbedFollows
<1>10. Turned(queued, Delivered(queued, b, current), current)
  BY <1>9, DeliveredTurned DEF Undisturbed
<1>11. Turned(s, Delivered(queued, b, current), current)
  BY <1>9, <1>10, TurnedFollows
<1>12. ASSUME s.hp[b] = 0 PROVE Turned(s, DeadBotTurn(s, b), current)
  BY <1>12, DeadBotTurnSound, NoShotTurned
<1> QED
  BY <1>1, <1>6, <1>11, <1>12

\* The turns, each from the world the one before left.
LEMMA TurnSound ==
  ASSUME NEW s, Calm(s), NEW turn \in Turns, NEW current \in Nat,
         NEW order, \A c \in Sessions : order[c] \in Allowed(c, current), NEW botOrder
  PROVE  Turned(s, Turn(s, turn, order, botOrder, current), current)
<1>1. CASE turn.does = "command"
  <2>1. turn.actor \in Sessions
    BY <1>1 DEF Turns
  <2>2. order[turn.actor] \in Allowed(turn.actor, current)
    BY <2>1
  <2>3. Turn(s, turn, order, botOrder, current) = SessionTurn(s, turn.actor, order[turn.actor], current)
    BY <1>1 DEF Turn
  <2> QED
    BY <2>1, <2>2, <2>3, SessionTurnSound
<1>2. CASE turn.does = "bot"
  <2>1. turn.actor \in Bots
    BY <1>2 DEF Turns
  <2>2. Turn(s, turn, order, botOrder, current) = BotTurn(s, turn.actor, botOrder[turn.actor], current)
    BY <1>2 DEF Turn
  <2> QED
    BY <2>1, <2>2, BotTurnSound
<1>3. CASE turn.does = "respawn"
  <2>1. turn.actor \in Sessions
    BY <1>3 DEF Turns
  <2>2. Turn(s, turn, order, botOrder, current) = RespawnTurn(s, turn.actor, current)
    BY <1>3 DEF Turn
  <2> QED
    BY <2>1, <2>2, RespawnTurnSound
<1> QED
  BY <1>1, <1>2, <1>3 DEF Turns

LEMMA TurnedOn ==
  ASSUME NEW r, NEW s, NEW t, NEW current, Turned(r, s, current), Turned(s, t, current)
  PROVE  Turned(r, t, current)
<1>1. Sound(r, t)
  BY SoundFollows DEF Turned
<1>2. s.hist = r.hist
  BY DEF Turned, Sound, Lasting
<1>3. SeesRight(r, current) => SeesRight(s, current)
  BY <1>2 DEF SeesRight
<1> QED
  BY <1>1, <1>3 DEF Turned

LEMMA TurnsSound ==
  ASSUME NEW s, Calm(s), NEW current \in Nat,
         NEW order, \A c \in Sessions : order[c] \in Allowed(c, current), NEW botOrder,
         NEW t \in AfterTurns(s, order, botOrder, current)[Len(Schedule)]
  PROVE  Turned(s, t, current)
<1> DEFINE after == AfterTurns(s, order, botOrder, current)
           N == Len(Schedule)
           Bad == {i \in Nat : i <= N /\ \E w \in after[i] : ~Turned(s, w, current)}
<1>1. N \in Nat /\ \A i \in 1 .. N : Schedule[i] \in Turns
  BY ScheduleIs, ElementOfSeq
<1>2. after[0] = {s} /\ \A i \in 1 .. N : after[i] = {Turn(w, Schedule[i], order, botOrder, current) : w \in after[i - 1]}
  BY TurnsFollow
<1> SUFFICES ASSUME ~Turned(s, t, current) PROVE FALSE
  OBVIOUS
<1>3. t \in after[N]
  OBVIOUS
<1> HIDE DEF after, N
<1>4. Bad \in SUBSET Nat /\ Bad # {}
  <2>1. N \in Bad
    BY <1>1, <1>3
  <2> QED
    BY <2>1
<1>5. PICK i \in Bad : \A k \in Bad : i <= k
  <2> HIDE DEF Bad
  <2> QED
    BY <1>4, LeastNatural
<1>6. PICK w \in after[i] : ~Turned(s, w, current)
  OBVIOUS
<1>7. i # 0
  <2>1. Turned(s, s, current)
    BY StillTurned
  <2> QED
    BY <1>2, <1>6, <2>1
<1>8. i \in 1 .. N /\ i - 1 \in Nat /\ i - 1 <= N
  BY <1>1, <1>7
<1>9. PICK v \in after[i - 1] : w = Turn(v, Schedule[i], order, botOrder, current)
  BY <1>2, <1>6, <1>8
<1>10. Turned(s, v, current)
  <2>1. i - 1 \notin Bad
    BY <1>5, <1>8
  <2> QED
    BY <1>8, <1>9, <2>1
<1>11. Calm(v)
  BY <1>10 DEF Turned, Sound, Calm
<1>12. Schedule[i] \in Turns
  BY <1>1, <1>8
<1>13. Turned(v, w, current)
  BY <1>9, <1>11, <1>12, TurnSound
<1> QED
  BY <1>6, <1>10, <1>13, TurnedOn

\* After a tick the history has one sample more of each actor, as it then stands.
LEMMA SteppedSound ==
  ASSUME NEW s, Calm(s), NEW current \in Nat,
         NEW order, \A c \in Sessions : order[c] \in Allowed(c, current), NEW botOrder,
         NEW t \in Stepped(s, order, botOrder, current)
  PROVE  /\ Calm(t) /\ t.mode = s.mode /\ t.seq = s.seq
         /\ t.killed - Len(t.pending) = s.killed - Len(s.pending)
         /\ t.hist = [a \in Actors |-> Recorded(s.hist[a], Sample(t, a, current))]
         /\ SeesRight(s, current) /\ AllMet(s, current) => AllMet(t, current)
<1>1. PICK w \in AfterTurns(s, order, botOrder, current)[Len(Schedule)] :
        t = [w EXCEPT !.hist = [a \in Actors |-> Recorded(@[a], Sample(w, a, current))]]
  BY Zenon DEF Stepped
<1>2. Turned(s, w, current)
  BY TurnsSound
<1>3. Sound(s, w) /\ Calm(w)
  BY <1>2 DEF Turned, Sound, Calm
<1> DEFINE hist == [a \in Actors |-> Recorded(w.hist[a], Sample(w, a, current))]
<1>4. t = [w EXCEPT !.hist = hist]
  BY <1>1
<1> HIDE DEF hist
<1>5. t \in Worlds(w.scheduled, hist, w.shots)
  BY <1>3, <1>4 DEF Calm, Typed, Worlds
<1>6. /\ t.scheduled = w.scheduled /\ t.shots = w.shots /\ t.hist = hist
      /\ t.mode = w.mode /\ t.seq = w.seq /\ t.killed = w.killed /\ t.pending = w.pending
      /\ t.pos = w.pos /\ t.hp = w.hp /\ t.deaths = w.deaths /\ t.respawns = w.respawns /\ t.kills = w.kills
  BY <1>3, <1>4 DEF Calm, Typed, Worlds
<1>7. Typed(t)
  BY <1>5, <1>6 DEF Typed
<1>8. Tally(t) /\ Told(t)
  BY <1>3, <1>6 DEF Calm, Tally, Told
<1>9. t.hist = [a \in Actors |-> Recorded(s.hist[a], Sample(t, a, current))]
  <2>1. w.hist = s.hist
    BY <1>3 DEF Sound, Lasting
  <2>2. \A a \in Actors : Sample(t, a, current) = Sample(w, a, current)
    BY <1>6 DEF Sample
  <2> QED
    BY <1>6, <2>1, <2>2, Zenon DEF hist
<1>10. /\ t.mode = s.mode /\ t.seq = s.seq
       /\ t.killed - Len(t.pending) = s.killed - Len(s.pending)
  BY <1>3, <1>6 DEF Sound, Lasting
<1>11. AllMet(w, current) => AllMet(t, current)
  BY <1>6 DEF AllMet
<1> QED
  BY <1>2, <1>7, <1>8, <1>9, <1>10, <1>11 DEF Calm, Turned

LEMMA PublishedSound ==
  ASSUME NEW s, Calm(s)
  PROVE  LET n == Published(s) IN
         /\ Calm(n) /\ n.mode = s.mode /\ n.seq = s.seq + 1 /\ n.killed = s.killed /\ n.pending = <<>>
         /\ n.hist = s.hist /\ n.pos = s.pos /\ n.hp = s.hp /\ n.shots = s.shots
<1> DEFINE n == Published(s)
<1>1. s.seq + 1 \in Nat /\ <<>> \in Seq(Nat) /\ Len(<<>>) = 0 /\ s.killed \in Nat
  BY EmptySeq DEF Calm, Typed, Worlds
<1>2. n = [s EXCEPT !.seq = s.seq + 1, !.pending = <<>>]
  BY DEF Published, Calm, Typed, Worlds
<1> HIDE DEF n
<1>3. n \in Worlds(s.scheduled, s.hist, s.shots)
  BY <1>1, <1>2 DEF Calm, Typed, Worlds
<1>4. /\ n.scheduled = s.scheduled /\ n.mode = s.mode /\ n.seq = s.seq + 1 /\ n.killed = s.killed
      /\ n.pending = <<>> /\ n.hist = s.hist /\ n.pos = s.pos /\ n.hp = s.hp /\ n.shots = s.shots
      /\ n.deaths = s.deaths /\ n.respawns = s.respawns /\ n.kills = s.kills
  BY <1>2 DEF Calm, Typed, Worlds
<1>5. Typed(n)
  BY <1>3, <1>4 DEF Typed
<1>6. Tally(n)
  BY <1>4 DEF Calm, Tally
<1>7. Told(n)
  BY <1>1, <1>4 DEF Told
<1> QED
  BY <1>4, <1>5, <1>6, <1>7 DEF Calm, n

-----------------------------------------------------------------------------
(***************************************************************************)
(* Feeds. A snapshot tells the kills since the one numbered before it, so  *)
(* its events end at its scores and start after those of every earlier     *)
(* snapshot; the server still holds the events of the next.                *)
(***************************************************************************)
Snapshots ==
  [seq : Nat, time : Nat, fresh : BOOLEAN, pos : [Actors -> Cells], alive : [Actors -> BOOLEAN],
   kills : Seq(Nat), total : Nat]

Pictures == [time : Nat, fresh : BOOLEAN, pos : [Actors -> Cells], alive : [Actors -> BOOLEAN]]

Sights == {v \in [newest : Pictures, buffer : Seq(Pictures)] : Len(v.buffer) > 0}

Views == [seen : Snapshots, before : Sights, view : Sights, feed : Seq(Nat), gap : BOOLEAN]

Typing ==
  /\ Calm(server) /\ tick \in Nat /\ now \in Nat /\ repeats \in Nat
  /\ client \in [Sessions -> Views] /\ sent \in [Remote -> SUBSET Snapshots]

\* The snapshots shown or under way.
Known == {client[c].seen : c \in Sessions} \cup UNION {sent[c] : c \in Remote}

\* The kills told by the snapshots so far.
ToldSoFar(s) == s.killed - Len(s.pending)

Tells(p) ==
  /\ Len(p.kills) <= p.total
  /\ \A i \in 1 .. Len(p.kills) : p.kills[i] = p.total - Len(p.kills) + i

\* q tells the kills since p, or some of them.
Continues(p, q) ==
  /\ p.total <= q.total - Len(q.kills)
  /\ q.seq = p.seq + 1 => p.total = q.total - Len(q.kills)

Behind(p, s) ==
  /\ p.seq <= s.seq /\ p.total <= ToldSoFar(s)
  /\ p.seq = s.seq => p.total = ToldSoFar(s)

FeedRight(v) ==
  /\ \A i \in 1 .. Len(v.feed) - 1 : v.feed[i] < v.feed[i + 1]
  /\ \A i \in 1 .. Len(v.feed) : v.feed[i] <= v.seen.total
  /\ ~v.gap => Len(v.feed) = v.seen.total

FeedInv ==
  repeats = 0 =>
    /\ \A p \in Known : Tells(p) /\ Behind(p, server)
    /\ \A p, q \in Known : p.seq < q.seq => Continues(p, q)
    /\ \A c \in Sessions : FeedRight(client[c])

LEMMA SnapshotIs ==
  ASSUME NEW s, Calm(s), NEW n \in Nat, NEW time \in Nat, NEW fresh \in BOOLEAN
  PROVE  SnapshotOf(s, n, time, fresh) \in Snapshots /\ Tells(SnapshotOf(s, n, time, fresh))
<1>1. /\ s.pos \in [Actors -> Cells] /\ s.pending \in Seq(Nat) /\ s.killed \in Nat
      /\ s.hp \in [Actors -> 0 .. MaxHealth]
  BY DEF Calm, Typed, Worlds
<1>2. [a \in Actors |-> s.hp[a] > 0] \in [Actors -> BOOLEAN]
  OBVIOUS
<1>3. SnapshotOf(s, n, time, fresh) \in Snapshots
  BY <1>1, <1>2 DEF SnapshotOf, Snapshots
<1>4. Tells(SnapshotOf(s, n, time, fresh))
  BY DEF SnapshotOf, Tells, Calm, Told
<1> QED
  BY <1>3, <1>4

LEMMA FreshIs ==
  ASSUME NEW n
  PROVE  Fresh(n) \in BOOLEAN
BY DEF Fresh

\* What a view may show: its newest picture and those of its buffer.
ImagesOf(v) == {v.newest} \cup {v.buffer[i] : i \in 1 .. Len(v.buffer)}

LEMMA PushedIs ==
  ASSUME NEW b \in Seq(Pictures), Len(b) > 0, NEW p \in Pictures
  PROVE  /\ Pushed(b, p) \in Seq(Pictures) /\ Len(Pushed(b, p)) > 0
         /\ \A i \in 1 .. Len(Pushed(b, p)) :
              Pushed(b, p)[i] = p \/ \E k \in 1 .. Len(b) : Pushed(b, p)[i] = b[k]
<1> DEFINE longer == Append(b, p)
           n == Len(longer)
           first == Max({1, n - MaxBuffered + 1})
           new == SubSeq(longer, first, n)
<1>1. Pushed(b, p) = IF p.time <= Last(b).time THEN b ELSE new
  BY DEF Pushed
<1>2. /\ longer \in Seq(Pictures) /\ n = Len(b) + 1 /\ Len(b) \in Nat
      /\ \A i \in 1 .. Len(b) : longer[i] = b[i]
      /\ longer[n] = p
  BY AppendProperties, LenProperties
<1>3. first \in 1 .. n
  <2> DEFINE c == n - MaxBuffered + 1
  <2>1. MaxBuffered \in Nat \ {0}
    BY ConstantsAssumption
  <2>2. c \in Int /\ c <= n /\ 1 <= n /\ n \in Nat
    BY <1>2, <2>1
  <2> HIDE DEF c, n
  <2>3. \E x \in {1, c} : \A y \in {1, c} : x >= y
    <3>1. CASE c <= 1
      BY <2>2, <3>1
    <3>2. CASE c > 1
      BY <2>2, <3>2
    <3> QED
      BY <2>2, <3>1, <3>2
  <2>4. first \in {1, c} /\ \A y \in {1, c} : first >= y
    BY <2>3, Zenon DEF Max, c
  <2> QED
    BY <2>2, <2>4
<1> HIDE DEF first, longer, n
<1>4. \A i \in 1 .. n : longer[i] \in Pictures /\ (longer[i] = p \/ \E k \in 1 .. Len(b) : longer[i] = b[k])
  <2> TAKE i \in 1 .. n
  <2>1. longer[i] \in Pictures
    BY <1>2, ElementOfSeq DEF n
  <2>2. CASE i = n
    BY <1>2, <2>1, <2>2
  <2>3. CASE i # n
    <3>1. i \in 1 .. Len(b)
      BY <1>2, <2>3
    <3> QED
      BY <1>2, <2>1, <3>1
  <2> QED
    BY <2>2, <2>3
<1>5. /\ new \in Seq(Pictures) /\ Len(new) = n - first + 1
      /\ \A i \in 1 .. n - first + 1 : new[i] = longer[first + i - 1]
  <2>1. first \in Int /\ n \in Int /\ first <= n /\ \A i \in first .. n : longer[i] \in Pictures
    BY <1>2, <1>3, <1>4
  <2>2. /\ new \in Seq(Pictures) /\ Len(new) = IF first <= n THEN n - first + 1 ELSE 0
        /\ \A i \in 1 .. n - first + 1 : new[i] = longer[first + i - 1]
    BY <2>1, SubSeqProperties
  <2> QED
    BY <2>1, <2>2
<1> HIDE DEF new
<1>6. ASSUME NEW i \in 1 .. Len(new) PROVE new[i] = p \/ \E k \in 1 .. Len(b) : new[i] = b[k]
  <2>1. first + i - 1 \in 1 .. n /\ i \in 1 .. n - first + 1
    BY <1>2, <1>3, <1>5
  <2>2. new[i] = longer[first + i - 1]
    BY <1>5, <2>1
  <2> QED
    BY <1>4, <2>1, <2>2
<1>7. Len(new) > 0
  BY <1>2, <1>3, <1>5
<1>8. CASE p.time <= Last(b).time
  <2>1. Pushed(b, p) = b
    BY <1>1, <1>8
  <2> QED
    BY <2>1
<1>9. CASE ~(p.time <= Last(b).time)
  <2>1. Pushed(b, p) = new
    BY <1>1, <1>9
  <2> QED
    BY <1>5, <1>6, <1>7, <2>1
<1> QED
  BY <1>8, <1>9

LEMMA PictureIs ==
  ASSUME NEW p \in Snapshots
  PROVE  Picture(p) \in Pictures
BY DEF Picture, Pictures, Snapshots

\* The views after a snapshot show what the newer one before showed, and that snapshot.
LEMMA AppliedShows ==
  ASSUME NEW v \in Views, NEW p \in Snapshots
  PROVE  /\ Applied(v, p).before \in Sights /\ Applied(v, p).view \in Sights
         /\ ImagesOf(Applied(v, p).before) \cup ImagesOf(Applied(v, p).view)
              \subseteq ImagesOf(v.view) \cup {Picture(p)}
<1> DEFINE n == Applied(v, p)
           q == Picture(p)
           b == v.view.buffer
           longer == Pushed(b, q)
<1>1. n.before = v.view /\ n.view = View(q, longer)
  BY DEF Applied
<1>2. q \in Pictures
  BY PictureIs
<1>3. v.view \in Sights /\ b \in Seq(Pictures) /\ Len(b) > 0
  BY DEF Views, Sights
<1> HIDE DEF n, q, b
<1>4. /\ longer \in Seq(Pictures) /\ Len(longer) > 0
      /\ \A i \in 1 .. Len(longer) : longer[i] = q \/ \E k \in 1 .. Len(b) : longer[i] = b[k]
  BY <1>2, <1>3, PushedIs
<1> HIDE DEF longer
<1>5. n.view.newest = q /\ n.view.buffer = longer
  BY <1>1 DEF View
<1>6. n.view \in Sights
  BY <1>1, <1>2, <1>4 DEF View, Sights
<1>7. ImagesOf(n.view) \subseteq ImagesOf(v.view) \cup {q}
  BY <1>4, <1>5 DEF ImagesOf, b
<1> QED
  BY <1>1, <1>3, <1>6, <1>7 DEF n, q

LEMMA AppliedRight ==
  ASSUME NEW v \in Views, NEW p \in Snapshots
  PROVE  /\ Applied(v, p) \in Views /\ Applied(v, p).seen = p
         /\ (/\ FeedRight(v) /\ Tells(p) /\ Continues(v.seen, p)
             /\ v.seen.seq < p.seq) => FeedRight(Applied(v, p))
<1> DEFINE n == Applied(v, p)
           feed == v.feed \o p.kills
<1>1. /\ v.feed \in Seq(Nat) /\ p.kills \in Seq(Nat) /\ v.seen \in Snapshots /\ (v.gap) \in BOOLEAN
      /\ v.seen.seq \in Nat /\ p.seq \in Nat /\ v.seen.total \in Nat /\ p.total \in Nat
  BY DEF Views, Snapshots
<1>2. /\ feed \in Seq(Nat) /\ Len(feed) = Len(v.feed) + Len(p.kills)
      /\ \A i \in 1 .. Len(v.feed) + Len(p.kills) :
           feed[i] = IF i <= Len(v.feed) THEN v.feed[i] ELSE p.kills[i - Len(v.feed)]
  BY <1>1, ConcatProperties
<1>3. Len(v.feed) \in Nat /\ Len(p.kills) \in Nat
  BY <1>1, LenProperties
<1>4. n.seen = p /\ n.feed = feed /\ n.gap = (v.gap \/ p.seq > v.seen.seq + 1)
  BY DEF Applied
<1>5. n \in Views
  <2>1. n.before \in Sights /\ n.view \in Sights
    BY AppliedShows
  <2> DEFINE before == n.before
             view == n.view
             gap == (v.gap \/ p.seq > v.seen.seq + 1)
  <2>2. n = [seen |-> p, before |-> before, view |-> view, feed |-> feed, gap |-> gap]
    BY DEF Applied
  <2>3. feed \in Seq(Nat) /\ gap \in BOOLEAN /\ before \in Sights /\ view \in Sights
    BY <1>2, <2>1
  <2> HIDE DEF n, feed, before, view, gap
  <2> QED
    BY <2>2, <2>3 DEF Views
<1> HIDE DEF n, feed
<1>6. ASSUME FeedRight(v), Tells(p), Continues(v.seen, p), v.seen.seq < p.seq
      PROVE  FeedRight(n)
  <2> DEFINE k == Len(v.feed)
             m == Len(p.kills)
             base == v.seen.total
  <2>1. base <= p.total - m /\ (p.seq = v.seen.seq + 1 => base = p.total - m)
    BY <1>6 DEF Continues
  <2>2. \A i \in 1 .. m : p.kills[i] = p.total - m + i
    BY <1>6 DEF Tells
  <2>3. /\ \A i \in 1 .. k - 1 : v.feed[i] < v.feed[i + 1]
        /\ \A i \in 1 .. k : v.feed[i] <= base
        /\ ~v.gap => k = base
    BY <1>6 DEF FeedRight
  <2>4. /\ \A i \in 1 .. k : v.feed[i] \in Nat
        /\ k \in Nat /\ m \in Nat /\ base \in Nat /\ p.total \in Nat /\ Len(feed) = k + m
    BY <1>1, <1>2, <1>3, ElementOfSeq
  <2>5. \A i \in 1 .. k + m : feed[i] = IF i <= k THEN v.feed[i] ELSE p.kills[i - k]
    BY <1>2
  <2> HIDE DEF k, m, base
  <2>6. ASSUME NEW i \in 1 .. k PROVE feed[i] = v.feed[i]
    <3>1. i \in 1 .. k + m /\ i <= k
      BY <2>4
    <3> QED
      BY <2>5, <3>1
  <2>7. ASSUME NEW i \in k + 1 .. k + m PROVE feed[i] = p.total - m + (i - k)
    <3>1. i \in 1 .. k + m /\ ~(i <= k) /\ i - k \in 1 .. m
      BY <2>4
    <3>2. feed[i] = p.kills[i - k]
      BY <2>5, <3>1
    <3> QED
      BY <2>2, <3>1, <3>2
  <2>8. ASSUME NEW i \in 1 .. k + m - 1 PROVE feed[i] < feed[i + 1]
    <3>1. CASE i + 1 <= k
      <4>1. i \in 1 .. k - 1 /\ i \in 1 .. k /\ i + 1 \in 1 .. k
        BY <2>4, <3>1
      <4> QED
        BY <2>3, <2>6, <4>1
    <3>2. CASE i = k
      <4>1. i \in 1 .. k /\ i + 1 \in k + 1 .. k + m
        BY <2>4, <3>2
      <4>2. feed[i] = v.feed[i] /\ v.feed[i] <= base /\ v.feed[i] \in Nat
        BY <2>3, <2>4, <2>6, <4>1
      <4>3. feed[i + 1] = p.total - m + (i + 1 - k)
        BY <2>4, <2>7, <4>1
      <4>4. i \in Int /\ p.total - m + (i + 1 - k) > base
        BY <2>1, <2>4, <3>2
      <4> QED
        BY <2>4, <4>2, <4>3, <4>4
    <3>3. CASE i > k
      <4>1. i \in k + 1 .. k + m /\ i + 1 \in k + 1 .. k + m
        BY <2>4, <3>3
      <4>2. feed[i] = p.total - m + (i - k) /\ feed[i + 1] = p.total - m + (i + 1 - k)
        BY <2>4, <2>7, <4>1
      <4> QED
        BY <2>4, <4>1, <4>2
    <3> QED
      BY <2>4, <3>1, <3>2, <3>3
  <2>9. ASSUME NEW i \in 1 .. k + m PROVE feed[i] <= p.total
    <3>1. CASE i <= k
      <4>1. i \in 1 .. k
        BY <2>4, <3>1
      <4>2. feed[i] = v.feed[i] /\ v.feed[i] <= base /\ v.feed[i] \in Nat
        BY <2>3, <2>4, <2>6, <4>1
      <4> QED
        BY <2>1, <2>4, <4>2
    <3>2. CASE i > k
      <4>1. i \in k + 1 .. k + m
        BY <2>4, <3>2
      <4>2. feed[i] = p.total - m + (i - k)
        BY <2>7, <4>1
      <4> QED
        BY <2>4, <4>1, <4>2
    <3> QED
      BY <2>4, <3>1, <3>2
  <2>10. ~n.gap => Len(feed) = p.total
    <3> SUFFICES ASSUME ~n.gap PROVE Len(feed) = p.total
      OBVIOUS
    <3>1. ~v.gap /\ ~(p.seq > v.seen.seq + 1)
      BY <1>4
    <3>2. p.seq = v.seen.seq + 1
      BY <1>1, <1>6, <3>1
    <3>3. k = base /\ base = p.total - m
      BY <2>1, <2>3, <3>1, <3>2
    <3> QED
      BY <2>4, <3>3
  <2>11. \A i \in 1 .. Len(n.feed) - 1 : n.feed[i] < n.feed[i + 1]
    BY <1>4, <2>4, <2>8
  <2>12. \A i \in 1 .. Len(n.feed) : n.feed[i] <= n.seen.total
    BY <1>4, <2>4, <2>9
  <2>13. ~n.gap => Len(n.feed) = n.seen.total
    BY <1>4, <2>10
  <2> QED
    BY <2>11, <2>12, <2>13 DEF FeedRight
<1> QED
  BY <1>4, <1>5, <1>6 DEF n

-----------------------------------------------------------------------------
(***************************************************************************)
(* What a tick does, published or not.                                     *)
(***************************************************************************)
LEMMA ClearedCalm ==
  ASSUME NEW s, Calm(s)
  PROVE  LET n == [s EXCEPT !.shots = {}] IN
         /\ Calm(n) /\ n.mode = s.mode /\ n.seq = s.seq /\ n.killed = s.killed /\ n.pending = s.pending
         /\ n.hist = s.hist /\ n.shots = {}
<1> DEFINE n == [s EXCEPT !.shots = {}]
<1>1. n \in Worlds(s.scheduled, s.hist, {})
  BY DEF Calm, Typed, Worlds
<1>2. /\ n.scheduled = s.scheduled /\ n.hist = s.hist /\ n.shots = {}
      /\ Alike(s, n) /\ n.hp = s.hp /\ n.respawns = s.respawns
  BY DEF Calm, Typed, Worlds, Alike
<1> HIDE DEF n
<1>3. Typed(n)
  BY <1>1, <1>2 DEF Typed
<1>4. Sound(s, n)
  BY <1>2, <1>3, SameCountsSound DEF Calm
<1> QED
  BY <1>2, <1>4 DEF Sound, Calm, Alike, n

TickLeads(stepped, publish) ==
  /\ Calm(stepped) /\ stepped.mode = server.mode /\ stepped.seq = server.seq
  /\ ToldSoFar(stepped) = ToldSoFar(server)
  /\ stepped.hist = [a \in Actors |-> Recorded(server.hist[a], Sample(stepped, a, now'))]
  /\ SeesRight(server, now') => AllMet(stepped, now')
  /\ tick' = tick + 1 /\ now' = TimeOfTick(tick + 1) /\ now' \in Nat /\ repeats' = repeats
  /\ publish => LET snapshot == SnapshotOf(stepped, stepped.seq + 1, now', Fresh(tick + 1)) IN
                /\ server' = Published(stepped)
                /\ sent' = [c \in Remote |-> sent[c] \cup {snapshot}]
                /\ client' = [c \in Sessions |->
                                IF c \in Remote THEN client[c] ELSE Applied(client[c], snapshot)]
  /\ ~publish => server' = stepped /\ sent' = sent /\ client' = client

LEMMA TickIs ==
  ASSUME Typing, NEW order, \A c \in Sessions : order[c] \in Allowed(c, TimeOfTick(tick + 1)),
         NEW botOrder, NEW publish \in BOOLEAN, Tick(order, botOrder, publish)
  PROVE  \E stepped : TickLeads(stepped, publish)
<1> DEFINE current == TimeOfTick(tick + 1)
           cleared == [server EXCEPT !.shots = {}]
<1>1. current \in Nat
  BY DEF TimeOfTick, Typing
<1>2. Calm(server)
  BY DEF Typing
<1>3. /\ Calm(cleared) /\ cleared.mode = server.mode /\ cleared.seq = server.seq
      /\ cleared.killed = server.killed /\ cleared.pending = server.pending
      /\ cleared.hist = server.hist /\ cleared.shots = {}
  BY <1>2, ClearedCalm
<1>4. /\ tick' = tick + 1 /\ now' = current /\ repeats' = repeats
      /\ \E stepped \in Stepped(cleared, order, botOrder, current) :
           LET snapshot == SnapshotOf(stepped, stepped.seq + 1, current, Fresh(tick + 1)) IN
           IF publish
           THEN /\ server' = Published(stepped)
                /\ sent' = [c \in Remote |-> sent[c] \cup {snapshot}]
                /\ client' = [c \in Sessions |->
                                IF c \in Remote THEN client[c] ELSE Applied(client[c], snapshot)]
           ELSE server' = stepped /\ client' = client /\ sent' = sent
  BY DEF Tick
<1>5. \A c \in Sessions : order[c] \in Allowed(c, current)
  OBVIOUS
<1> HIDE DEF current, cleared
<1>6. PICK stepped \in Stepped(cleared, order, botOrder, current) :
        LET snapshot == SnapshotOf(stepped, stepped.seq + 1, current, Fresh(tick + 1)) IN
        IF publish
        THEN /\ server' = Published(stepped)
             /\ sent' = [c \in Remote |-> sent[c] \cup {snapshot}]
             /\ client' = [c \in Sessions |->
                             IF c \in Remote THEN client[c] ELSE Applied(client[c], snapshot)]
        ELSE server' = stepped /\ client' = client /\ sent' = sent
  BY <1>4
<1>7. /\ Calm(stepped) /\ stepped.mode = cleared.mode /\ stepped.seq = cleared.seq
      /\ stepped.killed - Len(stepped.pending) = cleared.killed - Len(cleared.pending)
      /\ stepped.hist = [a \in Actors |-> Recorded(cleared.hist[a], Sample(stepped, a, current))]
      /\ SeesRight(cleared, current) /\ AllMet(cleared, current) => AllMet(stepped, current)
  BY <1>1, <1>3, <1>5, SteppedSound
<1>8. ToldSoFar(stepped) = ToldSoFar(server)
  BY <1>3, <1>7 DEF ToldSoFar
<1>9. stepped.hist = [a \in Actors |-> Recorded(server.hist[a], Sample(stepped, a, now'))]
  BY <1>3, <1>4, <1>7
<1>10. SeesRight(server, now') => AllMet(stepped, now')
  <2>1. SeesRight(server, now') => SeesRight(cleared, current)
    BY <1>3, <1>4 DEF SeesRight
  <2>2. AllMet(cleared, current)
    BY <1>3 DEF AllMet
  <2> QED
    BY <1>4, <1>7, <2>1, <2>2
<1>11. publish => LET snapshot == SnapshotOf(stepped, stepped.seq + 1, now', Fresh(tick + 1)) IN
                  /\ server' = Published(stepped)
                  /\ sent' = [c \in Remote |-> sent[c] \cup {snapshot}]
                  /\ client' = [c \in Sessions |->
                                  IF c \in Remote THEN client[c] ELSE Applied(client[c], snapshot)]
  BY <1>4, <1>6
<1>12. ~publish => server' = stepped /\ sent' = sent /\ client' = client
  BY <1>6
<1>13. now' = TimeOfTick(tick + 1)
  BY <1>4 DEF current
<1>14. TickLeads(stepped, publish)
  <2>1. stepped.mode = server.mode /\ stepped.seq = server.seq /\ Calm(stepped)
    BY <1>3, <1>7
  <2>2. now' \in Nat /\ tick' = tick + 1 /\ repeats' = repeats
    BY <1>1, <1>4
  <2> QED
    BY <1>8, <1>9, <1>10, <1>11, <1>12, <1>13, <2>1, <2>2, Zenon DEF TickLeads
<1> QED
  BY <1>14

\* The host's toggles touch nothing that counts.
Untouched ==
  /\ Calm(server') /\ server'.mode = server.mode /\ server'.seq = server.seq
  /\ server'.killed = server.killed /\ server'.pending = server.pending
  /\ server'.hist = server.hist /\ server'.pos = server.pos /\ server'.hp = server.hp
  /\ server'.shots = server.shots
  /\ UNCHANGED <<tick, now, sent, client, repeats>>

LEMMA ToggledUntouched ==
  ASSUME Typing, ToggleBots \/ ToggleBotPeace
  PROVE  Untouched
<1> DEFINE n == server'
           scheduled == [b \in Bots |-> <<>>]
<1>1. CASE ToggleBots
  <2>1. n = [server EXCEPT !.botsActive = FALSE, !.scheduled = scheduled]
    BY <1>1 DEF ToggleBots
  <2> HIDE DEF n, scheduled
  <2>2. n \in Worlds(scheduled, server.hist, server.shots)
    BY <2>1 DEF Typing, Calm, Typed, Worlds
  <2>3. /\ n.scheduled = scheduled /\ n.hist = server.hist /\ n.shots = server.shots
        /\ Alike(server, n) /\ n.hp = server.hp /\ n.respawns = server.respawns /\ n.pos = server.pos
    BY <2>1 DEF Typing, Calm, Typed, Worlds, Alike
  <2>4. Typed(n)
    BY <2>2, <2>3 DEF Typed
  <2>5. Sound(server, n)
    BY <2>3, <2>4, SameCountsSound DEF Typing, Calm
  <2> QED
    BY <1>1, <2>3, <2>5 DEF n, Untouched, Sound, Calm, Alike, ToggleBots
<1>2. CASE ToggleBotPeace
  <2>1. n = [server EXCEPT !.botsShoot = FALSE]
    BY <1>2 DEF ToggleBotPeace
  <2> HIDE DEF n
  <2>2. n \in Worlds(server.scheduled, server.hist, server.shots)
    BY <2>1 DEF Typing, Calm, Typed, Worlds
  <2>3. /\ n.scheduled = server.scheduled /\ n.hist = server.hist /\ n.shots = server.shots
        /\ Alike(server, n) /\ n.hp = server.hp /\ n.respawns = server.respawns /\ n.pos = server.pos
    BY <2>1 DEF Typing, Calm, Typed, Worlds, Alike
  <2>4. Typed(n)
    BY <2>2, <2>3 DEF Typed
  <2>5. Sound(server, n)
    BY <2>3, <2>4, SameCountsSound DEF Typing, Calm
  <2> QED
    BY <1>2, <2>3, <2>5 DEF n, Untouched, Sound, Calm, Alike, ToggleBotPeace
<1> QED
  BY <1>1, <1>2

LEMMA NextCases ==
  ASSUME [Next]_vars
  PROVE  \/ \E order : \E botOrder \in [Bots -> BotOrders], publish \in BOOLEAN :
              /\ \A c \in Sessions : order[c] \in Allowed(c, TimeOfTick(tick + 1))
              /\ Tick(order, botOrder, publish)
         \/ \E c \in Remote : RefreshHello(c)
         \/ \E c \in Remote : \E snapshot \in sent[c] : Receive(c, snapshot)
         \/ ToggleBots \/ ToggleBotPeace
         \/ UNCHANGED vars
<1> DEFINE may == [c \in Sessions |-> Allowed(c, TimeOfTick(tick + 1))]
<1>1. ASSUME NEW order, \A c \in Sessions : order[c] \in may[c],
             NEW botOrder \in [Bots -> BotOrders], NEW publish \in BOOLEAN, Tick(order, botOrder, publish)
      PROVE  /\ \A c \in Sessions : order[c] \in Allowed(c, TimeOfTick(tick + 1))
             /\ Tick(order, botOrder, publish)
  BY <1>1
<1> HIDE DEF may
<1>2. CASE \E order : \E botOrder \in [Bots -> BotOrders], publish \in BOOLEAN :
             (\A c \in Sessions : order[c] \in may[c]) /\ Tick(order, botOrder, publish)
  BY <1>1, <1>2, Zenon
<1>3. CASE ~\E order : \E botOrder \in [Bots -> BotOrders], publish \in BOOLEAN :
             (\A c \in Sessions : order[c] \in may[c]) /\ Tick(order, botOrder, publish)
  BY <1>3, Zenon DEF Next, may
<1> QED
  BY <1>2, <1>3

LEMMA InitialWorld ==
  ASSUME Init
  PROVE  /\ Calm(server) /\ server.seq = 0 /\ server.killed = 0 /\ server.pending = <<>>
         /\ server.shots = {}
         /\ server.hist = [a \in Actors |-> <<Sample(server, a, 0)>>]
<1> DEFINE start(mode, h) ==
             [mode |-> mode, pos |-> [a \in Actors |-> Spawn],
              hp |-> [a \in Actors |-> MaxHealth], timer |-> Zero, protectedUntil |-> Zero,
              kills |-> Zero, deaths |-> Zero, respawns |-> Zero,
              scheduled |-> [b \in Bots |-> <<>>], botsActive |-> TRUE, botsShoot |-> TRUE,
              hist |-> h, seq |-> 0, killed |-> 0, pending |-> <<>>, shots |-> {}]
           none == [a \in Actors |-> <<>>]
<1>1. PICK mode \in Modes :
        server = [start(mode, none) EXCEPT !.hist = [a \in Actors |-> <<Sample(start(mode, none), a, 0)>>]]
  BY DEF Init
<1> DEFINE hist == [a \in Actors |-> <<Sample(start(mode, none), a, 0)>>]
<1>2. server = start(mode, hist)
  BY <1>1
<1> HIDE DEF hist
<1>3. /\ [a \in Actors |-> Spawn] \in [Actors -> Cells]
      /\ [a \in Actors |-> MaxHealth] \in [Actors -> 0 .. MaxHealth]
  BY ConstantsAssumption DEF Spawn, Cells
<1>4. Zero \in [Actors -> Nat] /\ Sum(Zero) = 0 /\ <<>> \in Seq(Nat) /\ Len(<<>>) = 0
  BY SumOfNothing, EmptySeq
<1>5. server \in Worlds([b \in Bots |-> <<>>], hist, {})
  BY <1>2, <1>3, <1>4 DEF Worlds
<1>6. /\ server.scheduled = [b \in Bots |-> <<>>] /\ server.hist = hist /\ server.shots = {}
      /\ server.hp = [a \in Actors |-> MaxHealth] /\ server.kills = Zero /\ server.deaths = Zero
      /\ server.respawns = Zero /\ server.killed = 0 /\ server.pending = <<>> /\ server.seq = 0
      /\ server.pos = [a \in Actors |-> Spawn]
  BY <1>2
<1>7. Typed(server)
  BY <1>5, <1>6 DEF Typed
<1>8. Tally(server)
  <2>1. \A a \in Actors : server.deaths[a] = 0 /\ server.respawns[a] = 0 /\ server.hp[a] = MaxHealth
    BY <1>6 DEF Zero
  <2>2. MaxHealth \in Nat \ {0}
    BY ConstantsAssumption
  <2> QED
    BY <1>4, <1>6, <2>1, <2>2 DEF Tally
<1>9. Told(server)
  BY <1>4, <1>6 DEF Told
<1>10. server.hist = [a \in Actors |-> <<Sample(server, a, 0)>>]
  <2>1. \A a \in Actors : Sample(server, a, 0) = Sample(start(mode, none), a, 0)
    BY <1>6 DEF Sample
  <2> QED
    BY <1>6, <2>1 DEF hist
<1> QED
  BY <1>6, <1>7, <1>8, <1>9, <1>10 DEF Calm

LEMMA InitTyping ==
  ASSUME Init
  PROVE  Typing
<1>1. Calm(server)
  BY InitialWorld
<1>2. SnapshotOf(server, 0, 0, TRUE) \in Snapshots
  BY <1>1, SnapshotIs
<1>3. client \in [Sessions -> Views]
  <2> DEFINE first == SnapshotOf(server, 0, 0, TRUE)
             view == View(Picture(first), <<Picture(first)>>)
             start == [seen |-> first, before |-> view, view |-> view, feed |-> <<>>, gap |-> FALSE]
  <2>1. <<>> \in Seq(Nat)
    BY EmptySeq
  <2>2. view \in Sights
    <3> DEFINE x == Picture(first)
    <3>1. x \in Pictures
      BY <1>2, PictureIs
    <3>2. view = [newest |-> x, buffer |-> <<x>>]
      BY DEF View
    <3> HIDE DEF x, view
    <3>3. <<x>> \in Seq(Pictures) /\ Len(<<x>>) = 1
      BY <3>1
    <3> QED
      BY <3>1, <3>2, <3>3 DEF Sights
  <2>3. client = [c \in Sessions |-> start]
    BY Zenon DEF Init
  <2> HIDE DEF view
  <2>4. start \in Views
    BY <1>2, <2>1, <2>2 DEF Views
  <2> HIDE DEF start
  <2> QED
    BY <2>3, <2>4
<1>4. sent \in [Remote -> SUBSET Snapshots]
  BY DEF Init
<1> QED
  BY <1>1, <1>3, <1>4 DEF Init, Typing

LEMMA InitFeed ==
  ASSUME Init
  PROVE  FeedInv
<1>1. Calm(server) /\ server.seq = 0 /\ server.killed = 0 /\ server.pending = <<>>
  BY InitialWorld
<1> DEFINE first == SnapshotOf(server, 0, 0, TRUE)
<1>2. Known \in SUBSET {first}
  <2>1. \A c \in Sessions : client[c].seen = first
    BY DEF Init
  <2>2. \A c \in Remote : sent[c] = {}
    BY DEF Init
  <2> HIDE DEF first
  <2> QED
    BY <2>1, <2>2 DEF Known
<1>3. Tells(first)
  BY <1>1, SnapshotIs
<1>4. first.seq = 0 /\ first.total = 0
  BY <1>1 DEF SnapshotOf
<1>5. Len(<<>>) = 0
  BY EmptySeq
<1>6. ToldSoFar(server) = 0
  <2>1. Len(server.pending) = 0
    BY <1>1, <1>5, Zenon
  <2>2. ToldSoFar(server) = 0 - 0
    BY <1>1, <2>1, Zenon DEF ToldSoFar
  <2> QED
    BY <2>2
<1>7. \A c \in Sessions : FeedRight(client[c])
  <2> TAKE c \in Sessions
  <2>1. client[c].seen = first /\ client[c].feed = <<>>
    BY DEF Init
  <2> HIDE DEF first
  <2> QED
    BY <1>4, <1>5, <2>1 DEF FeedRight
<1> HIDE DEF first
<1>8. \A p \in Known : p = first
  BY <1>2
<1>9. Behind(first, server)
  BY <1>1, <1>4, <1>6 DEF Behind
<1> QED
  BY <1>3, <1>4, <1>7, <1>8, <1>9 DEF FeedInv

LEMMA NextTyping ==
  ASSUME Typing, [Next]_vars
  PROVE  Typing'
<1>1. Calm(server) /\ server.seq \in Nat
  BY DEF Typing, Calm, Typed, Worlds
<1>2. ASSUME NEW order, \A c \in Sessions : order[c] \in Allowed(c, TimeOfTick(tick + 1)),
             NEW botOrder \in [Bots -> BotOrders], NEW publish \in BOOLEAN, Tick(order, botOrder, publish)
      PROVE  Typing'
  <2>1. PICK stepped : TickLeads(stepped, publish)
    BY <1>2, TickIs
  <2>2. Calm(stepped) /\ stepped.seq + 1 \in Nat /\ now' \in Nat
    BY <1>1, <2>1 DEF TickLeads
  <2>3. tick' \in Nat /\ repeats' \in Nat
    BY <2>1 DEF TickLeads, Typing
  <2> DEFINE snapshot == SnapshotOf(stepped, stepped.seq + 1, now', Fresh(tick + 1))
  <2>4. snapshot \in Snapshots
    BY <2>2, FreshIs, SnapshotIs
  <2>5. CASE publish
    <3>1. /\ server' = Published(stepped)
          /\ sent' = [c \in Remote |-> sent[c] \cup {snapshot}]
          /\ client' = [c \in Sessions |->
                          IF c \in Remote THEN client[c] ELSE Applied(client[c], snapshot)]
      BY <2>1, <2>5 DEF TickLeads
    <3> HIDE DEF snapshot
    <3>2. Calm(server')
      BY <2>2, <3>1, PublishedSound
    <3>3. sent' \in [Remote -> SUBSET Snapshots]
      BY <2>4, <3>1 DEF Typing
    <3>4. ASSUME NEW c \in Sessions
          PROVE  (IF c \in Remote THEN client[c] ELSE Applied(client[c], snapshot)) \in Views
      <4>1. client[c] \in Views
        BY DEF Typing
      <4> QED
        BY <2>4, <4>1, AppliedRight
    <3>5. client' \in [Sessions -> Views]
      BY <3>1, <3>4
    <3> QED
      BY <2>2, <2>3, <3>2, <3>3, <3>5 DEF Typing
  <2>6. CASE ~publish
    BY <2>1, <2>2, <2>3, <2>6 DEF TickLeads, Typing
  <2> QED
    BY <2>5, <2>6
<1>3. ASSUME NEW c \in Remote, RefreshHello(c)
      PROVE  Typing'
  <2>1. SnapshotOf(server, server.seq, now, Fresh(tick)) \in Snapshots
    BY <1>1, FreshIs, SnapshotIs DEF Typing
  <2>2. sent' = [sent EXCEPT ![c] = @ \cup {SnapshotOf(server, server.seq, now, Fresh(tick))}]
    BY <1>3 DEF RefreshHello
  <2>3. sent' \in [Remote -> SUBSET Snapshots]
    BY <2>1, <2>2 DEF Typing
  <2> QED
    BY <1>3, <2>3 DEF RefreshHello, Typing
<1>4. ASSUME NEW c \in Remote, NEW snapshot \in sent[c], Receive(c, snapshot)
      PROVE  Typing'
  <2>1. c \in Sessions /\ snapshot \in Snapshots /\ client[c] \in Views
    BY ActorsAre DEF Typing
  <2>2. Applied(client[c], snapshot) \in Views
    BY <2>1, AppliedRight
  <2>3. client' = [client EXCEPT ![c] = Applied(client[c], snapshot)]
    BY <1>4 DEF Receive
  <2>4. client' \in [Sessions -> Views]
    BY <2>2, <2>3 DEF Typing
  <2> QED
    BY <1>4, <2>4 DEF Receive, Typing
<1>5. CASE ToggleBots \/ ToggleBotPeace
  BY <1>5, ToggledUntouched DEF Untouched, Typing
<1>6. CASE UNCHANGED vars
  BY <1>6 DEF vars, Typing, Calm, Typed
<1> QED
  BY <1>2, <1>3, <1>4, <1>5, <1>6, NextCases, Zenon

\* A snapshot with the next number continues all before it.
LEMMA NextSnapshot ==
  ASSUME Typing, NEW s, Calm(s), s.seq = server.seq, ToldSoFar(s) = ToldSoFar(server),
         NEW time \in Nat, NEW fresh \in BOOLEAN
  PROVE  LET q == SnapshotOf(s, s.seq + 1, time, fresh) IN
         /\ Tells(q) /\ Behind(q, Published(s))
         /\ \A p \in Snapshots : Behind(p, server) =>
              Continues(p, q) /\ p.seq < q.seq /\ Behind(p, Published(s))
<1> DEFINE q == SnapshotOf(s, s.seq + 1, time, fresh)
           n == Published(s)
<1>1. s.seq \in Nat /\ s.killed \in Nat /\ s.pending \in Seq(Nat) /\ Len(s.pending) \in Nat
  BY LenProperties DEF Calm, Typed, Worlds
<1>2. s.seq + 1 \in Nat
  BY <1>1
<1>3. Tells(q)
  BY <1>2, SnapshotIs
<1>4. q.seq = s.seq + 1 /\ q.total = s.killed /\ q.kills = s.pending
  BY DEF SnapshotOf
<1>5. n.seq = s.seq + 1 /\ n.killed = s.killed /\ n.pending = <<>>
  BY PublishedSound
<1> HIDE DEF q, n
<1>6. Len(<<>>) = 0
  BY EmptySeq
<1>7. Len(n.pending) = 0
  BY <1>5, <1>6, Zenon
<1>8. ToldSoFar(n) = s.killed
  BY <1>1, <1>5, <1>7 DEF ToldSoFar
<1>9. q.total - Len(q.kills) = ToldSoFar(s)
  BY <1>4 DEF ToldSoFar
<1>10. ToldSoFar(s) \in Int /\ ToldSoFar(s) <= s.killed
  BY <1>1 DEF ToldSoFar
<1>11. Behind(q, n)
  BY <1>1, <1>4, <1>5, <1>8 DEF Behind
<1>12. ASSUME NEW p \in Snapshots, Behind(p, server)
       PROVE  Continues(p, q) /\ p.seq < q.seq /\ Behind(p, n)
  <2>1. p.seq \in Nat /\ p.total \in Nat
    BY DEF Snapshots
  <2>2. /\ p.seq <= s.seq /\ p.total <= ToldSoFar(s)
        /\ p.seq = s.seq => p.total = ToldSoFar(s)
    BY <1>12 DEF Behind
  <2>3. p.seq < q.seq /\ (q.seq = p.seq + 1 => p.seq = s.seq)
    BY <1>1, <1>4, <2>1, <2>2
  <2>4. Continues(p, q)
    BY <1>9, <2>2, <2>3 DEF Continues
  <2>5. p.seq <= n.seq /\ p.seq # n.seq /\ p.total <= ToldSoFar(n)
    BY <1>1, <1>5, <1>8, <1>10, <2>1, <2>2
  <2> QED
    BY <2>3, <2>4, <2>5 DEF Behind
<1> QED
  BY <1>3, <1>11, <1>12 DEF q, n

LEMMA KnownSnapshots ==
  ASSUME Typing
  PROVE  Known \in SUBSET Snapshots
<1>1. \A c \in Sessions : client[c].seen \in Snapshots
  BY DEF Typing, Views
<1>2. \A c \in Remote : sent[c] \in SUBSET Snapshots
  BY DEF Typing
<1> QED
  BY <1>1, <1>2 DEF Known

\* A step after which no more snapshots are about and as many kills are told.
LEMMA FeedStays ==
  ASSUME FeedInv, repeats' = repeats, client' = client, sent' = sent,
         server'.seq = server.seq, ToldSoFar(server') = ToldSoFar(server)
  PROVE  FeedInv'
<1>1. Known' = Known
  BY DEF Known
<1>2. \A p : Behind(p, server) => Behind(p, server')
  BY DEF Behind
<1>3. SUFFICES ASSUME repeats = 0
      PROVE  /\ \A p \in Known' : Tells(p) /\ Behind(p, server')
             /\ \A p, q \in Known' : p.seq < q.seq => Continues(p, q)
             /\ \A c \in Sessions : FeedRight(client'[c])
  BY DEF FeedInv
<1>4. /\ \A p \in Known : Tells(p) /\ Behind(p, server)
      /\ \A p, q \in Known : p.seq < q.seq => Continues(p, q)
      /\ \A c \in Sessions : FeedRight(client[c])
  BY <1>3 DEF FeedInv
<1> HIDE DEF Known
<1>5. \A p \in Known' : Tells(p) /\ Behind(p, server')
  BY <1>1, <1>2, <1>4
<1>6. \A p, q \in Known' : p.seq < q.seq => Continues(p, q)
  BY <1>1, <1>4
<1> QED
  BY <1>4, <1>5, <1>6

\* A tick makes no snapshot known but the one it publishes.
LEMMA TickKnown ==
  ASSUME Typing, NEW stepped, NEW publish \in BOOLEAN, TickLeads(stepped, publish), NEW p \in Known'
  PROVE  p \in Known \/ (publish /\ p = SnapshotOf(stepped, stepped.seq + 1, now', Fresh(tick + 1)))
<1> DEFINE q == SnapshotOf(stepped, stepped.seq + 1, now', Fresh(tick + 1))
<1>1. CASE ~publish
  <2>1. sent' = sent /\ client' = client
    BY <1>1 DEF TickLeads
  <2> QED
    BY <2>1 DEF Known
<1>2. CASE publish
  <2>1. /\ sent' = [c \in Remote |-> sent[c] \cup {q}]
        /\ client' = [c \in Sessions |-> IF c \in Remote THEN client[c] ELSE Applied(client[c], q)]
    BY <1>2 DEF TickLeads
  <2>2. q \in Snapshots
    <3>1. Calm(stepped) /\ stepped.seq + 1 \in Nat /\ now' \in Nat
      BY DEF TickLeads, Calm, Typed, Worlds
    <3> QED
      BY <3>1, FreshIs, SnapshotIs
  <2> HIDE DEF q
  <2>3. ASSUME NEW c \in Sessions
        PROVE  client'[c] = (IF c \in Remote THEN client[c] ELSE Applied(client[c], q)) /\ client[c] \in Views
    BY <2>1 DEF Typing
  <2>4. p \in Known \/ p = q
    <3>1. CASE \E c \in Sessions : p = client'[c].seen
      <4>1. PICK c \in Sessions : p = client'[c].seen
        BY <3>1
      <4>2. CASE c \in Remote
        <5>1. p = client[c].seen
          BY <2>3, <4>1, <4>2
        <5> QED
          BY <5>1 DEF Known
      <4>3. CASE c \notin Remote
        <5>1. client'[c] = Applied(client[c], q) /\ Applied(client[c], q).seen = q
          BY <2>2, <2>3, <4>3, AppliedRight
        <5> QED
          BY <4>1, <5>1
      <4> QED
        BY <4>2, <4>3
    <3>2. CASE \E c \in Remote : p \in sent'[c]
      <4>1. PICK c \in Remote : p \in sent[c] \cup {q}
        BY <2>1, <3>2
      <4> QED
        BY <4>1 DEF Known
    <3>3. p \in {client'[c].seen : c \in Sessions} \cup UNION {sent'[c] : c \in Remote}
      BY DEF Known
    <3> QED
      BY <3>1, <3>2, <3>3
  <2> QED
    BY <1>2, <2>4 DEF q
<1> QED
  BY <1>1, <1>2

LEMMA TickFeed ==
  ASSUME Typing, FeedInv, NEW stepped, NEW publish \in BOOLEAN, TickLeads(stepped, publish)
  PROVE  FeedInv'
<1>1. /\ Calm(stepped) /\ stepped.seq = server.seq /\ ToldSoFar(stepped) = ToldSoFar(server)
      /\ repeats' = repeats /\ now' \in Nat
  BY DEF TickLeads
<1>2. CASE ~publish
  <2>1. server' = stepped /\ sent' = sent /\ client' = client
    BY <1>2 DEF TickLeads
  <2> QED
    BY <1>1, <2>1, FeedStays
<1>3. CASE publish
  <2> DEFINE q == SnapshotOf(stepped, stepped.seq + 1, now', Fresh(tick + 1))
             n == Published(stepped)
  <2>1. /\ server' = n /\ sent' = [c \in Remote |-> sent[c] \cup {q}]
        /\ client' = [c \in Sessions |-> IF c \in Remote THEN client[c] ELSE Applied(client[c], q)]
    BY <1>3 DEF TickLeads
  <2>2. /\ Tells(q) /\ Behind(q, n)
        /\ \A p \in Snapshots : Behind(p, server) => Continues(p, q) /\ p.seq < q.seq /\ Behind(p, n)
    BY <1>1, FreshIs, NextSnapshot
  <2>3. q \in Snapshots
    <3>1. stepped.seq + 1 \in Nat
      BY <1>1 DEF Calm, Typed, Worlds
    <3> QED
      BY <1>1, <3>1, FreshIs, SnapshotIs
  <2> HIDE DEF q, n
  <2>4. ASSUME NEW c \in Sessions
        PROVE  client'[c] = (IF c \in Remote THEN client[c] ELSE Applied(client[c], q)) /\ client[c] \in Views
    BY <2>1 DEF Typing
  <2>5. ASSUME NEW p \in Known' PROVE p \in Known \/ p = q
    BY TickKnown DEF q
  <2>6. SUFFICES ASSUME repeats = 0
        PROVE  /\ \A p \in Known' : Tells(p) /\ Behind(p, server')
               /\ \A x, y \in Known' : x.seq < y.seq => Continues(x, y)
               /\ \A c \in Sessions : FeedRight(client'[c])
    BY <1>1 DEF FeedInv
  <2>7. /\ \A p \in Known : Tells(p) /\ Behind(p, server)
        /\ \A x, y \in Known : x.seq < y.seq => Continues(x, y)
        /\ \A c \in Sessions : FeedRight(client[c])
    BY <2>6 DEF FeedInv
  <2>8. \A p \in Known : p \in Snapshots /\ Continues(p, q) /\ p.seq < q.seq /\ Behind(p, n)
    <3>1. Known \in SUBSET Snapshots
      BY KnownSnapshots
    <3> QED
      BY <2>2, <2>7, <3>1
  <2>9. ASSUME NEW p \in Known' PROVE Tells(p) /\ Behind(p, server')
    BY <2>1, <2>2, <2>5, <2>7, <2>8
  <2>10. ASSUME NEW x \in Known', NEW y \in Known', x.seq < y.seq PROVE Continues(x, y)
    <3>1. q.seq \in Nat /\ \A p \in Known : p.seq \in Nat
      BY <2>3, <2>8 DEF Snapshots
    <3>2. CASE x \in Known /\ y \in Known
      BY <2>7, <2>10, <3>2
    <3>3. CASE x \in Known /\ y = q
      BY <2>8, <3>3
    <3>4. CASE x = q
      <4>1. y \in Known \/ y = q
        BY <2>5
      <4>2. ~(q.seq < y.seq)
        BY <2>8, <3>1, <4>1
      <4> QED
        BY <2>10, <3>4, <4>2
    <3> QED
      BY <2>5, <3>2, <3>3, <3>4
  <2>11. ASSUME NEW c \in Sessions PROVE FeedRight(client'[c])
    <3>1. CASE c \in Remote
      BY <2>4, <2>7, <3>1
    <3>2. CASE c \notin Remote
      <4>1. client[c].seen \in Known
        BY DEF Known
      <4>2. Continues(client[c].seen, q) /\ client[c].seen.seq < q.seq
        BY <2>8, <4>1
      <4>3. FeedRight(Applied(client[c], q))
        BY <2>2, <2>3, <2>4, <2>7, <4>2, AppliedRight
      <4> QED
        BY <2>4, <3>2, <4>3
    <3> QED
      BY <3>1, <3>2
  <2> QED
    BY <2>9, <2>10, <2>11
<1> QED
  BY <1>2, <1>3

LEMMA ReceiveKnown ==
  ASSUME Typing, NEW c \in Remote, NEW snapshot \in sent[c], Receive(c, snapshot)
  PROVE  Known' \in SUBSET Known
<1>1. /\ snapshot.seq > client[c].seen.seq /\ client' = [client EXCEPT ![c] = Applied(client[c], snapshot)]
      /\ server' = server /\ sent' = sent /\ repeats' = repeats
  BY DEF Receive
<1>2. c \in Sessions /\ snapshot \in Snapshots /\ snapshot \in Known
  BY ActorsAre DEF Typing, Known
<1>3. client[c] \in Views /\ client[c].seen \in Snapshots /\ client[c].seen \in Known
  BY <1>2 DEF Typing, Views, Known
<1>4. Applied(client[c], snapshot).seen = snapshot
  BY <1>2, <1>3, AppliedRight
<1>5. /\ client'[c] = Applied(client[c], snapshot)
      /\ \A d \in Sessions \ {c} : client'[d] = client[d]
  BY <1>1, <1>2 DEF Typing
<1> QED
  <2>1. ASSUME NEW d \in Sessions PROVE client'[d].seen \in Known
    <3>1. CASE d = c
      BY <1>2, <1>4, <1>5, <3>1
    <3>2. CASE d # c
      <4>1. client'[d] = client[d]
        BY <1>5, <3>2
      <4> QED
        BY <4>1 DEF Known
    <3> QED
      BY <3>1, <3>2
  <2>2. ASSUME NEW d \in Remote PROVE sent'[d] \in SUBSET Known
    BY <1>1 DEF Known
  <2>3. Known' = {client'[d].seen : d \in Sessions} \cup UNION {sent'[d] : d \in Remote}
    BY DEF Known
  <2> HIDE DEF Known
  <2> QED
    BY <2>1, <2>2, <2>3

LEMMA ReceiveFeed ==
  ASSUME Typing, FeedInv, NEW c \in Remote, NEW snapshot \in sent[c], Receive(c, snapshot)
  PROVE  FeedInv'
<1>1. /\ snapshot.seq > client[c].seen.seq /\ client' = [client EXCEPT ![c] = Applied(client[c], snapshot)]
      /\ server' = server /\ sent' = sent /\ repeats' = repeats
  BY DEF Receive
<1>2. c \in Sessions /\ snapshot \in Snapshots /\ snapshot \in Known
  BY ActorsAre DEF Typing, Known
<1>3. client[c] \in Views /\ client[c].seen \in Snapshots /\ client[c].seen \in Known
  BY <1>2 DEF Typing, Views, Known
<1>4. Applied(client[c], snapshot).seen = snapshot
  BY <1>2, <1>3, AppliedRight
<1>5. /\ client'[c] = Applied(client[c], snapshot)
      /\ \A d \in Sessions \ {c} : client'[d] = client[d]
  BY <1>1, <1>2 DEF Typing
<1>6. Known' \in SUBSET Known
  BY ReceiveKnown
<1>7. SUFFICES ASSUME repeats = 0
      PROVE  /\ \A p \in Known' : Tells(p) /\ Behind(p, server')
             /\ \A x, y \in Known' : x.seq < y.seq => Continues(x, y)
             /\ \A d \in Sessions : FeedRight(client'[d])
  BY <1>1 DEF FeedInv
<1>8. /\ \A p \in Known : Tells(p) /\ Behind(p, server)
      /\ \A x, y \in Known : x.seq < y.seq => Continues(x, y)
      /\ \A d \in Sessions : FeedRight(client[d])
  BY <1>7 DEF FeedInv
<1>9. client[c].seen.seq < snapshot.seq
  BY <1>1, <1>2, <1>3 DEF Snapshots
<1>10. FeedRight(client'[c])
  BY <1>2, <1>3, <1>5, <1>8, <1>9, AppliedRight
<1>11. \A d \in Sessions : FeedRight(client'[d])
  BY <1>5, <1>8, <1>10
<1>12. \A p \in Known' : Tells(p) /\ Behind(p, server')
  BY <1>1, <1>6, <1>8
<1>13. \A x, y \in Known' : x.seq < y.seq => Continues(x, y)
  BY <1>6, <1>8
<1> QED
  BY <1>11, <1>12, <1>13

CombatInv == Typing /\ FeedInv

LEMMA NextFeed ==
  ASSUME CombatInv, [Next]_vars
  PROVE  FeedInv'
<1>1. Typing /\ FeedInv
  BY DEF CombatInv
<1>2. ASSUME NEW order, \A c \in Sessions : order[c] \in Allowed(c, TimeOfTick(tick + 1)),
             NEW botOrder \in [Bots -> BotOrders], NEW publish \in BOOLEAN, Tick(order, botOrder, publish)
      PROVE  FeedInv'
  <2>1. PICK stepped : TickLeads(stepped, publish)
    BY <1>1, <1>2, TickIs
  <2> QED
    BY <1>1, <2>1, TickFeed
<1>3. ASSUME NEW c \in Remote, RefreshHello(c) PROVE FeedInv'
  <2>1. repeats' # 0
    BY <1>1, <1>3 DEF RefreshHello, Typing
  <2> QED
    BY <2>1 DEF FeedInv
<1>4. ASSUME NEW c \in Remote, NEW snapshot \in sent[c], Receive(c, snapshot) PROVE FeedInv'
  BY <1>1, <1>4, ReceiveFeed
<1>5. CASE ToggleBots \/ ToggleBotPeace
  <2>1. Untouched
    BY <1>1, <1>5, ToggledUntouched
  <2>2. /\ repeats' = repeats /\ client' = client /\ sent' = sent /\ server'.seq = server.seq
        /\ ToldSoFar(server') = ToldSoFar(server)
    BY <2>1 DEF Untouched, ToldSoFar
  <2> QED
    BY <1>1, <2>2, FeedStays
<1>6. CASE UNCHANGED vars
  <2>1. /\ repeats' = repeats /\ client' = client /\ sent' = sent /\ server' = server
    BY <1>6 DEF vars
  <2> QED
    BY <1>1, <2>1, FeedStays
<1> QED
  BY <1>2, <1>3, <1>4, <1>5, <1>6, NextCases, Zenon

\* Whatever is ordered, lost or repeated: the world is well formed with its scores in
\* balance, and snapshots and feeds tell each kill once (stepWorld, publishSnapshots,
\* applySnapshot).
THEOREM CombatInvariant == Spec => []CombatInv
<1>1. Init => CombatInv
  BY InitTyping, InitFeed DEF CombatInv
<1>2. CombatInv /\ [Next]_vars => CombatInv'
  BY NextTyping, NextFeed DEF CombatInv
<1> QED
  BY <1>1, <1>2, PTL DEF Spec

\* Kills, deaths, respawns and health tell the same story: a death is one kill, however
\* many shots hit the body in that tick (recordKill, advanceSessionRespawns).
THEOREM ScoresAddUp == Spec => []KillsAddUp
<1>1. CombatInv => KillsAddUp
  BY Zenon DEF CombatInv, Typing, Calm, Tally, KillsAddUp
<1> QED
  BY <1>1, CombatInvariant, PTL

\* A client's kill feed never tells a kill twice or out of order, and agrees with the
\* scores shown with it unless a snapshot was missed or a Hello came twice
\* (publishSnapshots, consumeCombatEvents).
THEOREM FeedsMatchScores == Spec => []FeedMatchesScores
<1>1. CombatInv => FeedMatchesScores
  BY Zenon DEF CombatInv, FeedInv, FeedRight, FeedMatchesScores
<1> QED
  BY <1>1, CombatInvariant, PTL

-----------------------------------------------------------------------------
(***************************************************************************)
(* History. While the cap holds the rewind window, the samples kept are    *)
(* those of the last server times without a gap, each of the first tick at *)
(* its time, and a picture of such a tick shows what the sample says.      *)
(***************************************************************************)
Samples == [time : Nat, pos : Cells, alive : BOOLEAN]

Confirmed(h, time) ==
  /\ h \in Seq(Samples) /\ Len(h) > 0
  /\ \A i \in 1 .. Len(h) : h[i].time = time - Len(h) + i
  /\ h[1].time = 0 \/ h[1].time <= time - MaxRewind

Recalls(h, a, p) ==
  \A i \in 1 .. Len(h) : h[i].time = p.time => (h[i].alive = p.alive[a] /\ h[i].pos = p.pos[a])

\* The pictures there are: of the snapshots shown or under way, and of the views of clients.
Images ==
  {Picture(p) : p \in Known}
    \cup UNION {ImagesOf(client[c].before) \cup ImagesOf(client[c].view) : c \in Sessions}

\* A picture of the tick its server time was recorded at shows what the history says.
Agrees(q, s) == q.fresh => \A a \in Actors : Recalls(s.hist[a], a, q)

HistInv ==
  /\ \A a \in Actors : Confirmed(server.hist[a], now)
  /\ Fresh(tick) => \A a \in Actors : Last(server.hist[a]) = Sample(server, a, now)
  /\ \A q \in Images : q.time <= now /\ Agrees(q, server)
  /\ AllMet(server, now)

LEMMA PrunedIs ==
  ASSUME NEW h \in Seq(Samples), Len(h) > 0, NEW time \in Nat
  PROVE  \E k \in 1 .. Len(h) :
           /\ Pruned(h, time) = SubSeq(h, k, Len(h))
           /\ k = 1 \/ h[k].time <= time - MaxRewind \/ Len(h) - k + 1 = MaxSamples
<1> DEFINE n == Len(h)
           old == {i \in 2 .. n : time > MaxRewind /\ h[i].time <= time - MaxRewind}
           first == Max(old \cup {1})
           kept == SubSeq(h, first, n)
           m == Len(kept)
           second == Max({1, m - MaxSamples + 1})
<1>1. Pruned(h, time) = SubSeq(kept, second, m)
  BY DEF Pruned
<1>2. n \in Nat /\ n >= 1 /\ \A i \in 1 .. n : h[i] \in Samples
  BY LenProperties, ElementOfSeq
<1>3. MaxSamples \in Nat \ {0} /\ MaxRewind \in Nat
  BY ConstantsAssumption
<1>4. first \in old \cup {1}
  <2>1. old \cup {1} \in SUBSET (0 .. n) /\ old \cup {1} # {}
    BY <1>2
  <2> HIDE DEF old
  <2> QED
    BY <1>2, <2>1, GreatestOf
<1>5. first \in 1 .. n /\ (first = 1 \/ h[first].time <= time - MaxRewind)
  BY <1>2, <1>4
<1> HIDE DEF n, first
<1>6. /\ kept \in Seq(Samples) /\ m = n - first + 1 /\ m \in Nat \ {0}
  <2>1. first \in Int /\ n \in Int /\ \A i \in first .. n : h[i] \in Samples
    BY <1>2, <1>5
  <2>2. kept \in Seq(Samples) /\ m = IF first <= n THEN n - first + 1 ELSE 0
    BY <2>1, SubSeqProperties
  <2> QED
    BY <1>2, <1>5, <2>2
<1>7. CASE m - MaxSamples + 1 <= 1
  <2>1. second = 1
    <3> DEFINE c == m - MaxSamples + 1
    <3>1. c \in Int /\ c <= 1
      BY <1>3, <1>6, <1>7
    <3> HIDE DEF c, m
    <3>2. 1 \in {1, c} /\ \A y \in {1, c} : 1 >= y
      BY <3>1
    <3>3. second \in {1, c} /\ \A y \in {1, c} : second >= y
      BY <3>2, Zenon DEF Max, c
    <3> QED
      BY <3>1, <3>3
  <2>2. SubSeq(kept, 1, m) = kept
    BY <1>6, SubSeqFull
  <2>3. Pruned(h, time) = kept
    BY <1>1, <2>1, <2>2, Zenon
  <2> QED
    BY <1>5, <2>3 DEF n
<1>8. CASE ~(m - MaxSamples + 1 <= 1)
  <2> DEFINE c == m - MaxSamples + 1
  <2>1. c \in 2 .. m
    BY <1>3, <1>6, <1>8
  <2>2. second = c
    <3> HIDE DEF c, m
    <3>1. c \in {1, c} /\ \A y \in {1, c} : c >= y
      BY <2>1
    <3>2. second \in {1, c} /\ \A y \in {1, c} : second >= y
      BY <3>1, Zenon DEF Max, c
    <3> QED
      BY <2>1, <3>2
  <2> HIDE DEF second
  <2> DEFINE k == first + c - 1
  <2>3. first \in 1 .. n /\ n \in 1 .. n /\ c \in 1 .. n - first + 1 /\ m \in 1 .. n - first + 1
    <3> HIDE DEF c, m
    <3> QED
      BY <1>2, <1>5, <1>6, <2>1
  <2>4. SubSeq(kept, c, m) = SubSeq(h, first + c - 1, first + m - 1)
    <3> HIDE DEF c, m
    <3> QED
      BY <2>3, SubSeqOfSubSeq DEF n
  <2>5. first + m - 1 = n /\ k \in 1 .. n /\ n - k + 1 = MaxSamples
    <3>1. m \in Nat /\ m = n - first + 1 /\ c = m - MaxSamples + 1
      BY <1>6
    <3> HIDE DEF c, m
    <3> QED
      BY <1>2, <1>3, <1>5, <2>1, <3>1
  <2>6. Pruned(h, time) = SubSeq(h, k, n)
    <3>1. Pruned(h, time) = SubSeq(kept, c, m)
      BY <1>1, <2>2
    <3> HIDE DEF c, m, kept
    <3> QED
      BY <2>4, <2>5, <3>1
  <2> HIDE DEF k
  <2> QED
    BY <2>5, <2>6 DEF n
<1> QED
  BY <1>7, <1>8

\* One sample more: the newest stays last, and none between it and the oldest is missing.
LEMMA RecordedConfirmed ==
  ASSUME MaxRewind < MaxSamples, NEW time \in Nat, NEW h, Confirmed(h, time),
         NEW sample \in Samples, sample.time = time + 1
  PROVE  /\ Confirmed(Recorded(h, sample), time + 1) /\ Last(Recorded(h, sample)) = sample
         /\ \A a \in Actors, p \in Pictures :
              /\ p.time <= time /\ Recalls(h, a, p) => Recalls(Recorded(h, sample), a, p)
              /\ p.time = time + 1 /\ sample.alive = p.alive[a] /\ sample.pos = p.pos[a]
                   => Recalls(Recorded(h, sample), a, p)
<1> DEFINE n == Len(h)
           g == Append(h, sample)
           r == Recorded(h, sample)
           N == Len(g)
           m == Len(r)
<1>1. /\ h \in Seq(Samples) /\ n > 0 /\ n \in Nat
      /\ \A i \in 1 .. n : h[i].time = time - n + i
      /\ h[1].time = 0 \/ h[1].time <= time - MaxRewind
  BY LenProperties DEF Confirmed
<1>2. MaxRewind \in Nat /\ MaxSamples \in Nat /\ MaxRewind < MaxSamples
  BY ConstantsAssumption
<1>3. /\ g \in Seq(Samples) /\ N = n + 1
      /\ \A i \in 1 .. n : g[i] = h[i]
      /\ g[N] = sample
  BY <1>1, AppendProperties
<1>4. r = Pruned(g, time + 1)
  <2>1. Last(h).time = time
    <3>1. n \in 1 .. n
      BY <1>1
    <3>2. h[n].time = time - n + n
      BY <1>1, <3>1
    <3> QED
      BY <1>1, <3>2 DEF Last
  <2>2. ~(sample.time <= Last(h).time)
    BY <2>1
  <2> QED
    BY <2>2, Zenon DEF Recorded
<1> HIDE DEF n, g, r, N, m
<1> DEFINE next == time + 1
<1>5. N > 0 /\ N \in Nat /\ next \in Nat
  BY <1>1, <1>3
<1> HIDE DEF next
<1>6. PICK k \in 1 .. N :
        /\ Pruned(g, next) = SubSeq(g, k, N)
        /\ k = 1 \/ g[k].time <= next - MaxRewind \/ N - k + 1 = MaxSamples
  BY <1>3, <1>5, PrunedIs DEF N
<1>7. r = SubSeq(g, k, N)
  BY <1>4, <1>6 DEF next
<1>8. ASSUME NEW i \in 1 .. N PROVE g[i].time = time - n + i /\ g[i] \in Samples
  <2>1. g[i] \in Samples
    BY <1>3, ElementOfSeq DEF N
  <2>2. CASE i = N
    <3>1. g[i].time = time + 1
      BY <1>3, <2>2
    <3> QED
      BY <1>1, <1>3, <2>1, <2>2, <3>1
  <2>3. CASE i # N
    <3>1. i \in 1 .. n
      BY <1>1, <1>3, <2>3
    <3> QED
      BY <1>1, <1>3, <2>1, <3>1
  <2> QED
    BY <2>2, <2>3
<1>9. /\ r \in Seq(Samples) /\ m = N - k + 1
      /\ \A i \in 1 .. N - k + 1 : r[i] = g[k + i - 1]
  <2>1. k \in Int /\ N \in Int /\ k <= N
    BY <1>5, <1>6
  <2>2. \A i \in k .. N : g[i] \in Samples
    BY <1>5, <1>6, <1>8
  <2>3. /\ SubSeq(g, k, N) \in Seq(Samples)
        /\ Len(SubSeq(g, k, N)) = IF k <= N THEN N - k + 1 ELSE 0
        /\ \A i \in 1 .. N - k + 1 : SubSeq(g, k, N)[i] = g[k + i - 1]
    BY <2>1, <2>2, SubSeqProperties
  <2> QED
    BY <1>7, <2>1, <2>3 DEF m
<1>10. m \in Nat /\ m > 0 /\ k = N + 1 - m
  BY <1>5, <1>6, <1>9
<1>11. ASSUME NEW i \in 1 .. m
       PROVE  /\ k + i - 1 \in 1 .. N /\ r[i] = g[k + i - 1]
              /\ r[i].time = time + 1 - m + i
  <2>1. k + i - 1 \in 1 .. N /\ i \in 1 .. N - k + 1
    <3> QED
      BY <1>5, <1>1, <1>6, <1>10
  <2>2. r[i] = g[k + i - 1]
    BY <1>9, <2>1
  <2>3. r[i].time = time - n + (k + i - 1)
    BY <1>8, <2>1, <2>2
  <2>4. time - n + (k + i - 1) = time + 1 - m + i
    <3>1. n = N - 1 /\ k = N + 1 - m /\ i \in Int /\ m \in Int /\ N \in Int
      BY <1>1, <1>3, <1>5, <1>10
    <3> QED
      BY <3>1
  <2> QED
    BY <2>1, <2>2, <2>3, <2>4
<1>12. r[m] = sample
  <2>1. m \in 1 .. m /\ k + m - 1 = N
    <3> QED
      BY <1>5, <1>1, <1>10
  <2> QED
    BY <1>3, <1>11, <2>1
<1>13. r[1].time = 0 \/ r[1].time <= (time + 1) - MaxRewind
  <2>1. 1 \in 1 .. m
    <3> QED
      BY <1>5, <1>10
  <2>2. r[1] = g[k] /\ r[1].time = time + 1 - m + 1
    <3>1. k + 1 - 1 = k
      BY <1>6
    <3> QED
      BY <1>11, <2>1, <3>1
  <2>3. CASE k = 1
    <3>1. r[1] = h[1] /\ h[1] \in Samples
      <4>1. 1 \in 1 .. n
        BY <1>1
      <4>2. g[1] = h[1]
        BY <1>3, <4>1
      <4> QED
        BY <1>1, <2>2, <2>3, <4>1, <4>2, ElementOfSeq DEF n
    <3>2. h[1].time \in Nat
      BY <3>1 DEF Samples
    <3> QED
      BY <1>1, <1>2, <3>1, <3>2
  <2>4. CASE g[k].time <= next - MaxRewind
    <3>1. g[k].time \in Nat
      BY <1>6, <1>8 DEF Samples
    <3> QED
      BY <1>2, <2>2, <2>4, <3>1 DEF next
  <2>5. CASE N - k + 1 = MaxSamples
    <3>1. m = MaxSamples
      BY <1>3, <1>9, <2>5
    <3>2. time + 1 - m + 1 <= (time + 1) - MaxRewind
      BY <1>2, <3>1
    <3> QED
      BY <2>2, <3>2
  <2> QED
    BY <1>6, <2>3, <2>4, <2>5
<1>14. Confirmed(r, time + 1) /\ Last(r) = sample
  <2>1. Last(r) = sample
    BY <1>12, Zenon DEF Last, m
  <2>2. \A i \in 1 .. Len(r) : r[i].time = (time + 1) - Len(r) + i
    BY <1>11 DEF m
  <2>3. r \in Seq(Samples) /\ Len(r) > 0
    BY <1>9, <1>10 DEF m
  <2> QED
    BY <1>13, <2>1, <2>2, <2>3, Zenon DEF Confirmed
<1>15. ASSUME NEW a \in Actors, NEW p \in Pictures, p.time <= time, Recalls(h, a, p)
       PROVE  Recalls(r, a, p)
  <2> SUFFICES ASSUME NEW i \in 1 .. m, r[i].time = p.time
               PROVE  r[i].alive = p.alive[a] /\ r[i].pos = p.pos[a]
    BY DEF Recalls, m
  <2>1. r[i] = g[k + i - 1] /\ k + i - 1 \in 1 .. N
    BY <1>11
  <2>2. k + i - 1 # N
    <3>1. p.time \in Nat
      BY DEF Pictures
    <3>2. ASSUME k + i - 1 = N PROVE FALSE
      <4>1. r[i] = sample
        BY <1>3, <2>1, <3>2
      <4>2. p.time = time + 1
        BY <4>1
      <4> QED
        BY <1>15, <3>1, <4>2
    <3> QED
      BY <3>2
  <2>3. k + i - 1 \in 1 .. n
    BY <1>3, <1>1, <2>1, <2>2
  <2>4. r[i] = h[k + i - 1]
    BY <1>3, <2>1, <2>3
  <2>5. k + i - 1 \in 1 .. Len(h)
    BY <2>3 DEF n
  <2> QED
    BY <1>15, <2>4, <2>5 DEF Recalls
<1>16. ASSUME NEW a \in Actors, NEW p \in Pictures, p.time = time + 1,
              sample.alive = p.alive[a], sample.pos = p.pos[a]
       PROVE  Recalls(r, a, p)
  <2> SUFFICES ASSUME NEW i \in 1 .. m, r[i].time = p.time
               PROVE  r[i].alive = p.alive[a] /\ r[i].pos = p.pos[a]
    BY DEF Recalls, m
  <2>1. r[i].time = time + 1 - m + i
    BY <1>11
  <2>2. i = m
    <3> QED
      BY <1>5, <1>10, <1>16, <2>1
  <2> QED
    BY <1>12, <1>16, <2>2
<1> QED
  BY <1>14, <1>15, <1>16 DEF r

\* A time the history holds is rewound to the sample of that time.
LEMMA RewoundIs ==
  ASSUME NEW time \in Nat, NEW h, Confirmed(h, time),
         NEW viewed \in Nat, viewed <= time, viewed >= h[1].time
  PROVE  \E k \in 1 .. Len(h) :
           /\ h[k].time = viewed
           /\ Rewound(h, viewed).alive = h[k].alive /\ Rewound(h, viewed).pos = h[k].pos
<1> DEFINE n == Len(h)
           k == viewed - time + n
<1>1. /\ n \in Nat /\ n > 0
      /\ \A i \in 1 .. n : h[i].time = time - n + i
  BY LenProperties DEF Confirmed
<1> HIDE DEF n
<1>2. 1 \in 1 .. n /\ n \in 1 .. n
  BY <1>1
<1>3. h[1].time = time - n + 1 /\ h[n].time = time - n + n
  BY <1>1, <1>2
<1>4. k \in 1 .. n
  BY <1>1, <1>3
<1>5. h[k].time = viewed
  <2>1. h[k].time = time - n + k
    BY <1>1, <1>4
  <2> QED
    BY <1>1, <2>1
<1>6. h[n].time = time
  BY <1>1, <1>3
<1>7. Last(h) = h[n]
  BY DEF Last, n
<1>8. CASE viewed <= h[1].time
  <2>1. k = 1
    BY <1>1, <1>3, <1>8
  <2>2. Rewound(h, viewed) = h[1]
    BY <1>8, Zenon DEF Rewound
  <2> HIDE DEF k
  <2> QED
    BY <1>4, <1>5, <2>1, <2>2 DEF n
<1>9. CASE ~(viewed <= h[1].time) /\ viewed >= Last(h).time
  <2>1. k = n
    BY <1>1, <1>6, <1>7, <1>9
  <2>2. Rewound(h, viewed) = h[n]
    BY <1>7, <1>9, Zenon DEF Rewound
  <2> HIDE DEF k
  <2> QED
    BY <1>4, <1>5, <2>1, <2>2 DEF n
<1>10. CASE ~(viewed <= h[1].time) /\ ~(viewed >= Last(h).time)
  <2> DEFINE later == {j \in 2 .. n : h[j].time >= viewed}
  <2>1. k \in 2 .. n
    BY <1>1, <1>3, <1>4, <1>10
  <2>2. \A j \in 2 .. n : h[j].time >= viewed <=> j >= k
    <3> TAKE j \in 2 .. n
    <3>1. j \in 1 .. n
      BY <1>1
    <3>2. h[j].time = time - n + j
      BY <1>1, <3>1
    <3> QED
      BY <1>1, <3>2
  <2>3. Rewound(h, viewed) = Interpolated(h[Min(later) - 1], h[Min(later)], viewed)
    BY <1>10 DEF Rewound, n
  <2> HIDE DEF k
  <2>4. k \in later /\ \A j \in later : j >= k
    <3>1. k >= k
      BY <2>1
    <3> QED
      BY <2>1, <2>2, <3>1
  <2>5. later \in SUBSET Nat /\ later # {}
    BY <2>4
  <2> HIDE DEF later
  <2>6. Min(later) \in later /\ \A j \in later : Min(later) <= j
    BY <2>5, LeastOf
  <2>7. Min(later) = k
    <3>1. Min(later) <= k /\ Min(later) >= k /\ Min(later) \in Nat /\ k \in Nat
      BY <2>4, <2>5, <2>6
    <3> QED
      BY <3>1
  <2>8. Rewound(h, viewed) = Interpolated(h[k - 1], h[k], viewed)
    BY <2>3, <2>7
  <2>9. Interpolated(h[k - 1], h[k], viewed).alive = h[k].alive /\ Interpolated(h[k - 1], h[k], viewed).pos = h[k].pos
    BY <1>5 DEF Interpolated
  <2> QED
    BY <1>4, <1>5, <2>8, <2>9 DEF n
<1> QED
  BY <1>8, <1>9, <1>10

LEMMA WindowKept ==
  ASSUME NEW current \in Nat, NEW time \in Nat, time <= current, time >= Max({0, current - MaxRewind})
  PROVE  time >= current - MaxRewind /\ ClampRewindTime(time, current) = time
<1> DEFINE floor == current - MaxRewind
<1>1. floor \in Int
  BY ConstantsAssumption
<1>2. time >= floor
  <2> HIDE DEF floor
  <2>1. \E x \in {0, floor} : \A y \in {0, floor} : x >= y
    <3>1. CASE floor <= 0
      BY <1>1, <3>1
    <3>2. CASE floor > 0
      BY <1>1, <3>2
    <3> QED
      BY <1>1, <3>1, <3>2
  <2>2. Max({0, floor}) \in {0, floor} /\ \A y \in {0, floor} : Max({0, floor}) >= y
    BY <2>1, Zenon DEF Max
  <2>3. Max({0, floor}) >= floor /\ time >= Max({0, floor}) /\ Max({0, floor}) \in Int
    BY <1>1, <2>2 DEF floor
  <2> QED
    BY <1>1, <2>3
<1>3. Least(time, current) = time
  BY DEF Least
<1>4. ClampRewindTime(time, current) = Max({time, floor})
  BY <1>3 DEF ClampRewindTime
<1> HIDE DEF floor
<1>5. time \in {time, floor} /\ \A y \in {time, floor} : time >= y
  BY <1>1, <1>2
<1>6. Max({time, floor}) \in {time, floor} /\ \A y \in {time, floor} : Max({time, floor}) >= y
  BY <1>5, Zenon DEF Max
<1>7. Max({time, floor}) = time
  BY <1>1, <1>2, <1>6
<1> QED
  BY <1>2, <1>4, <1>7 DEF floor

\* What is drawn of a tick that was recorded is a picture of the view.
LEMMA SampledIs ==
  ASSUME NEW v \in Sights, NEW time \in Int, Sampled(v.buffer, time).fresh
  PROVE  Sampled(v.buffer, time) \in ImagesOf(v)
<1> DEFINE b == v.buffer
           n == Len(b)
           later == {j \in 2 .. n : b[j].time >= time}
           i == Min(later)
<1>1. b \in Seq(Pictures) /\ n \in Nat \ {0}
  BY LenProperties DEF Sights
<1>2. \A k \in 1 .. n : b[k] \in Pictures /\ b[k] \in ImagesOf(v)
  BY <1>1, ElementOfSeq DEF ImagesOf
<1>3. Last(b) = b[n] /\ Head(b) = b[1]
  BY DEF Last
<1>4. 1 \in 1 .. n /\ n \in 1 .. n
  BY <1>1
<1>5. Sampled(b, time) = IF time <= Head(b).time \/ time >= Last(b).time THEN Last(b)
                         ELSE Blended(b[i - 1], b[i], time)
  BY DEF Sampled
<1>6. CASE time <= Head(b).time \/ time >= Last(b).time
  BY <1>2, <1>3, <1>4, <1>5, <1>6
<1>7. CASE ~(time <= Head(b).time \/ time >= Last(b).time)
  <2>1. n \in later
    <3>1. b[1].time \in Nat /\ b[n].time \in Nat
      BY <1>2, <1>4 DEF Pictures
    <3>2. ~(time <= b[1].time) /\ ~(time >= b[n].time)
      BY <1>3, <1>7
    <3>3. n # 1
      BY <3>1, <3>2
    <3> HIDE DEF n, b
    <3> QED
      BY <1>1, <3>1, <3>2, <3>3
  <2>2. i \in later
    <3>1. later \in SUBSET Nat /\ later # {}
      BY <2>1
    <3> HIDE DEF later
    <3> QED
      BY <3>1, LeastOf
  <2>3. i \in 1 .. n
    BY <1>1, <2>2
  <2>4. Blended(b[i - 1], b[i], time).fresh => Blended(b[i - 1], b[i], time) = b[i]
    <3> DEFINE from == b[i - 1]
               to == b[i]
    <3> HIDE DEF from, to
    <3>1. Blended(from, to, time).fresh => Blended(from, to, time) = to
      BY DEF Blended
    <3> QED
      BY <3>1 DEF from, to
  <2> HIDE DEF b, n, i
  <2> QED
    BY <1>2, <1>5, <1>7, <2>3, <2>4 DEF b
<1> QED
  BY <1>6, <1>7

LEMMA ScreenIs ==
  ASSUME Typing, NEW c \in Sessions, NEW current \in Nat, NEW screen \in Screens(c, current)
  PROVE  /\ screen.delay \in Nat
         /\ screen.picture.fresh => screen.picture \in Images
<1> DEFINE plain(v) == {[picture |-> v.newest, delay |-> 0]}
           delayed(v) == {[picture |-> Sampled(v.buffer, Max({0, v.newest.time + elapsed - Delay})),
                           delay |-> Delay] : elapsed \in 0 .. current - v.newest.time}
           views == {client[c].before, client[c].view}
<1>1. \E v \in views : screen \in plain(v) \/ screen \in delayed(v)
  <2>1. screen \in UNION {plain(v) \cup delayed(v) : v \in views}
    BY Zenon DEF Screens
  <2> HIDE DEF plain, delayed, views
  <2> QED
    BY <2>1
<1>2. PICK v \in views : screen \in plain(v) \/ screen \in delayed(v)
  BY <1>1
<1>3. v \in Sights /\ v.newest \in Pictures
  BY DEF Typing, Views, Sights
<1>4. ImagesOf(v) \subseteq Images
  BY DEF Images
<1>5. screen.delay \in Nat
  <2>1. CASE screen \in plain(v)
    <3>1. screen = [picture |-> v.newest, delay |-> 0]
      BY <2>1
    <3> QED
      BY <3>1
  <2>2. CASE screen \in delayed(v)
    <3>1. PICK elapsed \in 0 .. current - v.newest.time :
            screen = [picture |-> Sampled(v.buffer, Max({0, v.newest.time + elapsed - Delay})),
                      delay |-> Delay]
      BY <2>2
    <3>2. screen.delay = Delay
      BY <3>1
    <3> QED
      BY <3>2, ConstantsAssumption
  <2> QED
    BY <1>2, <2>1, <2>2
<1>6. ASSUME screen.picture.fresh PROVE screen.picture \in ImagesOf(v)
  <2>1. CASE screen \in plain(v)
    BY <2>1 DEF ImagesOf
  <2>2. CASE screen \in delayed(v)
    <3>0. PICK elapsed \in 0 .. current - v.newest.time :
            screen = [picture |-> Sampled(v.buffer, Max({0, v.newest.time + elapsed - Delay})),
                      delay |-> Delay]
      BY <2>2
    <3>1. screen.picture = Sampled(v.buffer, Max({0, v.newest.time + elapsed - Delay}))
      BY <3>0
    <3> DEFINE time == v.newest.time + elapsed - Delay
    <3>2. time \in Int
      BY <1>3, ConstantsAssumption DEF Pictures
    <3> HIDE DEF time
    <3>3. \E x \in {0, time} : \A y \in {0, time} : x >= y
      <4>1. CASE time <= 0
        BY <3>2, <4>1
      <4>2. CASE time > 0
        BY <3>2, <4>2
      <4> QED
        BY <3>2, <4>1, <4>2
    <3>4. Max({0, time}) \in {0, time}
      BY <3>3, Zenon DEF Max
    <3>5. Max({0, time}) \in Int
      BY <3>2, <3>4
    <3>6. screen.picture = Sampled(v.buffer, Max({0, time}))
      BY <3>1 DEF time
    <3> QED
      BY <1>3, <1>6, <3>5, <3>6, SampledIs
  <2> QED
    BY <1>2, <2>1, <2>2
<1> QED
  BY <1>4, <1>5, <1>6

LEMMA ImagesTyped ==
  ASSUME Typing
  PROVE  Images \in SUBSET Pictures
<1>1. ASSUME NEW v \in Sights PROVE ImagesOf(v) \in SUBSET Pictures
  BY ElementOfSeq DEF Sights, ImagesOf
<1>2. \A c \in Sessions : client[c].before \in Sights /\ client[c].view \in Sights
  BY DEF Typing, Views
<1>3. \A p \in Known : Picture(p) \in Pictures
  BY KnownSnapshots, PictureIs
<1> HIDE DEF Known
<1> QED
  BY <1>1, <1>2, <1>3 DEF Images

LEMMA HistorySeesRight ==
  ASSUME Typing, HistInv, NEW current \in Nat, current >= now
  PROVE  SeesRight(server, current)
<1> SUFFICES ASSUME NEW c \in Sessions, NEW screen \in Screens(c, current), NEW a \in Actors,
                    screen.picture.alive[a], Aged(ShotAt(c, screen, a), current)
             PROVE  LET shot == ShotAt(c, screen, a)
                        then == Rewound(server.hist[a], ClampRewindTime(RewindTime(shot), current))
                    IN  then.alive /\ then.pos = shot.cell
  BY DEF SeesRight
<1> DEFINE q == screen.picture
           h == server.hist[a]
           shot == ShotAt(c, screen, a)
           time == shot.drawn
           floor == Max({0, current - MaxRewind})
<1>1. /\ shot.cell = q.pos[a] /\ time = IF q.fresh THEN q.time ELSE NotDrawn
      /\ shot.viewed = client[c].seen.time /\ shot.delay = screen.delay
  BY DEF ShotAt
<1>2. time >= floor /\ time = shot.viewed - shot.delay
  BY DEF Aged
<1>3. shot.viewed \in Nat /\ shot.delay \in Nat /\ now \in Nat /\ MaxRewind \in Nat
  BY <1>1, ScreenIs, ConstantsAssumption DEF Typing, Views, Snapshots
<1>4. floor \in Int /\ floor >= 0
  <2> DEFINE least == current - MaxRewind
  <2>1. least \in Int
    BY <1>3
  <2> HIDE DEF least
  <2>2. \E x \in {0, least} : \A y \in {0, least} : x >= y
    <3>1. CASE least <= 0
      BY <2>1, <3>1
    <3>2. CASE least > 0
      BY <2>1, <3>2
    <3> QED
      BY <2>1, <3>1, <3>2
  <2>3. floor \in {0, least} /\ \A y \in {0, least} : floor >= y
    BY <2>2, Zenon DEF Max, least
  <2> QED
    BY <2>1, <2>3
<1>5. q.fresh /\ time = q.time
  <2>1. time # NotDrawn
    <3>1. NotDrawn = 0 - 1
      BY DEF NotDrawn
    <3> HIDE DEF time, floor
    <3> QED
      BY <1>2, <1>4, <3>1
  <2> QED
    BY <1>1, <2>1
<1> HIDE DEF q, h, shot, time
<1>6. q \in Images /\ q \in Pictures
  BY <1>5, ScreenIs, ImagesTyped DEF q
<1>7. time \in Nat /\ time <= now /\ Recalls(h, a, q)
  <2>1. q.time \in Nat
    BY <1>6 DEF Pictures
  <2>2. q.time <= now /\ Agrees(q, server)
    BY <1>6 DEF HistInv
  <2> QED
    BY <1>5, <2>1, <2>2 DEF Agrees, h
<1>8. RewindTime(shot) = time
  <2>1. CASE shot.viewed <= shot.delay
    BY <1>2, <1>3, <1>7, <2>1 DEF RewindTime
  <2>2. CASE ~(shot.viewed <= shot.delay)
    BY <1>2, <2>2 DEF RewindTime
  <2> QED
    BY <2>1, <2>2
<1>9. time >= current - MaxRewind /\ ClampRewindTime(time, current) = time
  <2>1. time <= current
    BY <1>3, <1>7
  <2> QED
    BY <1>2, <1>7, <2>1, WindowKept
<1>10. Confirmed(h, now)
  BY DEF HistInv, h
<1>11. time >= h[1].time
  <2>1. h[1].time = 0 \/ h[1].time <= now - MaxRewind
    BY <1>10 DEF Confirmed
  <2>2. h[1].time \in Nat
    <3>1. h \in Seq(Samples) /\ 1 \in 1 .. Len(h)
      BY <1>10, LenProperties DEF Confirmed
    <3>2. h[1] \in Samples
      BY <3>1, ElementOfSeq
    <3> QED
      BY <3>2 DEF Samples
  <2> QED
    BY <1>3, <1>7, <1>9, <2>1, <2>2
<1>12. PICK k \in 1 .. Len(h) :
         /\ h[k].time = time
         /\ Rewound(h, time).alive = h[k].alive /\ Rewound(h, time).pos = h[k].pos
  BY <1>3, <1>7, <1>10, <1>11, RewoundIs
<1>13. h[k].alive = q.alive[a] /\ h[k].pos = q.pos[a]
  BY <1>5, <1>7, <1>12 DEF Recalls
<1>14. q.alive[a] = TRUE
  <2>1. (q.alive[a]) \in BOOLEAN
    BY <1>6 DEF Pictures
  <2> QED
    BY <2>1 DEF q
<1>15. Rewound(h, ClampRewindTime(RewindTime(shot), current)) = Rewound(h, time)
  BY <1>8, <1>9
<1>16. shot.cell = q.pos[a]
  BY <1>1
<1> QED
  BY <1>12, <1>13, <1>14, <1>15, <1>16 DEF h, shot

LEMMA SampleTyped ==
  ASSUME NEW s, Calm(s), NEW a \in Actors, NEW time \in Nat
  PROVE  /\ Sample(s, a, time) \in Samples /\ Sample(s, a, time).time = time
         /\ Sample(s, a, time).pos = s.pos[a] /\ Sample(s, a, time).alive = (s.hp[a] > 0)
<1>1. s.pos[a] \in Cells /\ (s.hp[a] > 0) \in BOOLEAN
  BY DEF Calm, Typed, Worlds
<1> QED
  BY <1>1 DEF Sample, Samples

LEMMA PictureShows ==
  ASSUME NEW s, Calm(s), NEW n, NEW time \in Nat, NEW fresh \in BOOLEAN
  PROVE  LET q == Picture(SnapshotOf(s, n, time, fresh)) IN
         /\ q.time = time /\ q.fresh = fresh /\ q \in Pictures
         /\ \A a \in Actors : q.pos[a] = s.pos[a] /\ q.alive[a] = (s.hp[a] > 0)
<1>1. s.pos \in [Actors -> Cells]
  BY DEF Calm, Typed, Worlds
<1> QED
  BY <1>1 DEF SnapshotOf, Picture, Pictures

\* What the last sample says of now, a picture of now agrees with.
LEMMA PresentAgrees ==
  ASSUME NEW s, Calm(s), NEW n, NEW time \in Nat, NEW fresh \in BOOLEAN,
         \A a \in Actors : Confirmed(s.hist[a], time),
         fresh => \A a \in Actors : Last(s.hist[a]) = Sample(s, a, time)
  PROVE  Agrees(Picture(SnapshotOf(s, n, time, fresh)), s)
<1> DEFINE q == Picture(SnapshotOf(s, n, time, fresh))
<1>1. /\ q.time = time /\ q.fresh = fresh
      /\ \A a \in Actors : q.pos[a] = s.pos[a] /\ q.alive[a] = (s.hp[a] > 0)
  BY PictureShows
<1> HIDE DEF q
<1> SUFFICES ASSUME fresh, NEW a \in Actors PROVE Recalls(s.hist[a], a, q)
  BY <1>1 DEF Agrees, q
<1> DEFINE h == s.hist[a]
           x == Sample(s, a, time)
           m == Len(h)
<1>2. /\ m \in Nat /\ m > 0 /\ \A i \in 1 .. m : h[i].time = time - m + i
      /\ h[m] = x
  <2>1. Confirmed(h, time) /\ Last(h) = x
    OBVIOUS
  <2> HIDE DEF h, x
  <2> QED
    BY <2>1, LenProperties DEF Confirmed, Last
<1>3. x.pos = s.pos[a] /\ x.alive = (s.hp[a] > 0)
  BY SampleTyped
<1> HIDE DEF h, x, m
<1>4. ASSUME NEW i \in 1 .. m, h[i].time = q.time PROVE h[i].alive = q.alive[a] /\ h[i].pos = q.pos[a]
  <2>1. i = m
    BY <1>1, <1>2, <1>4
  <2> QED
    BY <1>1, <1>2, <1>3, <2>1
<1> QED
  BY <1>4 DEF Recalls, h, m

\* A tick makes no picture but that of the snapshot it publishes.
LEMMA TickImages ==
  ASSUME Typing, NEW stepped, NEW publish \in BOOLEAN, TickLeads(stepped, publish), NEW x \in Images'
  PROVE  x \in Images \/ x = Picture(SnapshotOf(stepped, stepped.seq + 1, now', Fresh(tick + 1)))
<1> DEFINE q == SnapshotOf(stepped, stepped.seq + 1, now', Fresh(tick + 1))
<1>1. q \in Snapshots
  <2>1. Calm(stepped) /\ stepped.seq + 1 \in Nat /\ now' \in Nat
    BY DEF TickLeads, Calm, Typed, Worlds
  <2> QED
    BY <2>1, FreshIs, SnapshotIs
<1>2. ASSUME NEW p \in Known' PROVE Picture(p) \in Images \/ Picture(p) = Picture(q)
  <2>1. p \in Known \/ p = q
    BY TickKnown
  <2> QED
    BY <2>1 DEF Images
<1>3. ASSUME NEW c \in Sessions
      PROVE  ImagesOf(client'[c].before) \cup ImagesOf(client'[c].view) \subseteq Images \cup {Picture(q)}
  <2>1. ImagesOf(client[c].before) \cup ImagesOf(client[c].view) \subseteq Images
    BY DEF Images
  <2>2. client'[c] = client[c] \/ client'[c] = Applied(client[c], q)
    BY DEF TickLeads
  <2>3. client[c] \in Views
    BY DEF Typing
  <2> HIDE DEF q
  <2>4. ImagesOf(Applied(client[c], q).before) \cup ImagesOf(Applied(client[c], q).view)
          \subseteq ImagesOf(client[c].view) \cup {Picture(q)}
    BY <1>1, <2>3, AppliedShows
  <2>5. CASE client'[c] = client[c]
    BY <2>1, <2>5
  <2>6. CASE client'[c] = Applied(client[c], q)
    BY <2>1, <2>4, <2>6
  <2> QED
    BY <2>2, <2>5, <2>6
<1>4. x \in {Picture(p) : p \in Known'}
          \cup UNION {ImagesOf(client'[c].before) \cup ImagesOf(client'[c].view) : c \in Sessions}
  BY DEF Images
<1> HIDE DEF q
<1>5. CASE \E p \in Known' : x = Picture(p)
  BY <1>2, <1>5 DEF q
<1>6. CASE \E c \in Sessions : x \in ImagesOf(client'[c].before) \cup ImagesOf(client'[c].view)
  BY <1>3, <1>6 DEF q
<1> QED
  BY <1>4, <1>5, <1>6

LEMMA ReceiveImages ==
  ASSUME Typing, NEW c \in Remote, NEW snapshot \in sent[c], Receive(c, snapshot), NEW x \in Images'
  PROVE  x \in Images
<1>1. c \in Sessions /\ snapshot \in Snapshots /\ snapshot \in Known
  BY ActorsAre DEF Typing, Known
<1>2. ASSUME NEW p \in Known' PROVE Picture(p) \in Images
  BY ReceiveKnown DEF Images
<1>3. ASSUME NEW d \in Sessions
      PROVE  ImagesOf(client'[d].before) \cup ImagesOf(client'[d].view) \subseteq Images
  <2>1. /\ ImagesOf(client[d].before) \cup ImagesOf(client[d].view) \subseteq Images
        /\ Picture(snapshot) \in Images
    BY <1>1 DEF Images
  <2>2. client[d] \in Views /\ client' = [client EXCEPT ![c] = Applied(client[c], snapshot)]
    BY DEF Typing, Receive
  <2>3. CASE d # c
    <3>1. client'[d] = client[d]
      BY <2>2, <2>3 DEF Typing
    <3> QED
      BY <2>1, <3>1
  <2>4. CASE d = c
    <3>1. client'[d] = Applied(client[d], snapshot)
      BY <2>2, <2>4 DEF Typing
    <3>2. ImagesOf(Applied(client[d], snapshot).before) \cup ImagesOf(Applied(client[d], snapshot).view)
            \subseteq ImagesOf(client[d].view) \cup {Picture(snapshot)}
      BY <1>1, <2>2, AppliedShows
    <3> QED
      BY <2>1, <3>1, <3>2
  <2> QED
    BY <2>3, <2>4
<1>4. x \in {Picture(p) : p \in Known'}
          \cup UNION {ImagesOf(client'[d].before) \cup ImagesOf(client'[d].view) : d \in Sessions}
  BY DEF Images
<1>5. CASE \E p \in Known' : x = Picture(p)
  BY <1>2, <1>5
<1>6. CASE \E d \in Sessions : x \in ImagesOf(client'[d].before) \cup ImagesOf(client'[d].view)
  BY <1>3, <1>6
<1> QED
  BY <1>4, <1>5, <1>6

LEMMA InitHist ==
  ASSUME Init
  PROVE  HistInv
<1>1. /\ Calm(server) /\ server.shots = {}
      /\ server.hist = [a \in Actors |-> <<Sample(server, a, 0)>>]
  BY InitialWorld
<1>2. now = 0 /\ tick = 0
  BY DEF Init
<1>3. ASSUME NEW a \in Actors
      PROVE  Confirmed(server.hist[a], 0) /\ Last(server.hist[a]) = Sample(server, a, 0)
  <2> DEFINE x == Sample(server, a, 0)
             h == server.hist[a]
  <2>1. x \in Samples /\ x.time = 0
    BY <1>1, SampleTyped
  <2>2. h = <<x>>
    BY <1>1
  <2> HIDE DEF x, h
  <2>3. <<x>> \in Seq(Samples) /\ Len(<<x>>) = 1 /\ <<x>>[1] = x
    BY <2>1
  <2>4. h \in Seq(Samples) /\ Len(h) = 1 /\ h[1] = x
    BY <2>2, <2>3
  <2>5. \A i \in 1 .. Len(h) : h[i].time = 0 - Len(h) + i
    BY <2>1, <2>4
  <2> QED
    BY <2>1, <2>4, <2>5 DEF Confirmed, Last, h, x
<1>4. ASSUME NEW q \in Images PROVE q = Picture(SnapshotOf(server, 0, 0, TRUE))
  <2> DEFINE first == SnapshotOf(server, 0, 0, TRUE)
             x == Picture(first)
             view == View(x, <<x>>)
  <2>1. client = [c \in Sessions |->
                    [seen |-> first, before |-> view, view |-> view, feed |-> <<>>, gap |-> FALSE]]
    BY Zenon DEF Init
  <2>2. sent = [c \in Remote |-> {}]
    BY DEF Init
  <2> HIDE DEF view, x, first
  <2>3. \A c \in Sessions : client[c].seen = first /\ client[c].before = view /\ client[c].view = view
    BY <2>1
  <2>4. \A p \in Known : p = first
    BY <2>2, <2>3 DEF Known
  <2>5. ImagesOf(view) \subseteq {x}
    <3>1. view.newest = x /\ view.buffer = <<x>>
      BY DEF View, view
    <3> QED
      BY <3>1 DEF ImagesOf
  <2>6. \A c \in Sessions : ImagesOf(client[c].before) \cup ImagesOf(client[c].view) \subseteq {x}
    BY <2>3, <2>5
  <2> HIDE DEF Known
  <2>7. q = x
    BY <2>4, <2>6 DEF Images, x
  <2> QED
    BY <2>7 DEF x, first
<1>5. ASSUME NEW q \in Images PROVE q.time = 0 /\ Agrees(q, server)
  <2>1. q.time = 0
    <3>1. Picture(SnapshotOf(server, 0, 0, TRUE)).time = 0
      BY Zenon DEF Picture, SnapshotOf
    <3> QED
      BY <1>4, <3>1
  <2>2. Agrees(Picture(SnapshotOf(server, 0, 0, TRUE)), server)
    BY <1>1, <1>3, PresentAgrees
  <2> QED
    BY <1>4, <2>1, <2>2
<1>6. AllMet(server, now)
  BY <1>1 DEF AllMet
<1> QED
  BY <1>2, <1>3, <1>5, <1>6 DEF HistInv

LEMMA TickHist ==
  ASSUME MaxRewind < MaxSamples, Typing, HistInv,
         NEW stepped, NEW publish \in BOOLEAN, TickLeads(stepped, publish)
  PROVE  HistInv'
<1>1. /\ Calm(stepped) /\ tick' = tick + 1 /\ now' \in Nat
      /\ stepped.hist = [a \in Actors |-> Recorded(server.hist[a], Sample(stepped, a, now'))]
      /\ SeesRight(server, now') => AllMet(stepped, now')
  BY DEF TickLeads
<1>2. now' = (IF Fresh(tick + 1) THEN now + 1 ELSE now) /\ now \in Nat
  BY DEF TickLeads, TimeOfTick, Typing
<1>3. /\ server'.hist = stepped.hist /\ server'.pos = stepped.pos /\ server'.hp = stepped.hp
      /\ server'.shots = stepped.shots /\ server'.mode = stepped.mode
  <2>1. CASE publish
    BY <1>1, <2>1, PublishedSound DEF TickLeads
  <2>2. CASE ~publish
    BY <2>2 DEF TickLeads
  <2> QED
    BY <2>1, <2>2
<1>4. ASSUME NEW a \in Actors
      PROVE  /\ Confirmed(stepped.hist[a], now')
             /\ Fresh(tick + 1) => Last(stepped.hist[a]) = Sample(stepped, a, now')
             /\ \A q \in Pictures : q.time <= now /\ Recalls(server.hist[a], a, q)
                                      => Recalls(stepped.hist[a], a, q)
  <2> DEFINE x == Sample(stepped, a, now')
             h == server.hist[a]
  <2>1. x \in Samples /\ x.time = now'
    BY <1>1, SampleTyped
  <2>2. stepped.hist[a] = Recorded(h, x)
    BY <1>1
  <2>3. Confirmed(h, now)
    BY DEF HistInv
  <2> HIDE DEF x, h
  <2>4. CASE Fresh(tick + 1)
    <3>1. x.time = now + 1 /\ now' = now + 1
      BY <1>2, <2>1, <2>4
    <3>2. /\ Confirmed(Recorded(h, x), now + 1) /\ Last(Recorded(h, x)) = x
          /\ \A b \in Actors, q \in Pictures :
               q.time <= now /\ Recalls(h, b, q) => Recalls(Recorded(h, x), b, q)
      BY <1>2, <2>1, <2>3, <3>1, RecordedConfirmed
    <3> QED
      BY <2>2, <3>1, <3>2 DEF h, x
  <2>5. CASE ~Fresh(tick + 1)
    <3>1. x.time = now /\ now' = now
      BY <1>2, <2>1, <2>5
    <3>2. Last(h).time = now /\ h # <<>>
      <4>1. Len(h) \in Nat /\ Len(h) > 0 /\ Len(h) \in 1 .. Len(h) /\ h[Len(h)].time = now - Len(h) + Len(h)
        BY <2>3, LenProperties DEF Confirmed
      <4> QED
        BY <1>2, <4>1, EmptySeq DEF Last
    <3>3. Recorded(h, x) = h
      BY <1>2, <3>1, <3>2 DEF Recorded
    <3> QED
      BY <2>2, <2>3, <2>5, <3>1, <3>3 DEF h
  <2> QED
    BY <2>4, <2>5
<1>5. Agrees(Picture(SnapshotOf(stepped, stepped.seq + 1, now', Fresh(tick + 1))), stepped)
  BY <1>1, <1>4, FreshIs, PresentAgrees
<1>6. ASSUME NEW q \in Images' PROVE q.time <= now' /\ Agrees(q, stepped)
  <2>1. CASE q \in Images
    <3>1. q \in Pictures /\ q.time \in Nat
      BY <2>1, ImagesTyped DEF Pictures
    <3>2. q.time <= now /\ Agrees(q, server)
      BY <2>1 DEF HistInv
    <3>3. q.time <= now'
      BY <1>2, <3>1, <3>2
    <3> QED
      BY <1>4, <3>1, <3>2, <3>3 DEF Agrees
  <2>2. CASE q = Picture(SnapshotOf(stepped, stepped.seq + 1, now', Fresh(tick + 1)))
    <3>1. q.time = now'
      BY <1>1, <2>2, FreshIs, PictureShows
    <3> QED
      BY <1>1, <1>5, <2>2, <3>1
  <2> QED
    BY <2>1, <2>2, TickImages
<1>7. AllMet(server', now')
  <2>1. now' >= now
    BY <1>2
  <2>2. SeesRight(server, now')
    BY <1>1, <2>1, HistorySeesRight
  <2> QED
    BY <1>1, <1>3, <2>2 DEF AllMet
<1>8. \A a \in Actors : Confirmed(server'.hist[a], now')
  BY <1>3, <1>4
<1>9. Fresh(tick)' => \A a \in Actors : Last(server'.hist[a]) = Sample(server', a, now')
  <2>1. Fresh(tick)' <=> Fresh(tick + 1)
    BY <1>1 DEF Fresh
  <2>2. \A a \in Actors : Sample(server', a, now') = Sample(stepped, a, now')
    BY <1>3 DEF Sample
  <2> QED
    BY <1>3, <1>4, <2>1, <2>2
<1>10. \A q \in Images' : q.time <= now' /\ Agrees(q, server')
  BY <1>3, <1>6 DEF Agrees
<1> QED
  BY <1>7, <1>8, <1>9, <1>10 DEF HistInv

\* A step that leaves actors, history and time alone; new pictures show the present.
LEMMA HistStays ==
  ASSUME Typing, HistInv, Calm(server'), server'.hist = server.hist, server'.pos = server.pos,
         server'.hp = server.hp, server'.shots = server.shots, server'.mode = server.mode,
         tick' = tick, now' = now,
         \A q \in Images' : q \in Images \/ q = Picture(SnapshotOf(server, server.seq, now, Fresh(tick)))
  PROVE  HistInv'
<1>1. now \in Nat /\ Calm(server)
  BY DEF Typing
<1>2. Agrees(Picture(SnapshotOf(server, server.seq, now, Fresh(tick))), server)
  BY <1>1, FreshIs, PresentAgrees DEF HistInv
<1>3. ASSUME NEW q \in Images' PROVE q.time <= now' /\ Agrees(q, server')
  <2>1. CASE q \in Images
    BY <2>1 DEF HistInv, Agrees
  <2>2. CASE q = Picture(SnapshotOf(server, server.seq, now, Fresh(tick)))
    <3>1. q.time = now
      BY <1>1, <2>2, FreshIs, PictureShows
    <3> QED
      BY <1>1, <1>2, <2>2, <3>1 DEF Agrees
  <2> QED
    BY <2>1, <2>2
<1>4. \A a \in Actors : Confirmed(server'.hist[a], now')
  BY DEF HistInv
<1>5. Fresh(tick)' => \A a \in Actors : Last(server'.hist[a]) = Sample(server', a, now')
  <2>1. \A a \in Actors : Sample(server', a, now') = Sample(server, a, now)
    BY DEF Sample
  <2>2. Fresh(tick)' <=> Fresh(tick)
    BY DEF Fresh
  <2> QED
    BY <2>1, <2>2 DEF HistInv
<1>6. AllMet(server', now')
  BY DEF HistInv, AllMet
<1> QED
  BY <1>3, <1>4, <1>5, <1>6 DEF HistInv

LEMMA NextHist ==
  ASSUME MaxRewind < MaxSamples, Typing, HistInv, [Next]_vars
  PROVE  HistInv'
<1>1. Calm(server)
  BY DEF Typing
<1>2. ASSUME NEW order, \A c \in Sessions : order[c] \in Allowed(c, TimeOfTick(tick + 1)),
             NEW botOrder \in [Bots -> BotOrders], NEW publish \in BOOLEAN, Tick(order, botOrder, publish)
      PROVE  HistInv'
  <2>1. PICK stepped : TickLeads(stepped, publish)
    BY <1>2, TickIs
  <2> QED
    BY <2>1, TickHist
<1>3. ASSUME NEW c \in Remote, RefreshHello(c) PROVE HistInv'
  <2>1. /\ server' = server /\ tick' = tick /\ now' = now /\ client' = client
        /\ sent' = [sent EXCEPT ![c] = @ \cup {SnapshotOf(server, server.seq, now, Fresh(tick))}]
    BY <1>3 DEF RefreshHello
  <2> DEFINE q == SnapshotOf(server, server.seq, now, Fresh(tick))
  <2>2. \A d \in Remote : sent'[d] \subseteq sent[d] \cup {q}
    BY <2>1 DEF Typing
  <2> HIDE DEF q
  <2>3. \A p \in Known' : p \in Known \/ p = q
    BY <2>1, <2>2 DEF Known
  <2>4. \A x \in Images' : x \in Images \/ x = Picture(q)
    <3> HIDE DEF Known
    <3> QED
      BY <2>1, <2>3 DEF Images
  <2> QED
    BY <1>1, <2>1, <2>4, HistStays DEF q
<1>4. ASSUME NEW c \in Remote, NEW snapshot \in sent[c], Receive(c, snapshot) PROVE HistInv'
  <2>1. server' = server /\ tick' = tick /\ now' = now
    BY <1>4 DEF Receive
  <2>2. \A x \in Images' : x \in Images
    BY <1>4, ReceiveImages
  <2> QED
    BY <1>1, <2>1, <2>2, HistStays
<1>5. CASE ToggleBots \/ ToggleBotPeace
  <2>1. Untouched
    BY <1>5, ToggledUntouched
  <2>2. Images' = Images
    BY <2>1 DEF Untouched, Known, Images
  <2>3. /\ Calm(server') /\ server'.hist = server.hist /\ server'.pos = server.pos
        /\ server'.hp = server.hp /\ server'.shots = server.shots /\ server'.mode = server.mode
        /\ tick' = tick /\ now' = now
    BY <2>1 DEF Untouched
  <2> QED
    BY <2>2, <2>3, HistStays
<1>6. CASE UNCHANGED vars
  <2>1. server' = server /\ tick' = tick /\ now' = now /\ client' = client /\ sent' = sent
    BY <1>6 DEF vars
  <2>2. Images' = Images
    BY <2>1 DEF Known, Images
  <2> QED
    BY <1>1, <2>1, <2>2, HistStays
<1> QED
  BY <1>2, <1>3, <1>4, <1>5, <1>6, NextCases, Zenon

\* Whoever aims at a living opponent drawn as he was the interpolation delay before the newest
\* snapshot, no longer ago than the rewind window, hits him wherever he has gone since, unless
\* he is protected: with interpolation on or off, however many ticks share a server time, as
\* long as the cap on samples leaves the window whole (rewindTimeForTiming,
\* LagCompensationService::recordWorldState, rewindTargets, InterpolationBuffer::sample).
THEOREM SightedShotsHit ==
  ASSUME MaxRewind < MaxSamples
  PROVE  Spec => []SeenIsHit
<1>1. Init => Typing /\ HistInv
  BY InitTyping, InitHist
<1>2. Typing /\ HistInv /\ [Next]_vars => Typing' /\ HistInv'
  BY NextTyping, NextHist
<1>3. HistInv => SeenIsHit
  BY Zenon DEF HistInv, AllMet, Met, Aged, Just, SeenIsHit
<1> QED
  BY <1>1, <1>2, <1>3, PTL DEF Spec

=============================================================================
