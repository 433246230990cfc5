--------------------------- MODULE ClientViewProofs ---------------------------
(***************************************************************************)
(* Proofs about the three parts of a client that MCClientView puts side by *)
(* side: the buffer of positions (InterpolationBuffer), the settings panel *)
(* (SettingsPanel) and the runtime settings behind it (RuntimeSettings,    *)
(* here as Settings).                                                      *)
(***************************************************************************)
EXTENDS MCClientView, FiniteSetTheorems, SequenceTheorems, WellFoundedInduction, TLAPS

-----------------------------------------------------------------------------
(***************************************************************************)
(* The buffer: what is drawn is always a place the actor was in, or        *)
(* between two such places.  The invariant says of each history that its   *)
(* samples are places the actor was in, in the order of their times,       *)
(* without a jump; that the last one is of the newest snapshot if the      *)
(* actor is in it depends on times growing with the numbers of the         *)
(* snapshots.                                                              *)
(***************************************************************************)

Samples == [time : Nat, pos : Positions]

SnapshotType(s) ==
  /\ s.seq \in Nat \ {0} /\ s.time \in Nat /\ s.present \in SUBSET Actors
  /\ \A a \in s.present : s.pos[a] \in Positions

\* Server and client keep their types.
TypeInv ==
  /\ now \in Nat /\ seq \in Nat /\ elapsed \in Nat
  /\ newest.seq \in Nat /\ newest.time \in Nat /\ newest.present \in SUBSET Actors
  /\ histories \in [Actors -> Seq(Samples)]
  /\ \A s \in sent : SnapshotType(s)

\* Later snapshots show later times.
SentInv ==
  /\ \A s \in sent : s.seq <= seq /\ s.time <= now
  /\ \A s, t \in sent : s.seq < t.seq => s.time <= t.time

NewestInv ==
  \/ newest.seq = 0 /\ newest.time = 0 /\ newest.present = {}
  \/ newest \in sent

\* A sample is a place of the actor at a time that has been shown.
Sampling(a, h) ==
  \A i \in 1 .. Len(h) : h[i].time <= newest.time /\ WasThere(a, h[i].time, h[i].pos)

Smooth(h) ==
  \A i \in 1 .. Len(h) - 1 :
    h[i].time < h[i + 1].time /\ Distance(h[i].pos, h[i + 1].pos) <= TeleportDistance

UpToDate(a, h) == a \in newest.present => h # <<>> /\ h[Len(h)].time = newest.time

HistoryInv ==
  \A a \in Actors :
    Sampling(a, histories[a]) /\ Smooth(histories[a]) /\ UpToDate(a, histories[a])

BufferInv == TypeInv /\ SentInv /\ NewestInv /\ HistoryInv

-----------------------------------------------------------------------------
(***************************************************************************)
(* A set of natural numbers that is not empty has a least element.         *)
(***************************************************************************)
LEMMA LeastNatural ==
  ASSUME NEW T \in SUBSET Nat, T # {}
  PROVE  \E x \in T : \A y \in T : x <= y
<1> DEFINE R == OpToRel(<, Nat)
<1>1. IsWellFoundedOn(R, Nat)
  BY NatLessThanWellFounded
<1>2. \A x, y \in Nat : y < x => <<y, x>> \in R
  BY DEF OpToRel
<1> HIDE DEF R
<1>3. PICK x \in T : \A y \in T : ~ (<<y, x>> \in R)
  <2>1. T \subseteq Nat
    OBVIOUS
  <2>2. QED
    BY <1>1, <2>1, WFMin, Zenon
<1>4. \A y \in T : x <= y
  <2>1. \A m, n \in Nat : ~ (m < n) => n <= m
    OBVIOUS
  <2>2. \A y \in T : x \in Nat /\ y \in Nat
    OBVIOUS
  <2>3. QED
    BY <1>2, <1>3, <2>1, <2>2, Zenon
<1>5. QED
  BY <1>4

LEMMA SampleTypes ==
  ASSUME NEW h \in Seq(Samples)
  PROVE  /\ Len(h) \in Nat
         /\ h # <<>> => Len(h) \in 1 .. Len(h)
         /\ \A i \in 1 .. Len(h) : h[i] \in Samples /\ h[i].time \in Nat /\ h[i].pos \in Positions
<1>1. Len(h) \in Nat /\ (h # <<>> => Len(h) \in 1 .. Len(h))
  OBVIOUS
<1>2. \A i \in 1 .. Len(h) : h[i] \in Samples
  OBVIOUS
<1>3. QED
  BY <1>1, <1>2 DEF Samples

(***************************************************************************)
(* A time inside a history lies between two neighbours.                    *)
(***************************************************************************)
LEMMA SomePairStraddles ==
  ASSUME NEW h \in Seq(Samples), h # <<>>, NEW time \in Nat,
         h[1].time < time, time < h[Len(h)].time
  PROVE  \E j \in 2 .. Len(h) : Straddles(h, j, time)
<1> DEFINE Late == {j \in 1 .. Len(h) : time <= h[j].time}
<1>1. Len(h) \in Nat /\ Len(h) >= 1 /\ \A j \in 1 .. Len(h) : h[j].time \in Nat
  BY SampleTypes
<1>2. Late \in SUBSET Nat /\ Len(h) \in Late
  BY <1>1
<1>3. PICK j \in Late : \A i \in Late : j <= i
  <2>1. Late # {}
    BY <1>2
  <2> HIDE DEF Late
  <2>2. QED
    BY <1>2, <2>1, LeastNatural, Zenon
<1>4. j \in 1 .. Len(h) /\ time <= h[j].time /\ j # 1
  BY <1>1
<1>5. j - 1 \in 1 .. Len(h) /\ j - 1 \notin Late
  BY <1>1, <1>3, <1>4
<1>6. h[j - 1].time <= time
  BY <1>1, <1>5
<1>7. QED
  BY <1>1, <1>4, <1>6 DEF Straddles

-----------------------------------------------------------------------------
(***************************************************************************)
(* No sample of a history is later than its last one.                      *)
(***************************************************************************)
LEMMA HistoryAscends ==
  ASSUME NEW h \in Seq(Samples), Smooth(h), h # <<>>
  PROVE  \A i \in 1 .. Len(h) : h[i].time <= h[Len(h)].time
<1>1. /\ Len(h) \in Nat /\ Len(h) >= 1
      /\ \A i \in 1 .. Len(h) : h[i].time \in Nat
  BY SampleTypes
<1>2. SUFFICES ASSUME \E i \in 1 .. Len(h) : h[i].time > h[Len(h)].time
               PROVE  FALSE
  BY <1>1
<1> DEFINE After == {n \in Nat : n < Len(h) /\ h[Len(h) - n].time > h[Len(h)].time}
<1>3. After # {}
  <2>1. PICK i \in 1 .. Len(h) : h[i].time > h[Len(h)].time
    BY <1>2
  <2>2. Len(h) - i \in Nat /\ Len(h) - i < Len(h) /\ Len(h) - (Len(h) - i) = i
    BY <1>1
  <2>3. QED
    BY <2>1, <2>2
<1>4. After \in SUBSET Nat
  OBVIOUS
<1>5. PICK n \in After : \A m \in After : n <= m
  <2> HIDE DEF After
  <2>1. QED
    BY <1>3, <1>4, LeastNatural, Zenon
<1>6. n \in Nat /\ n < Len(h) /\ h[Len(h) - n].time > h[Len(h)].time
  OBVIOUS
<1>7. n # 0
  <2>1. SUFFICES ASSUME n = 0 PROVE FALSE
    OBVIOUS
  <2>2. Len(h) - n = Len(h) /\ Len(h) \in 1 .. Len(h)
    BY <1>1, <2>1
  <2>3. h[Len(h)].time > h[Len(h)].time
    BY <1>6, <2>2
  <2>4. QED
    BY <1>1, <2>2, <2>3
<1>8. n - 1 \in Nat /\ n - 1 < Len(h) /\ ~ (n <= n - 1)
  BY <1>6, <1>7
<1>9. n - 1 \notin After
  BY <1>5, <1>8
<1>10. ~ (h[Len(h) - (n - 1)].time > h[Len(h)].time)
  BY <1>8, <1>9
<1>11. /\ Len(h) - n \in 1 .. Len(h) - 1 /\ (Len(h) - n) + 1 = Len(h) - (n - 1)
       /\ {Len(h) - n, Len(h) - (n - 1), Len(h)} \subseteq 1 .. Len(h)
  BY <1>1, <1>6, <1>7
<1>12. h[Len(h) - n].time < h[Len(h) - (n - 1)].time
  BY <1>11 DEF Smooth
<1>13. QED
  <2>1. /\ h[Len(h) - n].time \in Nat /\ h[Len(h) - (n - 1)].time \in Nat
        /\ h[Len(h)].time \in Nat
    BY <1>1, <1>11
  <2>2. QED
    BY <1>6, <1>10, <1>12, <2>1

(***************************************************************************)
(* What is kept of a history is a history without a jump to the new place. *)
(***************************************************************************)
LEMMA KeptSound ==
  ASSUME NEW h \in Seq(Samples), Smooth(h), NEW p \in Positions
  PROVE  /\ Kept(h, p) \in Seq(Samples) /\ Smooth(Kept(h, p))
         /\ \A i \in 1 .. Len(Kept(h, p)) : i \in 1 .. Len(h) /\ Kept(h, p)[i] = h[i]
         /\ Kept(h, p) # <<>> => Distance(Kept(h, p)[Len(Kept(h, p))].pos, p) <= TeleportDistance
<1>1. CASE h # <<>> /\ Distance(h[Len(h)].pos, p) > TeleportDistance
  BY <1>1 DEF Kept, Smooth
<1>2. CASE h # <<>> /\ ~ Distance(h[Len(h)].pos, p) > TeleportDistance
  <2>1. Kept(h, p) = h
    BY <1>2 DEF Kept
  <2>2. h[Len(h)].pos \in Nat /\ p \in Nat
    BY <1>2, SampleTypes, BufferAssumption
  <2>3. Distance(h[Len(h)].pos, p) \in Int
    BY <2>2 DEF Distance
  <2>4. Distance(h[Len(h)].pos, p) <= TeleportDistance
    BY <1>2, <2>3, BufferAssumption
  <2>5. QED
    BY <2>1, <2>4
<1>3. CASE h = <<>>
  BY <1>3 DEF Kept
<1>4. QED
  BY <1>1, <1>2, <1>3

(***************************************************************************)
(* A later sample that is no jump from the last one continues a history.   *)
(***************************************************************************)
LEMMA AppendSound ==
  ASSUME NEW h \in Seq(Samples), Smooth(h), NEW e \in Samples,
         \A i \in 1 .. Len(h) : h[i].time < e.time,
         h # <<>> => Distance(h[Len(h)].pos, e.pos) <= TeleportDistance
  PROVE  LET r == Append(h, e) IN
         /\ r \in Seq(Samples) /\ r # <<>> /\ r[Len(r)] = e /\ Smooth(r)
         /\ \A i \in 1 .. Len(r) : r[i] = e \/ \E k \in 1 .. Len(h) : r[i] = h[k]
<1> DEFINE r == Append(h, e)
<1>1. /\ r \in Seq(Samples) /\ r # <<>> /\ Len(r) = Len(h) + 1 /\ r[Len(h) + 1] = e
      /\ \A i \in 1 .. Len(h) : r[i] = h[i]
      /\ Len(h) \in Nat
  BY AppendProperties
<1> HIDE DEF r
<1>2. ASSUME NEW i \in 1 .. Len(r)
      PROVE  r[i] = e \/ \E k \in 1 .. Len(h) : r[i] = h[k]
  BY <1>1
<1>3. ASSUME NEW i \in 1 .. Len(r) - 1
      PROVE  r[i].time < r[i + 1].time /\ Distance(r[i].pos, r[i + 1].pos) <= TeleportDistance
  <2>1. CASE i = Len(h)
    <3>1. h # <<>> /\ i \in 1 .. Len(h)
      BY <1>1, <2>1
    <3>2. QED
      BY <1>1, <2>1, <3>1
  <2>2. CASE i # Len(h)
    <3>1. i \in 1 .. Len(h) - 1 /\ r[i] = h[i] /\ r[i + 1] = h[i + 1]
      BY <1>1, <2>2
    <3>2. QED
      BY <3>1 DEF Smooth
  <2>3. QED
    BY <2>1, <2>2
<1>4. Smooth(r)
  BY <1>3 DEF Smooth
<1>5. QED
  BY <1>1, <1>2, <1>4 DEF r

(***************************************************************************)
(* The cap takes samples from the front only and never the last one.       *)
(***************************************************************************)
LEMMA CappedSound ==
  ASSUME NEW h \in Seq(Samples), Smooth(h), h # <<>>
  PROVE  LET r == Capped(h) IN
         /\ r \in Seq(Samples) /\ r # <<>> /\ r[Len(r)] = h[Len(h)] /\ Smooth(r)
         /\ \A i \in 1 .. Len(r) : \E k \in 1 .. Len(h) : r[i] = h[k]
<1> DEFINE r == Capped(h)
<1>1. CASE Len(h) > MaxSamples
  <2>1. r = Tail(h)
    BY <1>1 DEF Capped
  <2>2. Len(h) \in Nat /\ Len(h) >= 2
    BY <1>1, BufferAssumption
  <2>3. r \in Seq(Samples) /\ Len(r) = Len(h) - 1 /\ \A i \in 1 .. Len(r) : r[i] = h[i + 1]
    BY <2>1, HeadTailProperties
  <2> HIDE DEF r
  <2>4. r # <<>> /\ r[Len(r)] = h[Len(h)]
    BY <2>2, <2>3
  <2>5. Smooth(r)
    <3>1. ASSUME NEW i \in 1 .. Len(r) - 1
          PROVE  r[i].time < r[i + 1].time /\ Distance(r[i].pos, r[i + 1].pos) <= TeleportDistance
      <4>1. i + 1 \in 1 .. Len(h) - 1 /\ i \in 1 .. Len(r) /\ i + 1 \in 1 .. Len(r)
        BY <2>2, <2>3
      <4>2. r[i] = h[i + 1] /\ r[i + 1] = h[(i + 1) + 1]
        BY <2>3, <4>1
      <4>3. QED
        BY <4>1, <4>2 DEF Smooth
    <3>2. QED
      BY <3>1 DEF Smooth
  <2>6. \A i \in 1 .. Len(r) : \E k \in 1 .. Len(h) : r[i] = h[k]
    BY <2>2, <2>3
  <2>7. QED
    BY <2>3, <2>4, <2>5, <2>6 DEF r
<1>2. CASE ~ (Len(h) > MaxSamples)
  BY <1>2 DEF Capped
<1>3. QED
  BY <1>1, <1>2

(***************************************************************************)
(* A sample that is no older than the history it is pushed on ends up as   *)
(* the last one, or leaves one of the same time there.                     *)
(***************************************************************************)
LEMMA PushedSound ==
  ASSUME NEW h \in Seq(Samples), Smooth(h), NEW time \in Nat, NEW p \in Positions,
         \A i \in 1 .. Len(h) : h[i].time <= time
  PROVE  LET r == Pushed(h, time, p) IN
         /\ r \in Seq(Samples) /\ r # <<>> /\ r[Len(r)].time = time /\ Smooth(r)
         /\ \A i \in 1 .. Len(r) :
              r[i] = [time |-> time, pos |-> p] \/ \E k \in 1 .. Len(h) : r[i] = h[k]
<1> DEFINE r == Pushed(h, time, p)
           e == [time |-> time, pos |-> p]
<1>1. e \in Samples /\ e.time = time /\ e.pos = p
  BY DEF Samples
<1>2. \A i \in 1 .. Len(h) : h[i].time \in Nat
  BY SampleTypes
<1>3. CASE h # <<>> /\ time <= h[Len(h)].time
  <2>1. r = h
    BY <1>3 DEF Pushed
  <2>2. Len(h) \in 1 .. Len(h)
    BY <1>3
  <2>3. h[Len(h)].time = time
    BY <1>2, <1>3, <2>2
  <2>4. QED
    BY <1>3, <2>1, <2>3
<1>4. CASE ~ (h # <<>> /\ time <= h[Len(h)].time)
  <2> DEFINE k == Kept(h, p)
             l == Append(k, e)
  <2>1. r = Capped(l)
    BY <1>4 DEF Pushed
  <2>2. \A i \in 1 .. Len(h) : h[i].time < time
    <3>1. CASE h = <<>>
      BY <3>1
    <3>2. CASE h # <<>>
      <4>1. h[Len(h)].time < time
        BY <1>2, <1>4, <3>2
      <4>2. \A i \in 1 .. Len(h) : h[i].time <= h[Len(h)].time
        BY <3>2, HistoryAscends
      <4>3. QED
        BY <1>2, <3>2, <4>1, <4>2
    <3>3. QED
      BY <3>1, <3>2
  <2>3. /\ k \in Seq(Samples) /\ Smooth(k)
        /\ \A i \in 1 .. Len(k) : i \in 1 .. Len(h) /\ k[i] = h[i]
        /\ k # <<>> => Distance(k[Len(k)].pos, p) <= TeleportDistance
    BY KeptSound
  <2> HIDE DEF k, e
  <2>4. \A i \in 1 .. Len(k) : k[i].time < e.time
    BY <1>1, <2>2, <2>3
  <2>5. k # <<>> => Distance(k[Len(k)].pos, e.pos) <= TeleportDistance
    BY <1>1, <2>3
  <2>6. /\ l \in Seq(Samples) /\ l # <<>> /\ l[Len(l)] = e /\ Smooth(l)
        /\ \A i \in 1 .. Len(l) : l[i] = e \/ \E j \in 1 .. Len(k) : l[i] = k[j]
    BY <1>1, <2>3, <2>4, <2>5, AppendSound
  <2> HIDE DEF l
  <2>7. /\ Capped(l) \in Seq(Samples) /\ Capped(l) # <<>>
        /\ Capped(l)[Len(Capped(l))] = l[Len(l)] /\ Smooth(Capped(l))
        /\ \A i \in 1 .. Len(Capped(l)) : \E j \in 1 .. Len(l) : Capped(l)[i] = l[j]
    BY <2>6, CappedSound
  <2> HIDE DEF r
  <2>8. \A i \in 1 .. Len(r) : r[i] = e \/ \E j \in 1 .. Len(h) : r[i] = h[j]
    BY <2>1, <2>3, <2>6, <2>7
  <2>9. r \in Seq(Samples) /\ r # <<>> /\ r[Len(r)].time = time /\ Smooth(r)
    BY <1>1, <2>1, <2>6, <2>7
  <2>10. QED
    BY <2>8, <2>9 DEF r, e
<1>5. QED
  BY <1>3, <1>4

-----------------------------------------------------------------------------
LEMMA BufferInitInv == Init => BufferInv
<1>1. ASSUME Init PROVE BufferInv
  <2>1. histories \in [Actors -> Seq(Samples)] /\ \A a \in Actors : histories[a] = <<>>
    BY <1>1 DEF Init, Forgotten
  <2>2. TypeInv
    BY <1>1, <2>1 DEF Init, TypeInv, NoSnapshot, Snapshot
  <2>3. SentInv /\ NewestInv
    BY <1>1 DEF Init, SentInv, NewestInv, NoSnapshot, Snapshot
  <2>4. HistoryInv
    <3>1. newest.present = {}
      BY <1>1 DEF Init, NoSnapshot, Snapshot
    <3>2. \A i : i \notin 1 .. Len(<<>>) /\ i \notin 1 .. Len(<<>>) - 1
      OBVIOUS
    <3>3. \A a \in Actors : Sampling(a, <<>>) /\ Smooth(<<>>) /\ UpToDate(a, <<>>)
      BY <3>1, <3>2 DEF Sampling, Smooth, UpToDate
    <3>4. QED
      BY <2>1, <3>3 DEF HistoryInv
  <2>5. QED
    BY <2>2, <2>3, <2>4 DEF BufferInv
<1>2. QED
  BY <1>1

(***************************************************************************)
(* Another snapshot takes nothing from what the actors were.               *)
(***************************************************************************)
LEMMA PublishInv ==
  ASSUME BufferInv, NEW time \in Nat, NEW present \in SUBSET Actors,
         NEW pos \in [present -> Positions], Publish(time, present, pos)
  PROVE  BufferInv'
<1> DEFINE s == Snapshot(seq + 1, time, present, pos)
<1>1. /\ time \in {now, now + 1} /\ sent' = sent \cup {s} /\ seq' = seq + 1 /\ now' = time
      /\ UNCHANGED <<newest, elapsed, histories>>
  BY DEF Publish, Snapshot
<1>2. /\ s.seq = seq + 1 /\ s.time = time /\ s.present = present /\ s.pos = pos
      /\ now \in Nat /\ seq \in Nat
  BY DEF Snapshot, BufferInv, TypeInv
<1> HIDE DEF s
<1>3. SnapshotType(s)
  BY <1>2 DEF SnapshotType
<1>4. TypeInv'
  BY <1>1, <1>2, <1>3 DEF BufferInv, TypeInv
<1>5. SentInv'
  <2>1. \A t \in sent : t.seq \in Nat /\ t.time \in Nat /\ t.seq <= seq /\ t.time <= now
    BY DEF BufferInv, TypeInv, SentInv, SnapshotType
  <2>2. \A t \in sent' : t.seq <= seq' /\ t.time <= now'
    BY <1>1, <1>2, <2>1
  <2>3. ASSUME NEW t \in sent', NEW u \in sent', t.seq < u.seq
        PROVE  t.time <= u.time
    <3>1. CASE t \in sent /\ u \in sent
      BY <2>3, <3>1 DEF BufferInv, SentInv
    <3>2. CASE t = s
      BY <1>1, <1>2, <2>1, <2>3, <3>2
    <3>3. CASE t \in sent /\ u = s
      BY <1>1, <1>2, <2>1, <3>3
    <3>4. QED
      BY <1>1, <3>1, <3>2, <3>3
  <2>4. QED
    BY <2>2, <2>3 DEF SentInv
<1>6. NewestInv'
  BY <1>1 DEF BufferInv, NewestInv
<1>7. HistoryInv'
  BY <1>1 DEF BufferInv, HistoryInv, Sampling, Smooth, UpToDate, WasThere
<1>8. QED
  BY <1>4, <1>5, <1>6, <1>7 DEF BufferInv

(***************************************************************************)
(* A snapshot that is accepted is no older than the one before it, so each *)
(* history of an actor in it ends with its time.                           *)
(***************************************************************************)
LEMMA ReceiveInv ==
  ASSUME BufferInv, NEW s \in sent, Receive(s)
  PROVE  BufferInv'
<1>1. /\ s.seq > newest.seq /\ newest' = s /\ elapsed' = 0
      /\ UNCHANGED <<sent, now, seq>>
      /\ histories' = IF AreGhosts /\ s.present = {} THEN Forgotten ELSE PushSnapshot(s)
  BY DEF Receive
<1>2. /\ SnapshotType(s) /\ s.seq \in Nat /\ s.time \in Nat /\ s.present \in SUBSET Actors
      /\ newest.seq \in Nat /\ newest.time \in Nat
      /\ histories \in [Actors -> Seq(Samples)]
  BY DEF BufferInv, TypeInv, SnapshotType
<1>3. newest.time <= s.time
  BY <1>1, <1>2 DEF BufferInv, NewestInv, SentInv
<1>4. SentInv' /\ NewestInv'
  BY <1>1 DEF BufferInv, SentInv, NewestInv
<1>5. CASE AreGhosts /\ s.present = {}
  <2>1. histories' \in [Actors -> Seq(Samples)] /\ \A a \in Actors : histories'[a] = <<>>
    BY <1>1, <1>5 DEF Forgotten
  <2>2. TypeInv'
    BY <1>1, <1>2, <2>1 DEF BufferInv, TypeInv
  <2>3. HistoryInv'
    BY <1>1, <1>5, <2>1 DEF HistoryInv, Sampling, Smooth, UpToDate
  <2>4. QED
    BY <1>4, <2>2, <2>3 DEF BufferInv
<1>6. CASE ~ (AreGhosts /\ s.present = {})
  <2>1. histories' = PushSnapshot(s)
    BY <1>1, <1>6
  <2>2. ASSUME NEW a \in Actors
        PROVE  /\ histories'[a] \in Seq(Samples) /\ Smooth(histories'[a])
               /\ \A i \in 1 .. Len(histories'[a]) :
                    histories'[a][i].time <= s.time /\ WasThere(a, histories'[a][i].time, histories'[a][i].pos)
               /\ a \in s.present =>
                    histories'[a] # <<>> /\ histories'[a][Len(histories'[a])].time = s.time
    <3> DEFINE h == histories[a]
    <3>1. /\ h \in Seq(Samples) /\ Smooth(h)
          /\ \A i \in 1 .. Len(h) :
               h[i].time \in Nat /\ h[i].time <= newest.time /\ WasThere(a, h[i].time, h[i].pos)
      BY <1>2, SampleTypes DEF BufferInv, HistoryInv, Sampling
    <3>2. \A i \in 1 .. Len(h) : h[i].time <= s.time
      BY <1>2, <1>3, <3>1
    <3>3. CASE a \notin s.present
      <4>1. histories'[a] = h
        BY <2>1, <3>3 DEF PushSnapshot
      <4>2. QED
        BY <3>1, <3>2, <3>3, <4>1
    <3>4. CASE a \in s.present
      <4> DEFINE r == Pushed(h, s.time, s.pos[a])
      <4>1. histories'[a] = r
        BY <2>1, <3>4 DEF PushSnapshot
      <4>2. s.pos[a] \in Positions /\ WasThere(a, s.time, s.pos[a])
        BY <1>2, <3>4 DEF SnapshotType, WasThere
      <4>3. /\ r \in Seq(Samples) /\ r # <<>> /\ r[Len(r)].time = s.time /\ Smooth(r)
            /\ \A i \in 1 .. Len(r) :
                 r[i] = [time |-> s.time, pos |-> s.pos[a]] \/ \E k \in 1 .. Len(h) : r[i] = h[k]
        <5> HIDE DEF h
        <5>1. QED
          BY <1>2, <3>1, <3>2, <4>2, PushedSound
      <4> HIDE DEF r, h
      <4>4. \A i \in 1 .. Len(r) : r[i].time <= s.time /\ WasThere(a, r[i].time, r[i].pos)
        <5>1. ASSUME NEW i \in 1 .. Len(r)
              PROVE  r[i].time <= s.time /\ WasThere(a, r[i].time, r[i].pos)
          <6>1. CASE r[i] = [time |-> s.time, pos |-> s.pos[a]]
            BY <1>2, <4>2, <6>1
          <6>2. CASE \E k \in 1 .. Len(h) : r[i] = h[k]
            BY <3>1, <3>2, <6>2
          <6>3. QED
            BY <4>3, <6>1, <6>2
        <5>2. QED
          BY <5>1
      <4>5. QED
        BY <4>1, <4>3, <4>4
    <3>5. QED
      BY <3>3, <3>4
  <2>3. histories' \in [Actors -> Seq(Samples)]
    BY <2>1, <2>2 DEF PushSnapshot
  <2>4. TypeInv'
    BY <1>1, <1>2, <2>3 DEF BufferInv, TypeInv
  <2>5. HistoryInv'
    <3>1. ASSUME NEW a \in Actors, NEW p, NEW time
          PROVE  WasThere(a, time, p)' <=> WasThere(a, time, p)
      BY <1>1 DEF WasThere
    <3>2. QED
      BY <1>1, <2>2 DEF HistoryInv, Sampling, UpToDate, Smooth, WasThere
  <2>6. QED
    BY <1>4, <2>4, <2>5 DEF BufferInv
<1>7. QED
  BY <1>5, <1>6

LEMMA StepInv == BufferInv /\ [Next]_vars => BufferInv'
<1> SUFFICES ASSUME BufferInv, [Next]_vars PROVE BufferInv'
  OBVIOUS
<1>1. ASSUME NEW time \in 0 .. MaxTime, NEW present \in SUBSET Actors,
             NEW pos \in [present -> Positions], Publish(time, present, pos)
      PROVE  BufferInv'
  <2>1. time \in Nat
    BY BufferAssumption
  <2>2. QED
    BY <1>1, <2>1, PublishInv
<1>2. ASSUME NEW s \in sent, Receive(s) PROVE BufferInv'
  BY <1>2, ReceiveInv
<1>3. ASSUME Frame \/ ToggleInterpolation \/ UNCHANGED vars PROVE BufferInv'
  <2>1. elapsed' \in Nat /\ UNCHANGED <<sent, now, seq, newest, histories>>
    BY <1>3 DEF Frame, ToggleInterpolation, vars, BufferInv, TypeInv
  <2>2. QED
    BY <2>1 DEF BufferInv, TypeInv, SentInv, NewestInv, HistoryInv, Sampling, Smooth, UpToDate, WasThere
<1>4. QED
  BY <1>1, <1>2, <1>3 DEF Next

(***************************************************************************)
(* The two cases of sample: the last place, or one between two neighbours. *)
(***************************************************************************)
LEMMA InvShows == BufferInv => ShownWasThere
<1> SUFFICES ASSUME BufferInv, NEW a \in newest.present
             PROVE  \/ \E p \in Positions : Shown(a) = Exactly(p) /\ WasThere(a, newest.time, p)
                    \/ IsBetween(a, Shown(a))
  BY DEF ShownWasThere
<1> DEFINE h == histories[a]
           T == TargetTime
<1>1. /\ newest \in sent /\ a \in Actors /\ SnapshotType(newest)
      /\ newest.time \in Nat /\ elapsed \in Nat
  BY DEF BufferInv, NewestInv, TypeInv
<1>2. /\ h \in Seq(Samples) /\ h # <<>> /\ h[Len(h)].time = newest.time
      /\ Smooth(h) /\ Sampling(a, h)
  BY <1>1 DEF BufferInv, TypeInv, HistoryInv, UpToDate
<1>3. T \in Nat
  BY <1>1, BufferAssumption DEF TargetTime
<1>4. CASE ~ interpolates
  <2>1. newest.pos[a] \in Positions /\ WasThere(a, newest.time, newest.pos[a])
    BY <1>1 DEF SnapshotType, WasThere
  <2>2. Shown(a) = Exactly(newest.pos[a])
    BY <1>4 DEF Shown
  <2>3. QED
    BY <2>1, <2>2
<1>5. CASE interpolates
  <2>1. Shown(a) = Sampled(h, T)
    BY <1>5 DEF Shown
  <2> HIDE DEF h, T
  <2>2. /\ Len(h) \in Nat /\ Len(h) \in 1 .. Len(h) /\ 1 \in 1 .. Len(h)
        /\ \A i \in 1 .. Len(h) : h[i].time \in Nat /\ h[i].pos \in Positions
    BY <1>2, SampleTypes
  <2>3. CASE T <= h[1].time \/ T >= h[Len(h)].time
    <3>1. Shown(a) = Exactly(h[Len(h)].pos)
      BY <2>1, <2>3 DEF Sampled
    <3>2. h[Len(h)].pos \in Positions /\ WasThere(a, newest.time, h[Len(h)].pos)
      BY <1>2, <2>2 DEF Sampling
    <3>3. QED
      BY <3>1, <3>2
  <2>4. CASE ~ (T <= h[1].time \/ T >= h[Len(h)].time)
    <3>1. h[1].time < T /\ T < h[Len(h)].time
      BY <1>3, <2>2, <2>4
    <3> DEFINE i == CHOOSE j \in 2 .. Len(h) : Straddles(h, j, T)
    <3>2. i \in 2 .. Len(h) /\ Straddles(h, i, T)
      BY <1>2, <1>3, <3>1, SomePairStraddles
    <3>3. Shown(a) = Blend(h[i - 1], h[i], T)
      BY <2>1, <2>4 DEF Sampled
    <3> HIDE DEF i
    <3>4. i - 1 \in 1 .. Len(h) - 1 /\ i - 1 \in 1 .. Len(h) /\ i \in 1 .. Len(h) /\ (i - 1) + 1 = i
      BY <2>2, <3>2
    <3>5. h[i - 1].time < h[i].time /\ Distance(h[i - 1].pos, h[i].pos) <= TeleportDistance
      BY <1>2, <3>4 DEF Smooth
    <3>6. WasThere(a, h[i - 1].time, h[i - 1].pos) /\ WasThere(a, h[i].time, h[i].pos)
      BY <1>2, <3>4 DEF Sampling
    <3>7. PICK s \in sent : a \in s.present /\ s.time = h[i - 1].time /\ s.pos[a] = h[i - 1].pos
      BY <3>6 DEF WasThere
    <3>8. PICK t \in sent : a \in t.present /\ t.time = h[i].time /\ t.pos[a] = h[i].pos
      BY <3>6 DEF WasThere
    <3>9. Shown(a) = Blend([time |-> s.time, pos |-> s.pos[a]], [time |-> t.time, pos |-> t.pos[a]], T)
      BY <3>3, <3>7, <3>8 DEF Blend
    <3>10. IsBetween(a, Shown(a))
      BY <3>2, <3>5, <3>7, <3>8, <3>9 DEF IsBetween, Straddles, T
    <3>11. QED
      BY <3>10
  <2>5. QED
    BY <2>3, <2>4
<1>6. QED
  BY <1>4, <1>5

(***************************************************************************)
(* Histories hold real places in the order of time and without a jump.     *)
(***************************************************************************)
THEOREM HistoriesSound == Spec => []BufferInv
<1>1. QED
  BY BufferInitInv, StepInv, PTL DEF Spec

(***************************************************************************)
(* No actor is ever drawn where it was not, nor on the way of a jump.      *)
(***************************************************************************)
THEOREM PicturesSound == Spec => []ShownWasThere
<1>1. QED
  BY HistoriesSound, InvShows, PTL

-----------------------------------------------------------------------------
(***************************************************************************)
(* The settings panel is sound for any number of participants and bots.    *)
(* The invariant says why: a drag exists only while the user holds that    *)
(* very slider, and the selection cannot change while he does, because a   *)
(* row is selected by pressing the same button.                            *)
(***************************************************************************)

Panels == [visible : BOOLEAN, drag : Sliders \cup {NoDrag}, target : Nat, link : Nat]

\* A drag is what the user holds, of the participant that is selected.
DragIsHeld ==
  panel.drag # NoDrag => panel.visible /\ pressed /\ grip = <<panel.drag, panel.target>>

\* The selected participant may be shown, so that the panel and the edits agree on him.
AtPeer(p) == p \in Panels /\ p.target \in Peers /\ MayShow(p.target)

PanelInv ==
  /\ AtPeer(panel) /\ roster \subseteq Peers
  /\ DragIsHeld /\ OnlyTheHeldMoves /\ EditsTheSelected

\* Everything on the panel is a control.
LEMMA EnabledControls == Enabled \subseteq Controls
  BY DEF Enabled, SyncEnabled, SessionEnabled, LinkEnabled, AdvancedEnabled, Controls,
         Toggles, SessionControls, Sliders, LinkSliders, AdvancedSliders

\* No drag is no control.
LEMMA NoDragIsNoSlider == NoDrag \notin Controls /\ NoDrag \notin Sliders
  BY DEF NoDrag, Controls, Toggles, SessionControls, Sliders, LinkSliders, AdvancedSliders

\* The selected participant is edited.
LEMMA EditedIsSelected ==
  ASSUME NEW p, AtPeer(p), PeersAssumption
  PROVE  Edited(p) = p.target
  BY DEF Edited, AtPeer, PeersAssumption, Peers, Humans, Nobody

\* What an edit of one control asks for.
LEMMA RequestsOfOne ==
  ASSUME NEW p, NEW control, NEW request \in Requests(p, control)
  PROVE  /\ request[1] = control
         /\ request[2] \in {Edited(p), Everybody} \/ control = "global_latency"
         /\ control \in Sliders => request[2] = Edited(p) \/ control = "global_latency"
  BY DEF Requests, Sliders, Toggles, SessionControls, LinkSliders, AdvancedSliders

\* An edit changes nothing of the panel but the target of its link.
LEMMA EditApplied ==
  ASSUME PeersAssumption, NEW p, AtPeer(p), NEW q, NEW control
  PROVE  \E n :
           /\ Applied([panel |-> p, asked |-> q], Edit(control))
                = [panel |-> n, asked |-> q \cup Requests(n, control)]
           /\ AtPeer(n) /\ n.visible = p.visible /\ n.drag = p.drag /\ n.target = p.target
<1> DEFINE d == [panel |-> p, asked |-> q]
           n == IF linked THEN [p EXCEPT !.link = Edited(p)] ELSE p
<1>1. Edited(p) \in Nat
  BY EditedIsSelected DEF AtPeer, Panels
<1>2. n \in Panels /\ n.visible = p.visible /\ n.drag = p.drag /\ n.target = p.target
  BY <1>1 DEF AtPeer, Panels
<1>3. Applied(d, Edit(control)) = [panel |-> n, asked |-> q \cup Requests(n, control)]
  BY DEF Applied, Edit
<1>4. AtPeer(n)
  BY <1>2 DEF AtPeer
<1> HIDE DEF n
<1> QED
  BY <1>2, <1>3, <1>4

\* Selecting a row changes the targets only.
LEMMA SelectApplied ==
  ASSUME PeersAssumption, NEW p, AtPeer(p), NEW q, NEW t \in Rows, roster \subseteq Peers
  PROVE  \E n :
           /\ Applied([panel |-> p, asked |-> q], Select(t)) = [panel |-> n, asked |-> q]
           /\ AtPeer(n) /\ n.visible = p.visible /\ n.drag = p.drag
<1> DEFINE d == [panel |-> p, asked |-> q]
           m == IF linked THEN [p EXCEPT !.link = Edited(p)] ELSE p
           n == [m EXCEPT !.target = t, !.link = IF linked THEN t ELSE @]
<1>1. t \in Nat /\ t \in Peers /\ MayShow(t)
  BY DEF Rows, PeersAssumption, Peers, Humans
<1>2. Edited(p) \in Nat
  BY EditedIsSelected DEF AtPeer, Panels
<1>3. m \in Panels /\ m.visible = p.visible /\ m.drag = p.drag
  BY <1>2 DEF AtPeer, Panels
<1>4. n \in Panels /\ n.visible = p.visible /\ n.drag = p.drag /\ n.target = t
  BY <1>1, <1>3 DEF Panels
<1>5. Applied(d, Select(t)) = [panel |-> n, asked |-> q]
  BY DEF Applied, Select
<1>6. AtPeer(n)
  BY <1>1, <1>4 DEF AtPeer
<1> HIDE DEF n, m
<1> QED
  BY <1>4, <1>5, <1>6

\* The close button ends a drag.
LEMMA CloseApplied ==
  ASSUME PeersAssumption, NEW p, AtPeer(p), NEW q
  PROVE  \E n :
           /\ Applied([panel |-> p, asked |-> q], Close) = [panel |-> n, asked |-> q]
           /\ AtPeer(n) /\ n.drag = NoDrag
<1> DEFINE d == [panel |-> p, asked |-> q]
           m == IF linked THEN [p EXCEPT !.link = Edited(p)] ELSE p
<1>1. Edited(p) \in Nat
  BY EditedIsSelected DEF AtPeer, Panels
<1>2. m \in Panels /\ m.target = p.target
  BY <1>1 DEF AtPeer, Panels
<1>3. Closed(m) \in Panels /\ Closed(m).target = p.target /\ Closed(m).drag = NoDrag
  BY <1>2 DEF Closed, SetUiMode, Panels
<1>4. Applied(d, Close) = [panel |-> Closed(m), asked |-> q]
  BY DEF Applied, Close
<1>5. AtPeer(Closed(m))
  BY <1>2, <1>3 DEF AtPeer
<1> HIDE DEF m
<1> QED
  BY <1>3, <1>4, <1>5

\* Nothing pressed, nothing done.
LEMMA NothingApplied ==
  ASSUME NEW done
  PROVE  Applied(done, Nothing) = done
  BY DEF Applied, Nothing

-----------------------------------------------------------------------------
\* What is edited is the selected participant, in a frame that started from the invariant.
LEMMA RequestsSound ==
  ASSUME PeersAssumption, PanelInv, NEW p, AtPeer(p), p.target = panel.target,
         NEW control, NEW request \in Requests(p, control)
  PROVE  /\ request[1] = control
         /\ request[2] \notin {Everybody, Selected} /\ control # "global_latency"
              => request[2] \notin roster
         /\ control \in Sliders => control = "global_latency" \/ request[2] = panel.target
<1>1. Edited(p) = panel.target
  BY EditedIsSelected
<1>2. panel.target \in roster => Selected = panel.target
  BY DEF PanelInv, AtPeer, Selected, Rows
<1> QED
  BY <1>1, <1>2, RequestsOfOne

\* A frame that moves the drag's slider, if there is one, asks only what it may.
LEMMA DragSound ==
  ASSUME PeersAssumption, PanelInv, NEW q, NEW p, AtPeer(p), p.target = panel.target, NEW drag
  PROVE  \E n :
           /\ Applied([panel |-> p, asked |-> q], Dragged(drag))
                = [panel |-> n, asked |-> q \cup (IF drag \in Enabled THEN Requests(n, drag) ELSE {})]
           /\ AtPeer(n) /\ n.visible = p.visible /\ n.drag = p.drag /\ n.target = p.target
<1>1. CASE drag \in Enabled
  BY <1>1, EditApplied DEF Dragged
<1>2. CASE drag \notin Enabled
  BY <1>2, NothingApplied DEF Dragged
<1> QED
  BY <1>1, <1>2

\* A frame keeps the invariant if it asks for controls of which only the held one is a slider.
LEMMA WorkKeeps ==
  ASSUME PeersAssumption, PanelInv, UNCHANGED <<host, linked, roster>>, row' = Selected,
         NEW n, panel' = n, AtPeer(n),
         NEW controls,
         \A r \in asked' : \E control \in controls : \E p :
            AtPeer(p) /\ p.target = panel.target /\ r \in Requests(p, control),
         \A control \in controls \cap Sliders : grip' = <<control, panel.target>>,
         n.drag # NoDrag => n.visible /\ pressed' /\ grip' = <<n.drag, n.target>>
  PROVE  PanelInv'
<1>1. AtPeer(panel)' /\ (roster \subseteq Peers)'
  BY DEF PanelInv, AtPeer, MayShow
<1>2. DragIsHeld'
  BY DEF DragIsHeld
<1>3. ASSUME NEW r \in asked'
      PROVE  /\ r[1] \in Sliders => Holds(r)'
             /\ r[2] \notin {Everybody, row'} /\ r[1] # "global_latency" => r[2] \notin roster'
  <2>0. PICK control \in controls : \E p :
          AtPeer(p) /\ p.target = panel.target /\ r \in Requests(p, control)
    OBVIOUS
  <2>1. PICK p : AtPeer(p) /\ p.target = panel.target /\ r \in Requests(p, control)
    BY <2>0
  <2>2. r[1] = control
    BY <2>1, RequestsSound
  <2>3. r[2] \notin {Everybody, Selected} /\ control # "global_latency" => r[2] \notin roster
    BY <2>1, RequestsSound
  <2>4. control \in Sliders => control = "global_latency" \/ r[2] = panel.target
    BY <2>1, RequestsSound
  <2>5. control \in Sliders => grip' = <<control, panel.target>>
    OBVIOUS
  <2> QED
    BY <2>2, <2>3, <2>4, <2>5 DEF Holds
<1>4. OnlyTheHeldMoves' /\ EditsTheSelected'
  BY <1>3 DEF OnlyTheHeldMoves, EditsTheSelected
<1> QED
  BY <1>1, <1>2, <1>4 DEF PanelInv

\* The panel at the start of a frame, with the drag it has in it.
LEMMA StartSettled ==
  ASSUME PanelInv, NEW drag \in Sliders \cup {NoDrag}
  PROVE  /\ AtPeer([panel EXCEPT !.drag = drag])
         /\ [panel EXCEPT !.drag = drag].target = panel.target
         /\ [panel EXCEPT !.drag = drag].drag = drag
         /\ [panel EXCEPT !.drag = drag].visible = panel.visible
<1> DEFINE p == [panel EXCEPT !.drag = drag]
<1>1. p \in Panels /\ p.target = panel.target /\ p.drag = drag /\ p.visible = panel.visible
  BY DEF PanelInv, AtPeer, Panels
<1>2. AtPeer(p)
  BY <1>1 DEF PanelInv, AtPeer
<1> QED
  BY <1>1, <1>2

-----------------------------------------------------------------------------
\* An action of the pressed slider and the drag's action after it.
LEMMA SliderApplied ==
  ASSUME PeersAssumption, PanelInv, NEW p, AtPeer(p), p.target = panel.target, NEW slider
  PROVE  \E m, n :
           /\ Applied(Applied([panel |-> p, asked |-> {}], Edit(slider)), Dragged(slider))
                = [panel |-> n, asked |-> ({} \cup Requests(m, slider))
                     \cup (IF slider \in Enabled THEN Requests(n, slider) ELSE {})]
           /\ AtPeer(m) /\ m.target = p.target
           /\ AtPeer(n) /\ n.visible = p.visible /\ n.drag = p.drag /\ n.target = p.target
<1>1. PICK m : /\ Applied([panel |-> p, asked |-> {}], Edit(slider))
                    = [panel |-> m, asked |-> {} \cup Requests(m, slider)]
               /\ AtPeer(m) /\ m.visible = p.visible /\ m.drag = p.drag /\ m.target = p.target
  <2>1. \A control : \E m :
          /\ Applied([panel |-> p, asked |-> {}], Edit(control))
               = [panel |-> m, asked |-> {} \cup Requests(m, control)]
          /\ AtPeer(m) /\ m.visible = p.visible /\ m.drag = p.drag /\ m.target = p.target
    BY EditApplied
  <2> QED
    BY <2>1
<1> DEFINE q == {} \cup Requests(m, slider)
<1> HIDE DEF q
<1>2. PICK n : /\ Applied([panel |-> m, asked |-> q], Dragged(slider))
                    = [panel |-> n, asked |-> q \cup (IF slider \in Enabled THEN Requests(n, slider) ELSE {})]
               /\ AtPeer(n) /\ n.visible = m.visible /\ n.drag = m.drag /\ n.target = m.target
  <2>1. \A drag : \E n :
          /\ Applied([panel |-> m, asked |-> q], Dragged(drag))
               = [panel |-> n, asked |-> q \cup (IF drag \in Enabled THEN Requests(n, drag) ELSE {})]
          /\ AtPeer(n) /\ n.visible = m.visible /\ n.drag = m.drag /\ n.target = m.target
    BY <1>1, DragSound
  <2> QED
    BY <2>1
<1> QED
  BY <1>1, <1>2 DEF q

\* A press on a slider keeps the invariant: it is the user's from now on.
LEMMA PressSliderInv ==
  ASSUME PeersAssumption, PanelInv, NEW slider \in Sliders, PressSlider(slider)
  PROVE  PanelInv'
<1> DEFINE p == [panel EXCEPT !.drag = slider]
<1>1. AtPeer(p) /\ p.target = panel.target /\ p.drag = slider /\ p.visible = panel.visible
  BY StartSettled
<1>2. /\ panel' = Applied(Applied([panel |-> p, asked |-> {}], Edit(slider)), Dragged(slider)).panel
      /\ asked' = Applied(Applied([panel |-> p, asked |-> {}], Edit(slider)), Dragged(slider)).asked
      /\ panel.visible /\ row' = Selected /\ UNCHANGED <<host, linked, roster>>
  BY DEF PressSlider, Work
<1> HIDE DEF p
<1>3. PICK m, n :
        /\ Applied(Applied([panel |-> p, asked |-> {}], Edit(slider)), Dragged(slider))
             = [panel |-> n, asked |-> ({} \cup Requests(m, slider))
                  \cup (IF slider \in Enabled THEN Requests(n, slider) ELSE {})]
        /\ AtPeer(m) /\ m.target = p.target
        /\ AtPeer(n) /\ n.visible = p.visible /\ n.drag = p.drag /\ n.target = p.target
  <2>1. \A control : \E m, n :
          /\ Applied(Applied([panel |-> p, asked |-> {}], Edit(control)), Dragged(control))
               = [panel |-> n, asked |-> ({} \cup Requests(m, control))
                    \cup (IF control \in Enabled THEN Requests(n, control) ELSE {})]
          /\ AtPeer(m) /\ m.target = p.target
          /\ AtPeer(n) /\ n.visible = p.visible /\ n.drag = p.drag /\ n.target = p.target
    BY <1>1, SliderApplied
  <2> QED
    BY <2>1
<1>4. /\ panel' = n
      /\ \A r \in asked' : r \in Requests(m, slider) \/ r \in Requests(n, slider)
  BY <1>2, <1>3
<1>5. grip' = <<slider, panel.target>> /\ pressed'
  BY EditedIsSelected DEF PressSlider, PanelInv
<1>6. \A r \in asked' : \E control \in {slider} : \E q :
        AtPeer(q) /\ q.target = panel.target /\ r \in Requests(q, control)
  BY <1>1, <1>3, <1>4
<1>7. \A control \in {slider} \cap Sliders : grip' = <<control, panel.target>>
  BY <1>5
<1>8. n.drag # NoDrag => n.visible /\ pressed' /\ grip' = <<n.drag, n.target>>
  BY <1>1, <1>2, <1>3, <1>5
<1> QED
  BY <1>2, <1>3, <1>4, <1>6, <1>7, <1>8, WorkKeeps

\* Nothing is dragged when a button goes down.
LEMMA NoDragAtPress ==
  ASSUME PanelInv, ~pressed
  PROVE  /\ panel.drag = NoDrag /\ Dragged(panel.drag) = Nothing
         /\ [panel EXCEPT !.drag = panel.drag] = panel
  BY EnabledControls, NoDragIsNoSlider DEF PanelInv, DragIsHeld, Dragged, AtPeer, Panels

\* A press on anything else keeps it: nothing is dragged, and one control at most is asked for.
LEMMA PressOtherInv ==
  ASSUME PeersAssumption, PanelInv, NEW press, PressOther(press),
         NEW n, NEW q, NEW control, control \notin Sliders,
         Applied([panel |-> panel, asked |-> {}], press) = [panel |-> n, asked |-> q],
         AtPeer(n), n.drag = NoDrag,
         \A r \in q : \E p : AtPeer(p) /\ p.target = panel.target /\ r \in Requests(p, control)
  PROVE  PanelInv'
<1>1. Dragged(panel.drag) = Nothing /\ [panel EXCEPT !.drag = panel.drag] = panel
      /\ panel.drag = NoDrag
  BY NoDragAtPress DEF PressOther
<1>2. Applied([panel |-> n, asked |-> q], Nothing) = [panel |-> n, asked |-> q]
  BY NothingApplied
<1>3. /\ panel' = n /\ asked' = q /\ row' = Selected /\ UNCHANGED <<host, linked, roster>>
  BY <1>1, <1>2 DEF PressOther, Work
<1>4. \A r \in asked' : \E c \in {control} : \E p :
        AtPeer(p) /\ p.target = panel.target /\ r \in Requests(p, c)
  BY <1>3
<1> QED
  BY <1>3, <1>4, WorkKeeps

\* A button is pressed on an enabled control that is no slider.
LEMMA PressControlInv ==
  ASSUME PeersAssumption, PanelInv, NEW control \in Controls \ Sliders, PressControl(control)
  PROVE  PanelInv'
<1>1. PressOther(Edit(control)) /\ ~pressed
  BY DEF PressControl, PressOther
<1>2. AtPeer(panel) /\ panel.drag = NoDrag
  BY <1>1, NoDragAtPress DEF PanelInv
<1>3. PICK n : /\ Applied([panel |-> panel, asked |-> {}], Edit(control))
                    = [panel |-> n, asked |-> {} \cup Requests(n, control)]
               /\ AtPeer(n) /\ n.visible = panel.visible /\ n.drag = panel.drag
               /\ n.target = panel.target
  BY <1>2, EditApplied
<1>4. \A r \in {} \cup Requests(n, control) :
        \E p : AtPeer(p) /\ p.target = panel.target /\ r \in Requests(p, control)
  BY <1>3
<1> QED
  BY <1>1, <1>2, <1>3, <1>4, PressOtherInv

\* Another participant is selected while nothing is dragged.
LEMMA PressRowInv ==
  ASSUME PeersAssumption, PanelInv, NEW t \in Peers, PressRow(t)
  PROVE  PanelInv'
<1>1. PressOther(Select(t)) /\ ~pressed /\ t \in Rows
  BY DEF PressRow, PressOther
<1>2. AtPeer(panel) /\ panel.drag = NoDrag /\ roster \subseteq Peers
  BY <1>1, NoDragAtPress DEF PanelInv
<1>3. PICK n : /\ Applied([panel |-> panel, asked |-> {}], Select(t)) = [panel |-> n, asked |-> {}]
               /\ AtPeer(n) /\ n.visible = panel.visible /\ n.drag = panel.drag
  BY <1>1, <1>2, SelectApplied
<1> QED
  BY <1>1, <1>2, <1>3, NoDragIsNoSlider, PressOtherInv

\* The panel is closed by its button.
LEMMA PressCloseInv ==
  ASSUME PeersAssumption, PanelInv, PressClose
  PROVE  PanelInv'
<1>1. PressOther(Close)
  BY DEF PressClose
<1>2. AtPeer(panel)
  BY DEF PanelInv
<1>3. PICK n : /\ Applied([panel |-> panel, asked |-> {}], Close) = [panel |-> n, asked |-> {}]
               /\ AtPeer(n) /\ n.drag = NoDrag
  BY <1>2, CloseApplied
<1> QED
  BY <1>1, <1>3, NoDragIsNoSlider, PressOtherInv

\* The button goes down beside every control.
LEMMA PressNothingInv ==
  ASSUME PeersAssumption, PanelInv, PressNothing
  PROVE  PanelInv'
<1>1. PressOther(Nothing) /\ ~pressed
  BY DEF PressNothing, PressOther
<1>2. AtPeer(panel) /\ panel.drag = NoDrag
  BY <1>1, NoDragAtPress DEF PanelInv
<1>3. Applied([panel |-> panel, asked |-> {}], Nothing) = [panel |-> panel, asked |-> {}]
  BY NothingApplied
<1> QED
  BY <1>1, <1>2, <1>3, NoDragIsNoSlider, PressOtherInv

\* The button stays down: the slider that moves is the one held since the press.
LEMMA HoldInv ==
  ASSUME PeersAssumption, PanelInv, Hold
  PROVE  PanelInv'
<1> DEFINE drag == panel.drag
           p == [panel EXCEPT !.drag = drag]
<1>1. drag \in Sliders \cup {NoDrag} /\ AtPeer(panel)
  BY DEF PanelInv, AtPeer, Panels
<1>2. AtPeer(p) /\ p.target = panel.target /\ p.drag = drag /\ p.visible = panel.visible
  BY <1>1, StartSettled
<1>3. Applied([panel |-> p, asked |-> {}], Nothing) = [panel |-> p, asked |-> {}]
  BY NothingApplied
<1>4. /\ panel' = Applied([panel |-> p, asked |-> {}], Dragged(drag)).panel
      /\ asked' = Applied([panel |-> p, asked |-> {}], Dragged(drag)).asked
      /\ panel.visible /\ row' = Selected /\ UNCHANGED <<host, linked, roster, pressed, grip>> /\ pressed
  BY <1>3 DEF Hold, Work
<1> HIDE DEF p
<1>5. PICK n : /\ Applied([panel |-> p, asked |-> {}], Dragged(drag))
                    = [panel |-> n, asked |-> {} \cup (IF drag \in Enabled THEN Requests(n, drag) ELSE {})]
               /\ AtPeer(n) /\ n.visible = p.visible /\ n.drag = p.drag /\ n.target = p.target
  <2>1. \A slider : \E n :
          /\ Applied([panel |-> p, asked |-> {}], Dragged(slider))
               = [panel |-> n, asked |-> {} \cup (IF slider \in Enabled THEN Requests(n, slider) ELSE {})]
          /\ AtPeer(n) /\ n.visible = p.visible /\ n.drag = p.drag /\ n.target = p.target
    BY <1>2, DragSound
  <2> QED
    BY <2>1
<1>6. panel' = n /\ \A r \in asked' : drag \in Enabled /\ r \in Requests(n, drag)
  BY <1>4, <1>5
<1>7. drag # NoDrag => grip' = <<drag, panel.target>>
  BY <1>4 DEF PanelInv, DragIsHeld
<1>8. drag \in Sliders => drag # NoDrag
  BY NoDragIsNoSlider
<1>9. \A r \in asked' : \E control \in {drag} : \E q :
        AtPeer(q) /\ q.target = panel.target /\ r \in Requests(q, control)
  BY <1>2, <1>5, <1>6
<1>10. \A control \in {drag} \cap Sliders : grip' = <<control, panel.target>>
  BY <1>7, <1>8
<1>11. n.drag # NoDrag => n.visible /\ pressed' /\ grip' = <<n.drag, n.target>>
  BY <1>2, <1>4, <1>5, <1>7
<1> HIDE DEF drag
<1> QED
  BY <1>4, <1>5, <1>6, <1>9, <1>10, <1>11, WorkKeeps

\* The button comes up: nothing is dragged any more.
LEMMA ReleaseInv ==
  ASSUME PeersAssumption, PanelInv, Release
  PROVE  PanelInv'
<1> DEFINE p == [panel EXCEPT !.drag = NoDrag]
<1>1. AtPeer(p) /\ p.drag = NoDrag
  BY StartSettled
<1>2. Applied(Applied([panel |-> p, asked |-> {}], Nothing), Nothing) = [panel |-> p, asked |-> {}]
  BY NothingApplied
<1>3. panel' = p /\ asked' = {} /\ row' = Selected /\ UNCHANGED <<host, linked, roster>>
  BY <1>2 DEF Release, Work
<1> HIDE DEF p
<1>4. \A r \in asked' : \E control \in {} : \E q :
        AtPeer(q) /\ q.target = panel.target /\ r \in Requests(q, control)
  BY <1>3
<1> QED
  BY <1>1, <1>3, <1>4, WorkKeeps

-----------------------------------------------------------------------------
\* Whatever asks for nothing and keeps the drag held keeps the invariant.
LEMMA QuietKeeps ==
  ASSUME asked' = {}, AtPeer(panel)', roster' \subseteq Peers, DragIsHeld'
  PROVE  PanelInv'
  BY DEF PanelInv, OnlyTheHeldMoves, EditsTheSelected

\* Key and Escape: a panel that comes has no drag, and one that goes loses it.
LEMMA ToggleInv ==
  ASSUME PeersAssumption, PanelInv, Toggle
  PROVE  PanelInv'
<1>1. CASE panel.visible
  <2>1. /\ panel' \in Panels /\ panel'.target = panel.target /\ panel'.drag = NoDrag
    BY <1>1 DEF Toggle, Closed, SetUiMode, PanelInv, AtPeer, Panels
  <2> QED
    BY <2>1, QuietKeeps DEF Toggle, PanelInv, AtPeer, MayShow, DragIsHeld
<1>2. CASE ~panel.visible
  <2>1. panel.drag = NoDrag
    BY <1>2 DEF PanelInv, DragIsHeld
  <2>2. /\ panel' \in Panels /\ panel'.target = panel.target /\ panel'.drag = NoDrag
    BY <1>2, <2>1 DEF Toggle, SetUiMode, PanelInv, AtPeer, Panels
  <2> QED
    BY <2>2, QuietKeeps DEF Toggle, PanelInv, AtPeer, MayShow, DragIsHeld
<1> QED
  BY <1>1, <1>2

\* A button where no panel is, or a snapshot, leaves panel and drag alone.
LEMMA OutsideInv ==
  ASSUME PeersAssumption, PanelInv,
         \/ Unseen
         \/ \E present \in SUBSET Peers, predicting, smoothing \in SUBSET Humans :
              ReceiveSnapshot(present, predicting, smoothing)
  PROVE  PanelInv'
<1>1. asked' = {} /\ AtPeer(panel)' /\ roster' \subseteq Peers
  BY DEF Unseen, ReceiveSnapshot, PanelInv, AtPeer, MayShow
<1>2. DragIsHeld'
  BY DEF Unseen, ReceiveSnapshot, PanelInv, DragIsHeld
<1> QED
  BY <1>1, <1>2, QuietKeeps

\* The panel of a client that has just been welcomed.
LEMMA PanelInitInv ==
  ASSUME PeersAssumption, PanelInit
  PROVE  PanelInv
<1>1. Me \in Nat /\ Me \in Peers
  BY DEF PeersAssumption, Peers, Humans
<1>2. AtPeer(panel)
  BY <1>1 DEF PanelInit, AtPeer, Panels, MayShow, Nobody
<1> QED
  BY <1>2 DEF PanelInit, PanelInv, DragIsHeld, OnlyTheHeldMoves, EditsTheSelected

-----------------------------------------------------------------------------
\* Drag, selection and requests of the settings panel stay in step: the inductive
\* invariant behind RuntimeSettingsOverlay::handleMouse and applyRuntimeSettingsAction.
THEOREM PanelInvariant ==
  ASSUME PeersAssumption
  PROVE  PanelSpec => []PanelInv
<1>1. PanelInit => PanelInv
  BY PanelInitInv
<1>2. PanelInv /\ [PanelNext]_panelVars => PanelInv'
  <2> SUFFICES ASSUME PanelInv, [PanelNext]_panelVars
               PROVE  PanelInv'
    OBVIOUS
  <2>1. CASE UNCHANGED panelVars
    BY <2>1 DEF panelVars, PanelInv, AtPeer, MayShow, DragIsHeld, OnlyTheHeldMoves, EditsTheSelected, Holds
  <2>2. CASE \E slider \in Sliders : PressSlider(slider)
    BY <2>2, PressSliderInv
  <2>3. CASE \E control \in Controls \ Sliders : PressControl(control)
    BY <2>3, PressControlInv
  <2>4. CASE \E t \in Peers : PressRow(t)
    BY <2>4, PressRowInv
  <2>5. CASE PressClose
    BY <2>5, PressCloseInv
  <2>6. CASE PressNothing
    BY <2>6, PressNothingInv
  <2>7. CASE Hold
    BY <2>7, HoldInv
  <2>8. CASE Release
    BY <2>8, ReleaseInv
  <2>9. CASE Toggle
    BY <2>9, ToggleInv
  <2>10. CASE Unseen \/ \E present \in SUBSET Peers, predicting, smoothing \in SUBSET Humans :
                          ReceiveSnapshot(present, predicting, smoothing)
    BY <2>10, OutsideInv
  <2> QED
    BY <2>1, <2>2, <2>3, <2>4, <2>5, <2>6, <2>7, <2>8, <2>9, <2>10 DEF PanelNext
<1> QED
  BY <1>1, <1>2, PTL DEF PanelSpec

\* For any number of participants: only the held slider moves and only for the one it
\* was taken for, edits go to the participant shown as selected while he is there, and
\* no drag outlives the panel.
THEOREM PanelSound ==
  ASSUME PeersAssumption
  PROVE  PanelSpec => []PanelIsSound
<1>1. PanelInv => PanelIsSound
  BY DEF PanelInv, PanelIsSound, DragIsHeld
<1> QED
  BY <1>1, PanelInvariant, PTL
-----------------------------------------------------------------------------
(***************************************************************************)
(* Runtime settings: every copy of a setting keeps its type, the snapshot  *)
(* rate that is live is never above the tick rate, and the settings a      *)
(* player sees of himself are those he plays with.  Messages under way     *)
(* carry only what the settings they name may be.                          *)
(***************************************************************************)
SettingKeys == SyncKeys \cup Flags \cup Settings!LinkKeys \cup Settings!RateKeys

\* What may be asked for: a value the setting may have, of a target that has the setting.
Sensible(m) ==
  /\ m.key \in SyncKeys \cup Flags => m.value \in Settings!Values
  /\ m.key \in Settings!LinkKeys => m.target \in Settings!Targets /\ m.value \in Settings!Values
  /\ m.key \in Settings!RateKeys => m.value \in Rates

SettingRequests ==
  {m \in [target : Settings!Targets \cup {Settings!Session}, key : SettingKeys, value : Int] : Sensible(m)}
SettingResults ==
  {m \in [kind : {"result"}, target : Settings!Targets \cup {Settings!Session}, key : SettingKeys,
          value : Int, applied : BOOLEAN, accepted : BOOLEAN] : Sensible(m)}
SettingSnapshots ==
  [kind : {"snapshot"}, sync : Settings!SyncSettings, link : [Settings!Targets -> Settings!LinkSettings],
   flags : [Flags -> Settings!Values], live : [Settings!RateKeys -> Rates]]

Servers ==
  [sync : Settings!SyncSettings, link : [Settings!Targets -> Settings!LinkSettings],
   flags : [Flags -> Settings!Values], live : [Settings!RateKeys -> Rates],
   pending : Settings!RateSettings]
HostClients ==
  [local : Settings!SyncSettings, authority : Settings!SyncSettings, roster : Settings!SyncSettings,
   linkRoster : [Settings!Targets -> Settings!LinkSettings], flags : [Flags -> Settings!Values],
   live : [Settings!RateKeys -> Rates], staged : Settings!RateSettings, target : Settings!Targets,
   panel : Settings!LinkSettings, panelAuthority : Settings!LinkSettings]

ServerSound == server \in Servers /\ server.live["snapshot"] <= server.live["tick"]
ClientSound == client \in HostClients /\ client.roster = client.local
WaySound ==
  /\ link \in Settings!LinkSettings
  /\ up \in Seq(SettingRequests) /\ down \in Seq(SettingResults \cup SettingSnapshots)
  /\ changes \in 0 .. MaxChanges /\ losses \in 0 .. MaxLosses

SettingsInv == ServerSound /\ ClientSound /\ WaySound

\* Requests that may be sent.
LEMMA SensibleRequest ==
  ASSUME NEW t \in Settings!Targets \cup {Settings!Session}, NEW k \in SettingKeys, NEW v \in Int,
         k \in SyncKeys \cup Flags => v \in Settings!Values,
         k \in Settings!LinkKeys => t \in Settings!Targets /\ v \in Settings!Values,
         k \in Settings!RateKeys => v \in Rates
  PROVE  Settings!Request(t, k, v) \in SettingRequests
BY DEF Settings!Request, SettingRequests, Sensible

LEMMA SendSound ==
  ASSUME Settings!ConstantsAssumption, SettingsInv, NEW q \in Seq(SettingRequests), Settings!Send(q),
         ClientSound', link' \in Settings!LinkSettings
  PROVE  SettingsInv'
<1>1. server' = server /\ up' = up \o q /\ down' = down /\ losses' = losses
      /\ changes < MaxChanges /\ changes' = changes + 1
  BY DEF Settings!Send
<1>2. ServerSound'
  BY <1>1 DEF SettingsInv, ServerSound
<1>3. WaySound'
  BY <1>1 DEF SettingsInv, WaySound, Settings!ConstantsAssumption
<1> QED
  BY <1>2, <1>3 DEF SettingsInv

\* The keys of the four kinds of setting, and what they are worth.
LEMMA KeysApart ==
  ASSUME Settings!ConstantsAssumption
  PROVE  /\ SyncKeys \cap (Flags \cup Settings!LinkKeys \cup Settings!RateKeys) = {}
         /\ Flags \cap (Settings!LinkKeys \cup Settings!RateKeys) = {}
         /\ Settings!LinkKeys \cap Settings!RateKeys = {}
         /\ Rates \subseteq Nat \ {0} /\ Settings!Values \subseteq Int
BY DEF Settings!ConstantsAssumption, Settings!LinkKeys, Settings!RateKeys, Settings!Values

LEMMA ChangeSyncInv ==
  ASSUME Settings!ConstantsAssumption, SettingsInv, NEW k \in SyncKeys, Settings!ChangeSync(k)
  PROVE  SettingsInv'
<1> DEFINE v == 1 - client.roster[k]
           p == [client.roster EXCEPT ![k] = v]
           q == <<Settings!Request(Me, k, v)>>
<1>1. client \in HostClients /\ client.roster = client.local
  BY DEF SettingsInv, ClientSound
<1>2. client.roster \in Settings!SyncSettings
  BY <1>1 DEF HostClients
<1>3. v \in Settings!Values
  BY <1>2 DEF Settings!SyncSettings, Settings!Values
<1>4. p \in Settings!SyncSettings
  BY <1>2, <1>3 DEF Settings!SyncSettings
<1>5. Settings!Send(q) /\ link' = link
  BY DEF Settings!ChangeSync
<1>6. client' = [client EXCEPT !.local = p, !.roster = p]
  BY <1>1 DEF Settings!ChangeSync, HostClients
<1>7. q \in Seq(SettingRequests)
  <2>1. Settings!Request(Me, k, v) \in SettingRequests
    BY <1>3, KeysApart, SensibleRequest DEF SettingKeys, Settings!Targets
  <2> QED
    BY <2>1
<1> HIDE DEF v, p, q
<1>8. client' \in HostClients /\ client'.roster = client'.local
  BY <1>1, <1>4, <1>6 DEF HostClients
<1> QED
  BY <1>5, <1>7, <1>8, SendSound DEF ClientSound, SettingsInv, WaySound

LEMMA ChangeFlagInv ==
  ASSUME Settings!ConstantsAssumption, SettingsInv, NEW f \in Flags, Settings!ChangeFlag(f)
  PROVE  SettingsInv'
<1> DEFINE v == 1 - client.flags[f]
           q == <<Settings!Request(Settings!Session, f, v)>>
<1>1. v \in Settings!Values
  BY DEF SettingsInv, ClientSound, HostClients, Settings!Values
<1>2. Settings!Send(q) /\ UNCHANGED <<client, link>>
  BY DEF Settings!ChangeFlag
<1>3. q \in Seq(SettingRequests)
  <2>1. Settings!Request(Settings!Session, f, v) \in SettingRequests
    BY <1>1, KeysApart, SensibleRequest DEF SettingKeys
  <2> QED
    BY <2>1
<1> HIDE DEF v, q
<1> QED
  BY <1>2, <1>3, SendSound DEF ClientSound, SettingsInv, WaySound

LEMMA ChangeRateInv ==
  ASSUME Settings!ConstantsAssumption, SettingsInv, NEW k \in Settings!RateKeys, NEW r \in Rates,
         Settings!ChangeRate(k, r)
  PROVE  SettingsInv'
<1> DEFINE q == <<Settings!Request(Settings!Session, k, r)>>
<1>1. Settings!Send(q) /\ UNCHANGED <<client, link>>
  BY DEF Settings!ChangeRate
<1>2. q \in Seq(SettingRequests)
  <2>1. r \in Int
    BY KeysApart
  <2>2. Settings!Request(Settings!Session, k, r) \in SettingRequests
    BY <2>1, KeysApart, SensibleRequest DEF SettingKeys
  <2> QED
    BY <2>2
<1> HIDE DEF q
<1> QED
  BY <1>1, <1>2, SendSound DEF ClientSound, SettingsInv, WaySound

LEMMA ChangeLinkInv ==
  ASSUME Settings!ConstantsAssumption, SettingsInv, NEW k \in Settings!LinkKeys, NEW v \in Settings!Values,
         Settings!ChangeLink(k, v)
  PROVE  SettingsInv'
<1> DEFINE p == [client.panel EXCEPT ![k] = v]
           t == client.target
           q == Settings!LinkRequests(t, p)
<1>1. client \in HostClients /\ client.roster = client.local /\ link \in Settings!LinkSettings
  BY DEF SettingsInv, ClientSound, WaySound
<1>2. p \in Settings!LinkSettings /\ t \in Settings!Targets
  BY <1>1 DEF HostClients, Settings!LinkSettings
<1>3. /\ Settings!Send(q) /\ client' = [client EXCEPT !.panel = p]
      /\ link' \in {p, link}
  BY DEF Settings!ChangeLink
<1> HIDE DEF p, t
<1>4. client' \in HostClients /\ client'.roster = client'.local
  BY <1>1, <1>2, <1>3 DEF HostClients
<1>5. q \in Seq(SettingRequests)
  <2>1. \A l \in Settings!LinkKeys : Settings!Request(t, l, p[l]) \in SettingRequests
    <3> TAKE l \in Settings!LinkKeys
    <3>1. p[l] \in Settings!Values /\ p[l] \in Int
      BY <1>2, KeysApart DEF Settings!LinkSettings
    <3> QED
      BY <1>2, <3>1, KeysApart, SensibleRequest DEF SettingKeys
  <2>2. "latency_ms" \in Settings!LinkKeys /\ "loss_pct" \in Settings!LinkKeys
    BY DEF Settings!LinkKeys
  <2> QED
    BY <2>1, <2>2 DEF Settings!LinkRequests
<1> HIDE DEF q
<1> QED
  BY <1>1, <1>2, <1>3, <1>4, <1>5, SendSound DEF ClientSound

\* The targets can be listed.
LEMMA TargetsListed ==
  ASSUME Settings!ConstantsAssumption
  PROVE  Settings!SetToSeq(Settings!Targets) \in Seq(Settings!Targets)
<1> DEFINE T == Settings!Targets
<1>1. IsFiniteSet(T)
  <2>1. IsFiniteSet(Bots)
    BY DEF Settings!ConstantsAssumption, IsFiniteSet, Settings!IsFiniteSet
  <2> QED
    BY <2>1, FS_Singleton, FS_Union DEF Settings!Targets
<1>2. Cardinality(T) \in Nat /\ ExistsBijection(1..Cardinality(T), T)
  BY <1>1, FS_CardinalityType
<1>3. \E f \in [1..Cardinality(T) -> T] : Settings!IsInjective(f)
  <2>1. PICK f \in Bijection(1..Cardinality(T), T) : TRUE
    BY <1>2 DEF ExistsBijection
  <2>2. f \in [1..Cardinality(T) -> T] /\ \A a, b \in 1..Cardinality(T) : f[a] = f[b] => a = b
    BY <2>1 DEF Bijection, Injection, IsInjective
  <2> QED
    BY <2>2 DEF Settings!IsInjective
<1> HIDE DEF T
<1>4. Settings!SetToSeq(T) \in [1..Cardinality(T) -> T]
  <2>1. Settings!Cardinality(T) = Cardinality(T)
    BY Zenon DEF Cardinality, Settings!Cardinality
  <2> QED
    BY <1>3, <2>1 DEF Settings!SetToSeq
<1>5. Settings!SetToSeq(T) \in Seq(T)
  BY <1>2, <1>4
<1> QED
  BY <1>5 DEF T

LEMMA ChangeGlobalLatencyInv ==
  ASSUME Settings!ConstantsAssumption, SettingsInv, NEW v \in Settings!Values,
         Settings!ChangeGlobalLatency(v)
  PROVE  SettingsInv'
<1> DEFINE l == Settings!SetToSeq(Settings!Targets)
           q == [i \in DOMAIN l |-> Settings!Request(l[i], "latency_ms", v)]
           p == [client.panel EXCEPT !["latency_ms"] = v]
<1>1. client \in HostClients /\ client.roster = client.local /\ link \in Settings!LinkSettings
  BY DEF SettingsInv, ClientSound, WaySound
<1>2. p \in Settings!LinkSettings /\ link' \in Settings!LinkSettings
  BY <1>1 DEF HostClients, Settings!LinkSettings, Settings!ChangeGlobalLatency
<1>3. Settings!Send(q) /\ client' = [client EXCEPT !.panel = p]
  BY <1>1 DEF Settings!ChangeGlobalLatency, HostClients
<1>4. q \in Seq(SettingRequests)
  <2>1. l \in Seq(Settings!Targets)
    BY TargetsListed
  <2> HIDE DEF l
  <2>2. \A i \in DOMAIN l : l[i] \in Settings!Targets
    BY <2>1
  <2>3. \A i \in DOMAIN l : Settings!Request(l[i], "latency_ms", v) \in SettingRequests
    <3> TAKE i \in DOMAIN l
    <3>1. l[i] \in Settings!Targets /\ v \in Int /\ "latency_ms" \in Settings!LinkKeys
      BY <2>2, KeysApart DEF Settings!LinkKeys
    <3> QED
      BY <3>1, KeysApart, SensibleRequest DEF SettingKeys
  <2>4. Len(l) \in Nat /\ DOMAIN l = 1..Len(l)
    BY <2>1
  <2> QED
    BY <2>3, <2>4
<1> HIDE DEF q, p
<1>5. client' \in HostClients /\ client'.roster = client'.local
  BY <1>1, <1>2, <1>3 DEF HostClients
<1> QED
  BY <1>2, <1>3, <1>4, <1>5, SendSound DEF ClientSound

LEMMA SelectTargetInv ==
  ASSUME SettingsInv, NEW t \in Settings!Targets, Settings!SelectTarget(t)
  PROVE  SettingsInv'
<1>1. client \in HostClients /\ client.roster = client.local
  BY DEF SettingsInv, ClientSound
<1>2. client' = Settings!Retargeted(t) /\ UNCHANGED <<server, link, up, down, changes, losses>>
  BY DEF Settings!SelectTarget
<1>3. client' \in HostClients /\ client'.roster = client'.local
  BY <1>1, <1>2 DEF HostClients, Settings!Retargeted
<1> QED
  BY <1>2, <1>3 DEF SettingsInv, ServerSound, ClientSound, WaySound

\* What the server makes of a request.
LEMMA ServerAfterSound ==
  ASSUME Settings!ConstantsAssumption, ServerSound, NEW r \in SettingRequests
  PROVE  /\ Settings!ServerAfter(r) \in Servers
         /\ Settings!ServerAfter(r).live = server.live
<1>1. server \in Servers /\ Sensible(r) /\ r.key \in SettingKeys
  BY DEF ServerSound, SettingRequests
<1>2. CASE r.key \in SyncKeys
  <2> DEFINE s == [server.sync EXCEPT ![r.key] = r.value]
  <2>1. s \in Settings!SyncSettings
    BY <1>1, <1>2 DEF Servers, Settings!SyncSettings, Sensible
  <2>2. Settings!ServerAfter(r) = [server EXCEPT !.sync = s]
    BY <1>1, <1>2, KeysApart DEF Settings!ServerAfter, Settings!AppliedSync, Servers
  <2> HIDE DEF s
  <2> QED
    BY <1>1, <2>1, <2>2 DEF Servers
<1>3. CASE r.key \in Settings!LinkKeys
  <2> DEFINE l == [server.link EXCEPT ![r.target] = [server.link[r.target] EXCEPT ![r.key] = r.value]]
  <2>1. r.target \in Settings!Targets /\ r.value \in Settings!Values
    BY <1>1, <1>3 DEF Sensible
  <2>2. server.link \in [Settings!Targets -> Settings!LinkSettings]
    BY <1>1 DEF Servers
  <2>3. [server.link[r.target] EXCEPT ![r.key] = r.value] \in Settings!LinkSettings
    BY <1>3, <2>1, <2>2 DEF Settings!LinkSettings
  <2>4. l \in [Settings!Targets -> Settings!LinkSettings]
    BY <2>1, <2>2, <2>3
  <2>5. Settings!AppliedTransport(r) = [server EXCEPT !.link = l]
        /\ Settings!AppliedBotTransport(r) = [server EXCEPT !.link = l]
    BY <1>1 DEF Settings!AppliedTransport, Settings!AppliedBotTransport, Servers
  <2>6. Settings!ServerAfter(r) = [server EXCEPT !.link = l]
    <3>1. /\ r.key \notin SyncKeys /\ r.key \notin Flags /\ r.key \notin Settings!RateKeys
          /\ r.target = Me \/ r.target \in Bots
      BY <1>3, <2>1, KeysApart DEF Settings!Targets
    <3> HIDE DEF l
    <3> DEFINE after == [server EXCEPT !.link = l]
    <3>2. Settings!AppliedTransport(r) = after /\ Settings!AppliedBotTransport(r) = after
      BY <2>5
    <3> HIDE DEF after
    <3>3. Settings!ServerAfter(r) = after
      BY <1>3, <3>1, <3>2 DEF Settings!ServerAfter
    <3> QED
      BY <3>3 DEF after
  <2> HIDE DEF l
  <2> QED
    BY <1>1, <2>4, <2>6 DEF Servers
<1>4. CASE r.key \in Flags
  <2> DEFINE f == [server.flags EXCEPT ![r.key] = r.value]
  <2>1. f \in [Flags -> Settings!Values]
    BY <1>1, <1>4 DEF Servers, Sensible
  <2>2. Settings!ServerAfter(r) = [server EXCEPT !.flags = f]
    BY <1>1, <1>4, KeysApart DEF Settings!ServerAfter, Settings!AppliedFlag, Servers
  <2> HIDE DEF f
  <2> QED
    BY <1>1, <2>1, <2>2 DEF Servers
<1>5. CASE r.key \in Settings!RateKeys
  <2> DEFINE p == [server.pending EXCEPT ![r.key] = r.value]
  <2>1. p \in Settings!RateSettings
    BY <1>1, <1>5 DEF Servers, Sensible, Settings!RateSettings
  <2>2. Settings!StagedRate(r) = [server EXCEPT !.pending = p]
    BY <1>1 DEF Settings!StagedRate, Servers
  <2>3. Settings!ServerAfter(r) \in {server, [server EXCEPT !.pending = p]}
    <3> HIDE DEF p
    <3>1. r.key \notin SyncKeys /\ r.key \notin Settings!LinkKeys /\ r.key \notin Flags
      BY <1>5, KeysApart
    <3> QED
      BY <1>5, <2>2, <3>1 DEF Settings!ServerAfter
  <2> HIDE DEF p
  <2> QED
    BY <1>1, <2>1, <2>3 DEF Servers
<1> QED
  BY <1>1, <1>2, <1>3, <1>4, <1>5 DEF SettingKeys

LEMMA HandleRequestInv ==
  ASSUME Settings!ConstantsAssumption, SettingsInv, Settings!HandleRequest
  PROVE  SettingsInv'
<1> DEFINE r == Head(up)
<1>1. /\ up # <<>> /\ server' = Settings!ServerAfter(r) /\ up' = Tail(up)
      /\ down' = Append(down, Settings!Result(r)) /\ UNCHANGED <<client, link, changes, losses>>
  BY DEF Settings!HandleRequest
<1>2. ServerSound /\ up \in Seq(SettingRequests) /\ down \in Seq(SettingResults \cup SettingSnapshots)
  BY DEF SettingsInv, WaySound
<1>3. r \in SettingRequests /\ up' \in Seq(SettingRequests)
  BY <1>1, <1>2
<1> HIDE DEF r
<1>4. Settings!Result(r) \in SettingResults
  <2>1. r \in [target : Settings!Targets \cup {Settings!Session}, key : SettingKeys, value : Int]
        /\ Sensible(r)
    BY <1>3 DEF SettingRequests
  <2> DEFINE a == r.key \notin Settings!RateKeys
             b == r.key \in Settings!RateKeys => Settings!RateAccepted(r)
             m == [kind |-> "result", target |-> r.target, key |-> r.key, value |-> r.value,
                   applied |-> a, accepted |-> b]
  <2>2. a \in BOOLEAN /\ b \in BOOLEAN
    OBVIOUS
  <2> HIDE DEF a, b
  <2>3. m \in [kind : {"result"}, target : Settings!Targets \cup {Settings!Session}, key : SettingKeys,
               value : Int, applied : BOOLEAN, accepted : BOOLEAN]
    BY <2>1, <2>2
  <2>4. Sensible(m)
    BY <2>1 DEF Sensible
  <2>5. m \in SettingResults
    BY <2>3, <2>4 DEF SettingResults
  <2> QED
    BY <2>5 DEF Settings!Result, a, b
<1>5. down' \in Seq(SettingResults \cup SettingSnapshots)
  BY <1>1, <1>2, <1>4
<1>6. ServerSound'
  BY <1>1, <1>2, <1>3, ServerAfterSound DEF ServerSound
<1> QED
  BY <1>1, <1>3, <1>5, <1>6 DEF SettingsInv, ClientSound, WaySound

LEMMA CommitRatesInv ==
  ASSUME Settings!ConstantsAssumption, SettingsInv, Settings!CommitRates
  PROVE  SettingsInv'
<1> DEFINE chosen(k) == IF server.pending[k] # Settings!None THEN server.pending[k] ELSE server.live[k]
           least(a, b) == IF a <= b THEN a ELSE b
           l == [tick |-> chosen("tick"), snapshot |-> least(chosen("snapshot"), chosen("tick"))]
<1>1. /\ server' = [server EXCEPT !.pending = Settings!NoRates, !.live = l]
      /\ UNCHANGED <<client, link, up, down, changes, losses>>
  BY DEF Settings!CommitRates
<1>2. server \in Servers /\ "tick" \in Settings!RateKeys /\ "snapshot" \in Settings!RateKeys
  BY DEF SettingsInv, ServerSound, Settings!RateKeys
<1>3. chosen("tick") \in Rates /\ chosen("snapshot") \in Rates
  BY <1>2 DEF Servers, Settings!RateSettings
<1> HIDE DEF chosen
<1>4. l \in [Settings!RateKeys -> Rates] /\ l["snapshot"] <= l["tick"]
  BY <1>3, KeysApart DEF Settings!RateKeys
<1>5. Settings!NoRates \in Settings!RateSettings
  BY DEF Settings!NoRates, Settings!RateSettings
<1> HIDE DEF l
<1>6. server' \in Servers /\ server'.live = l
  BY <1>1, <1>2, <1>4, <1>5 DEF Servers
<1> QED
  BY <1>1, <1>4, <1>6 DEF SettingsInv, ServerSound, ClientSound, WaySound

LEMMA PublishSettingsInv ==
  ASSUME SettingsInv, Settings!Publish
  PROVE  SettingsInv'
<1> DEFINE m == [kind |-> "snapshot", sync |-> server.sync, link |-> server.link,
                 flags |-> server.flags, live |-> server.live]
<1>1. down' = Append(down, m) /\ UNCHANGED <<server, client, link, up, changes, losses>>
  BY DEF Settings!Publish
<1>2. m \in SettingSnapshots
  BY DEF SettingsInv, ServerSound, Servers, SettingSnapshots
<1> HIDE DEF m
<1>3. down' \in Seq(SettingResults \cup SettingSnapshots)
  BY <1>1, <1>2 DEF SettingsInv, WaySound
<1> QED
  BY <1>1, <1>3 DEF SettingsInv, ServerSound, ClientSound, WaySound

LEMMA ReceiveResultInv ==
  ASSUME Settings!ConstantsAssumption, SettingsInv, Settings!ReceiveResult
  PROVE  SettingsInv'
<1> DEFINE m == Head(down)
           staged == Settings!StagedByResult(m)
           flags == IF m.key \in Flags THEN [client.flags EXCEPT ![m.key] = m.value] ELSE client.flags
           shown == Settings!PanelByResult(m)
           authority == IF m.key \in Settings!LinkKeys /\ m.target = client.target
                        THEN [client.panelAuthority EXCEPT ![m.key] = m.value] ELSE client.panelAuthority
<1>1. down # <<>> /\ down \in Seq(SettingResults \cup SettingSnapshots)
  BY DEF Settings!ReceiveResult, SettingsInv, WaySound
<1>2. m \in SettingResults \cup SettingSnapshots /\ down' \in Seq(SettingResults \cup SettingSnapshots)
  BY <1>1 DEF Settings!ReceiveResult
<1>3. m.kind = "result" /\ UNCHANGED <<server, link, up, changes, losses>>
  BY DEF Settings!ReceiveResult
<1>4. m \in SettingResults
  BY <1>2, <1>3 DEF SettingSnapshots
<1>5. client \in HostClients /\ client.roster = client.local
  BY DEF SettingsInv, ClientSound
<1>6. client' = [client EXCEPT !.staged = staged, !.flags = flags, !.panel = shown, !.panelAuthority = authority]
  BY <1>5 DEF Settings!ReceiveResult, HostClients
<1> HIDE DEF m
<1>7. Sensible(m)
  BY <1>4 DEF SettingResults
<1>8. staged \in Settings!RateSettings
  BY <1>5, <1>7 DEF Settings!StagedByResult, HostClients, Settings!RateSettings, Sensible
<1>9. flags \in [Flags -> Settings!Values]
  BY <1>5, <1>7 DEF HostClients, Sensible
<1>10. shown \in Settings!LinkSettings /\ authority \in Settings!LinkSettings
  BY <1>5, <1>7 DEF Settings!PanelByResult, HostClients, Settings!LinkSettings, Sensible
<1> HIDE DEF staged, flags, shown, authority
<1>11. client' \in HostClients /\ client'.roster = client'.local
  BY <1>5, <1>6, <1>8, <1>9, <1>10 DEF HostClients
<1> QED
  BY <1>2, <1>3, <1>11 DEF SettingsInv, ServerSound, ClientSound, WaySound

\* The settings shown and used take the same turn at every snapshot.
LEMMA ReceiveSettingsInv ==
  ASSUME Settings!ConstantsAssumption, SettingsInv, Settings!ReceiveSnapshot
  PROVE  SettingsInv'
<1> DEFINE m == Head(down)
           local == IF Settings!Overridden(client.local, client.authority, m.sync) THEN client.local ELSE m.sync
           shown == Settings!ShownPanel(m.link[client.target])
           staged == [k \in Settings!RateKeys |-> IF client.staged[k] = m.live[k] THEN Settings!None
                                                  ELSE client.staged[k]]
<1>1. down # <<>> /\ down \in Seq(SettingResults \cup SettingSnapshots)
  BY DEF Settings!ReceiveSnapshot, SettingsInv, WaySound
<1>2. m \in SettingResults \cup SettingSnapshots /\ down' \in Seq(SettingResults \cup SettingSnapshots)
  BY <1>1 DEF Settings!ReceiveSnapshot
<1>3. m.kind = "snapshot" /\ UNCHANGED <<server, link, up, changes, losses>>
  BY DEF Settings!ReceiveSnapshot
<1>4. m \in SettingSnapshots
  BY <1>2, <1>3 DEF SettingResults
<1>5. client \in HostClients /\ client.roster = client.local
  BY DEF SettingsInv, ClientSound
<1>6. client' = [client EXCEPT !.local = local, !.roster = local, !.authority = m.sync,
                   !.linkRoster = m.link, !.panel = shown, !.panelAuthority = m.link[client.target],
                   !.flags = m.flags, !.live = m.live, !.staged = staged]
  BY <1>5 DEF Settings!ReceiveSnapshot, Settings!ShownSettings, HostClients
<1> HIDE DEF m
<1>7. local \in Settings!SyncSettings /\ m.sync \in Settings!SyncSettings
  BY <1>4, <1>5 DEF HostClients, SettingSnapshots
<1>8. /\ shown \in Settings!LinkSettings /\ m.link[client.target] \in Settings!LinkSettings
      /\ m.link \in [Settings!Targets -> Settings!LinkSettings]
  BY <1>4, <1>5 DEF HostClients, SettingSnapshots, Settings!ShownPanel
<1>9. /\ staged \in Settings!RateSettings /\ m.live \in [Settings!RateKeys -> Rates]
      /\ m.flags \in [Flags -> Settings!Values]
  BY <1>4, <1>5 DEF HostClients, SettingSnapshots, Settings!RateSettings
<1> HIDE DEF local, shown, staged
<1>10. client' \in HostClients /\ client'.roster = client'.local
  BY <1>5, <1>6, <1>7, <1>8, <1>9 DEF HostClients
<1> QED
  BY <1>2, <1>3, <1>10 DEF SettingsInv, ServerSound, ClientSound, WaySound

LEMMA LossesInv ==
  ASSUME Settings!ConstantsAssumption, SettingsInv, Settings!LoseRequest \/ Settings!LoseResult
  PROVE  SettingsInv'
<1>1. /\ losses < MaxLosses /\ losses' = losses + 1 /\ UNCHANGED <<server, client, link, changes>>
      /\ \/ up # <<>> /\ up' = Tail(up) /\ down' = down
         \/ down # <<>> /\ down' = Tail(down) /\ up' = up
  BY DEF Settings!LoseRequest, Settings!LoseResult
<1>2. up' \in Seq(SettingRequests) /\ down' \in Seq(SettingResults \cup SettingSnapshots)
  <2>1. up \in Seq(SettingRequests) /\ down \in Seq(SettingResults \cup SettingSnapshots)
    BY DEF SettingsInv, WaySound
  <2>2. CASE up # <<>> /\ up' = Tail(up) /\ down' = down
    BY <2>1, <2>2
  <2>3. CASE down # <<>> /\ down' = Tail(down) /\ up' = up
    <3> DEFINE M == SettingResults \cup SettingSnapshots
    <3> HIDE DEF M
    <3>1. down \in Seq(M)
      BY <2>1 DEF M
    <3>2. Tail(down) \in Seq(M)
      BY <2>3, <3>1
    <3> QED
      BY <2>1, <2>3, <3>2 DEF M
  <2> QED
    BY <1>1, <2>2, <2>3
<1>3. losses' \in 0 .. MaxLosses
  BY <1>1 DEF SettingsInv, WaySound, Settings!ConstantsAssumption
<1> QED
  BY <1>1, <1>2, <1>3 DEF SettingsInv, ServerSound, ClientSound, WaySound

LEMMA SettingsInitInv ==
  ASSUME Settings!ConstantsAssumption, Settings!Init
  PROVE  SettingsInv
<1>1. PICK rate \in Rates :
        server = [sync |-> Settings!Sync, link |-> Settings!Links, flags |-> [f \in Flags |-> 0],
                  live |-> [k \in Settings!RateKeys |-> rate], pending |-> Settings!NoRates]
  BY DEF Settings!Init
<1>2. client = [local |-> Settings!Sync, authority |-> Settings!Sync, roster |-> Settings!Sync,
                linkRoster |-> Settings!Links, flags |-> server.flags, live |-> server.live,
                staged |-> Settings!NoRates, target |-> Me, panel |-> Settings!NoLink,
                panelAuthority |-> Settings!NoLink]
      /\ link = Settings!NoLink /\ up = <<>> /\ down = <<>> /\ changes = 0 /\ losses = 0
  BY DEF Settings!Init
<1>3. /\ Settings!Sync \in Settings!SyncSettings /\ Settings!NoLink \in Settings!LinkSettings
      /\ Settings!Links \in [Settings!Targets -> Settings!LinkSettings]
      /\ Settings!NoRates \in Settings!RateSettings /\ Me \in Settings!Targets
      /\ [f \in Flags |-> 0] \in [Flags -> Settings!Values]
      /\ [k \in Settings!RateKeys |-> rate] \in [Settings!RateKeys -> Rates]
  BY DEF Settings!Sync, Settings!NoLink, Settings!Links, Settings!NoRates, Settings!SyncSettings,
         Settings!LinkSettings, Settings!RateSettings, Settings!Values, Settings!Targets
<1>4. server \in Servers
  BY <1>1, <1>3 DEF Servers
<1>5. server.live["snapshot"] <= server.live["tick"]
  <2>1. server.live = [k \in Settings!RateKeys |-> rate] /\ rate \in Int
    BY <1>1, KeysApart
  <2> QED
    BY <2>1 DEF Settings!RateKeys
<1>6. client \in HostClients /\ client.roster = client.local
  <2>1. server.flags = [f \in Flags |-> 0] /\ server.live = [k \in Settings!RateKeys |-> rate]
    BY <1>1
  <2> QED
    BY <1>2, <1>3, <2>1 DEF HostClients
<1>7. WaySound
  BY <1>2, <1>3 DEF WaySound, Settings!ConstantsAssumption
<1> QED
  BY <1>4, <1>5, <1>6, <1>7 DEF SettingsInv, ServerSound, ClientSound

LEMMA SettingsStepInv ==
  ASSUME Settings!ConstantsAssumption, SettingsInv, [Settings!Next]_settingsVars
  PROVE  SettingsInv'
<1>1. CASE Settings!TheHostChanges
  BY <1>1, ChangeSyncInv, ChangeFlagInv, ChangeRateInv, ChangeLinkInv, ChangeGlobalLatencyInv,
     SelectTargetInv DEF Settings!TheHostChanges
<1>2. CASE Settings!HandleRequest \/ Settings!CommitRates \/ Settings!Publish
  BY <1>2, HandleRequestInv, CommitRatesInv, PublishSettingsInv
<1>3. CASE Settings!ReceiveResult \/ Settings!ReceiveSnapshot
  BY <1>3, ReceiveResultInv, ReceiveSettingsInv
<1>4. CASE Settings!LoseRequest \/ Settings!LoseResult
  BY <1>4, LossesInv
<1>5. CASE UNCHANGED settingsVars
  BY <1>5 DEF settingsVars, SettingsInv, ServerSound, ClientSound, WaySound
<1> QED
  BY <1>1, <1>2, <1>3, <1>4, <1>5 DEF Settings!Next

\* Whatever is asked, refused, lost and heard late: every copy of a setting is a value it may
\* have, the snapshot rate that is live is never above the tick rate (applyTickRateHz,
\* applySnapshotRateHz), and what the roster shows of the player is what he plays with.
THEOREM SettingsInvariant == ViewSpec => []SettingsInv
<1>1. Settings!ConstantsAssumption
  BY SettingsAssumption
<1>2. ViewInit => SettingsInv
  BY <1>1, SettingsInitInv DEF ViewInit
<1>3. SettingsInv /\ [ViewNext]_<<vars, settingsVars, panelVars, views>> => SettingsInv'
  <2>1. [ViewNext]_<<vars, settingsVars, panelVars, views>> => [Settings!Next]_settingsVars
    BY DEF ViewNext
  <2> QED
    BY <1>1, <2>1, SettingsStepInv
<1> QED
  BY <1>2, <1>3, PTL DEF ViewSpec

\* The settings a player sees of himself are those he plays with, for any number of bots,
\* settings and messages under way (applyAuthoritativeLocalParticipantSettings).
THEOREM ShownSettingsAreUsed == ViewSpec => []ShownIsUsed
<1>1. SettingsInv => ShownIsUsed
  BY DEF SettingsInv, ClientSound, ShownIsUsed, Settings!ShownIsUsed
<1> QED
  BY <1>1, SettingsInvariant, PTL

\* Every copy of a runtime setting keeps its type, for every value of the constants.
THEOREM SettingsTyped == ViewSpec => []Settings!TypeOK
<1>1. SettingsInv => Settings!TypeOK
  BY DEF SettingsInv, ServerSound, ClientSound, WaySound, Servers, HostClients,
         Settings!TypeOK, Settings!TypeOKServer, Settings!TypeOKClient
<1> QED
  BY <1>1, SettingsInvariant, PTL
=============================================================================
