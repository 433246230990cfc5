-------------------------- MODULE ApplicationProofs --------------------------
(***************************************************************************)
(* The program around the sessions: its menu launches what it shows, no    *)
(* character and no recording is lost, the replay studio and the level     *)
(* editor stay sound, and so does the shell that shows them, whatever      *)
(* screens are used in whatever order and wherever the program crashes.    *)
(* One section per screen gives its invariant and the keys that keep it;   *)
(* the last joins them, for a screen is used only while it is shown.       *)
(***************************************************************************)
EXTENDS Application, FiniteSetTheorems, SequenceTheorems, WellFoundedInduction, TLAPS

-----------------------------------------------------------------------------
(***************************************************************************)
(* Numbers and listings: finite sets have a least, a greatest and, in a    *)
(* total order, a listing.                                                 *)
(***************************************************************************)
LEMMA LeastNatural ==
  ASSUME NEW S \in SUBSET Nat, S # {}
  PROVE  \E x \in S : \A y \in S : x <= y
<1> DEFINE R == OpToRel(<, Nat)
<1>1. IsWellFoundedOn(R, Nat)
  BY NatLessThanWellFounded
<1>2. \A x, y \in Nat : y < x => <<y, x>> \in R
  BY DEF OpToRel
<1> HIDE DEF R
<1>3. S \subseteq Nat
  OBVIOUS
<1>4. PICK x \in S : \A y \in S : ~(<<y, x>> \in R)
  BY <1>1, <1>3, WFMin, Zenon
<1>5. \A y \in S : ~(y < x)
  BY <1>2, <1>3, <1>4, Zenon
<1>6. \A y \in S : x <= y
  <2> TAKE y \in S
  <2>1. ~(y < x) /\ x \in Nat /\ y \in Nat
    BY <1>3, <1>5
  <2> QED
    BY <2>1
<1> QED
  BY <1>6

LEMMA LeastOf ==
  ASSUME NEW S \in SUBSET Nat, S # {}
  PROVE  Min(S) \in S /\ \A y \in S : Min(S) <= y
<1>1. PICK x \in S : \A y \in S : x <= y
  BY LeastNatural
<1> QED
  BY <1>1, Zenon DEF Min

LEMMA GreatestOf ==
  ASSUME NEW n \in Nat, NEW S \in SUBSET (0..n), S # {}
  PROVE  Max(S) \in S /\ \A p \in S : Max(S) >= p
<1> DEFINE Below == {k \in Nat : \E p \in S : k = n - p}
<1>1. \A p \in S : p \in Int /\ n - p \in Nat
  OBVIOUS
<1>2. Below \in SUBSET Nat /\ Below # {}
  <2>1. PICK p \in S : TRUE
    OBVIOUS
  <2>2. n - p \in Below
    BY <1>1
  <2> QED
    BY <2>2
<1>3. PICK k \in Below : \A m \in Below : k <= m
  <2> HIDE DEF Below
  <2> QED
    BY <1>2, LeastNatural
<1>4. PICK x \in S : k = n - x
  OBVIOUS
<1>5. \A p \in S : x >= p
  <2> TAKE p \in S
  <2>1. k <= n - p
    BY <1>1, <1>3
  <2> QED
    BY <1>1, <1>4, <2>1
<1> QED
  BY <1>5, Zenon DEF Max

LEMMA TwoNumbers ==
  ASSUME NEW a \in Nat, NEW b \in Nat
  PROVE  /\ Min({a, b}) = IF a <= b THEN a ELSE b
         /\ Max({a, b}) = IF a <= b THEN b ELSE a
<1>1. Min({a, b}) \in {a, b} /\ \A y \in {a, b} : Min({a, b}) <= y
  BY LeastOf
<1> DEFINE n == IF a <= b THEN b ELSE a
<1>2. n \in Nat /\ {a, b} \in SUBSET (0..n) /\ {a, b} # {}
  OBVIOUS
<1> HIDE DEF n
<1>3. Max({a, b}) \in {a, b} /\ \A y \in {a, b} : Max({a, b}) >= y
  BY <1>2, GreatestOf
<1> QED
  BY <1>1, <1>3

(***************************************************************************)
(* Listings: any finite set can be listed in a strict total order.         *)
(***************************************************************************)
TotalOn(R, S) ==
  /\ \A x, y \in S : x # y => <<x, y>> \in R \/ <<y, x>> \in R
  /\ \A x, y, z \in S : <<x, y>> \in R /\ <<y, z>> \in R => <<x, z>> \in R

LEMMA LastExists ==
  ASSUME NEW S, IsFiniteSet(S), S # {}, NEW R, TotalOn(R, S)
  PROVE  \E x \in S : \A y \in S : y # x => <<y, x>> \in R
<1> DEFINE HasLast(T) == \E x \in T : \A y \in T : y # x => <<y, x>> \in R
           Bad == {n \in Nat : \E T \in SUBSET S : T # {} /\ IsFiniteSet(T) /\ Cardinality(T) = n /\ ~HasLast(T)}
<1> SUFFICES ASSUME ~HasLast(S) PROVE FALSE
  OBVIOUS
<1>1. Bad \in SUBSET Nat /\ Bad # {}
  <2>1. Cardinality(S) \in Bad
    BY FS_CardinalityType
  <2> QED
    BY <2>1
<1>2. PICK n \in Bad : \A k \in Bad : n <= k
  <2> HIDE DEF Bad
  <2> QED
    BY <1>1, LeastNatural
<1>3. PICK T \in SUBSET S : T # {} /\ IsFiniteSet(T) /\ Cardinality(T) = n /\ ~HasLast(T)
  OBVIOUS
<1>4. PICK x \in T : TRUE
  BY <1>3
<1> DEFINE U == T \ {x}
<1>5. IsFiniteSet(U) /\ Cardinality(U) = n - 1 /\ n \in Nat /\ U \in SUBSET S
  BY <1>2, <1>3, <1>4, FS_RemoveElement, FS_CardinalityType
<1>6. Cardinality(U) \in Nat
  BY <1>5, FS_CardinalityType
<1>7. U = {} \/ HasLast(U)
  <2> SUFFICES ASSUME U # {}, ~HasLast(U) PROVE FALSE
    OBVIOUS
  <2>1. n - 1 \in Bad
    <3>1. n - 1 \in Nat
      BY <1>5, <1>6
    <3>2. \E V \in SUBSET S : V # {} /\ IsFiniteSet(V) /\ Cardinality(V) = n - 1 /\ ~HasLast(V)
      <4> HIDE DEF U, HasLast
      <4> QED
        BY <1>5
    <3> HIDE DEF HasLast
    <3> QED
      BY <3>1, <3>2
  <2> HIDE DEF Bad
  <2> QED
    BY <1>2, <1>5, <2>1
<1>8. CASE U = {}
  <2>1. \A y \in T : y = x
    BY <1>8
  <2> QED
    BY <1>3, <1>4, <2>1
<1>9. CASE HasLast(U)
  <2>1. PICK y \in U : \A z \in U : z # y => <<z, y>> \in R
    BY <1>9
  <2>2. x \in S /\ y \in S /\ x # y /\ x \in T /\ y \in T
    BY <1>4, <2>1
  <2>3. CASE <<x, y>> \in R
    <3>1. \A z \in T : z # y => <<z, y>> \in R
      BY <2>1, <2>3
    <3> QED
      BY <1>3, <2>2, <3>1
  <2>4. CASE <<y, x>> \in R
    <3>1. \A z \in T : z # x => <<z, x>> \in R
      <4> TAKE z \in T
      <4> HAVE z # x
      <4>1. CASE z = y
        BY <2>4, <4>1
      <4>2. CASE z # y
        <5>1. z \in U /\ <<z, y>> \in R /\ z \in S
          BY <2>1, <4>2
        <5> QED
          BY <2>2, <2>4, <5>1, Zenon DEF TotalOn
      <4> QED
        BY <4>1, <4>2
    <3> QED
      BY <1>3, <2>2, <3>1
  <2> QED
    BY <2>2, <2>3, <2>4, Zenon DEF TotalOn
<1> QED
  BY <1>7, <1>8, <1>9

Lists(s, S, R) ==
  /\ s \in [1..Cardinality(S) -> S] /\ ToSet(s) = S
  /\ \A i, j \in DOMAIN s : i < j => <<s[i], s[j]>> \in R

LEMMA ListingExists ==
  ASSUME NEW S, IsFiniteSet(S), NEW R, TotalOn(R, S)
  PROVE  \E s : Lists(s, S, R)
<1> DEFINE Bad == {n \in Nat : \E T \in SUBSET S : IsFiniteSet(T) /\ Cardinality(T) = n /\ ~\E s : Lists(s, T, R)}
<1> SUFFICES ASSUME ~\E s : Lists(s, S, R) PROVE FALSE
  OBVIOUS
<1>1. Bad \in SUBSET Nat /\ Bad # {}
  <2>1. Cardinality(S) \in Bad
    BY FS_CardinalityType
  <2> QED
    BY <2>1
<1>2. PICK n \in Bad : \A k \in Bad : n <= k
  <2> HIDE DEF Bad
  <2> QED
    BY <1>1, LeastNatural
<1>3. PICK T \in SUBSET S : IsFiniteSet(T) /\ Cardinality(T) = n /\ ~\E s : Lists(s, T, R)
  OBVIOUS
<1>4. CASE T = {}
  <2> DEFINE s == [i \in 1..0 |-> 0]
  <2>1. s \in [1..0 -> T] /\ ToSet(s) = {} /\ DOMAIN s = {}
    BY DEF ToSet
  <2>2. Cardinality(T) = 0
    BY <1>4, FS_EmptySet
  <2> HIDE DEF s
  <2>3. Lists(s, T, R)
    BY <1>4, <2>1, <2>2 DEF Lists
  <2> QED
    BY <1>3, <2>3
<1>5. CASE T # {}
  <2>0. TotalOn(R, T)
    BY Zenon DEF TotalOn
  <2>1. PICK x \in T : \A y \in T : y # x => <<y, x>> \in R
    BY <1>3, <1>5, <2>0, LastExists
  <2> DEFINE U == T \ {x}
  <2>2. IsFiniteSet(U) /\ Cardinality(U) = n - 1 /\ n \in Nat /\ U \in SUBSET S
    BY <1>2, <1>3, FS_RemoveElement, FS_CardinalityType
  <2>3. Cardinality(U) \in Nat
    BY <2>2, FS_CardinalityType
  <2>4. \E s : Lists(s, U, R)
    <3> SUFFICES ASSUME ~\E s : Lists(s, U, R) PROVE FALSE
      OBVIOUS
    <3>1. n - 1 \in Bad
      <4> HIDE DEF U
      <4> QED
        BY <2>2, <2>3
    <3> QED
      BY <1>2, <2>2, <3>1
  <2>5. PICK s : Lists(s, U, R)
    BY <2>4
  <2> DEFINE t == [i \in 1..n |-> IF i = n THEN x ELSE s[i]]
  <2>6. /\ s \in [1..(n - 1) -> U] /\ DOMAIN s = 1..(n - 1)
        /\ \A i, j \in 1..(n - 1) : i < j => <<s[i], s[j]>> \in R
        /\ \A y \in U : \E i \in 1..(n - 1) : s[i] = y
    BY <2>2, <2>5 DEF Lists, ToSet
  <2>7. n >= 1
    BY <2>2, <2>3
  <2>8. t \in [1..n -> T]
    BY <2>2, <2>6, <2>7
  <2>9. ToSet(t) = T
    <3>1. t[n] = x
      BY <2>7, <2>2
    <3>2. \A i \in 1..(n - 1) : i \in 1..n /\ t[i] = s[i]
      BY <2>2
    <3>3. \A y \in T : \E i \in 1..n : t[i] = y
      <4> TAKE y \in T
      <4> HIDE DEF t
      <4>1. CASE y = x
        BY <3>1, <4>1, <2>7, <2>2
      <4>2. CASE y # x
        BY <3>2, <4>2, <2>6
      <4> QED
        BY <4>1, <4>2
    <3> HIDE DEF t
    <3> QED
      BY <2>8, <3>3 DEF ToSet
  <2>10. \A i, j \in 1..n : i < j => <<t[i], t[j]>> \in R
    <3> TAKE i, j \in 1..n
    <3> HAVE i < j
    <3>1. i \in 1..(n - 1) /\ t[i] = s[i] /\ s[i] \in U
      BY <2>2, <2>6
    <3>2. CASE j = n
      BY <2>1, <3>1, <3>2
    <3>3. CASE j # n
      <4>1. j \in 1..(n - 1) /\ t[j] = s[j]
        BY <2>2, <3>3
      <4> QED
        BY <2>6, <3>1, <4>1
    <3> QED
      BY <3>2, <3>3
  <2> HIDE DEF t
  <2>11. Lists(t, T, R)
    BY <1>3, <2>8, <2>9, <2>10 DEF Lists
  <2> QED
    BY <1>3, <2>11
<1> QED
  BY <1>4, <1>5

(***************************************************************************)
(* The session menu.                                                       *)
(***************************************************************************)

-----------------------------------------------------------------------------
(***************************************************************************)
(* The session menu.                                                       *)
(***************************************************************************)
Entries == [who : Advertisers, label : Labels]
FieldNames == {"host", "port", "name", "profile", "label", "tick", "snapshot", "cap", "shot", "bots"}
Top == IF Profiles > Rows THEN Profiles - Rows + 1 ELSE 1

Menus ==
  [open : {TRUE}, mode : {"host", "join"}, step : {"setup", "team"}, subview : {"browser", "direct"},
   advanced : BOOLEAN, field : FieldNames \cup {"none"}, busy : BOOLEAN, slot : Nat,
   host : Texts, port : Ports, name : BOOLEAN, cap : CapTexts, bots : BotTexts,
   tick : ToSet(Rates), snapshot : ToSet(Rates), team : ToSet(Teams),
   profile : 1..Profiles, first : 1..Top, dropdown : BOOLEAN,
   listed : Seq(Entries), selected : Nat, chosen : Texts]

Focused(m) ==
  /\ m.field # "none" => m.field \in Shown(m)
  /\ m.dropdown => m.mode = "host" /\ m.step = "setup"
Browsing(m) == m.selected # 0 => Endpoint(m.listed[m.selected]) = m.chosen

\* What is submitted needs no default and no adjustment.
Ready(m) ==
  m.step = "team" =>
    /\ m.mode = "host" => m.port # "bad" /\ m.slot > 0 /\ m.cap >= Locals
    /\ m.mode = "join" /\ m.subview = "direct" => m.host.port = "none" /\ Resolved(m) # NoEndpoint

MenuOk(m) ==
  /\ m \in Menus /\ Focused(m) /\ Browsing(m) /\ m.snapshot <= m.tick /\ Ready(m)

MenuInv == menu = MenuClosed \/ MenuOk(menu)

LEMMA RateFacts ==
  /\ Rates \in Seq(Nat) /\ Len(Rates) \in Nat /\ Len(Rates) >= 1 /\ DOMAIN Rates = 1..Len(Rates)
  /\ ToSet(Rates) \subseteq Nat
  /\ DefaultTick \in ToSet(Rates) /\ DefaultSnapshot \in ToSet(Rates)
  /\ \A r \in ToSet(Rates) : \E i \in 1..Len(Rates) : Rates[i] = r
<1>1. Rates \in Seq(Nat) /\ Len(Rates) \in Nat /\ DOMAIN Rates = 1..Len(Rates)
  BY MenuAssumption
<1>2. DefaultTick \in ToSet(Rates) /\ DefaultSnapshot \in ToSet(Rates)
  BY MenuAssumption
<1>3. ToSet(Rates) = {Rates[i] : i \in 1..Len(Rates)}
  BY <1>1 DEF ToSet
<1>4. \A i \in 1..Len(Rates) : Rates[i] \in Nat
  BY <1>1
<1> QED
  BY <1>1, <1>2, <1>3, <1>4

LEMMA FieldsShown ==
  ASSUME NEW m \in Menus
  PROVE  /\ FieldOrder(m) \in Seq(FieldNames) /\ Len(FieldOrder(m)) >= 1
         /\ \A i \in 1..Len(FieldOrder(m)) : FieldOrder(m)[i] \in ToSet(FieldOrder(m))
         /\ "profile" \in ToSet(FieldOrder(m)) => m.mode = "host"
         /\ ToSet(FieldOrder(m)) \subseteq FieldNames
<1> DEFINE long == <<"port", "name", "profile", "label", "tick", "snapshot", "cap", "shot", "bots">>
           short == <<"port", "name", "profile", "bots">>
           direct == <<"host", "port", "name">>
           browser == <<"name">>
           o == FieldOrder(m)
<1>1. /\ long \in Seq(FieldNames) /\ Len(long) >= 1
      /\ short \in Seq(FieldNames) /\ Len(short) >= 1
      /\ direct \in Seq(FieldNames) /\ Len(direct) = 3 /\ Len(direct) >= 1
      /\ browser \in Seq(FieldNames) /\ Len(browser) = 1 /\ Len(browser) >= 1
  BY DEF FieldNames
<1>2. /\ o \in {long, short, direct, browser}
      /\ m.mode # "host" => o \in {direct, browser}
  BY DEF FieldOrder
<1>3. \A i \in 1..3 : direct[i] # "profile"
  OBVIOUS
<1>4. \A i \in 1..1 : browser[i] # "profile"
  OBVIOUS
<1>5. o \in Seq(FieldNames) /\ Len(o) >= 1
  <2> HIDE DEF long, short, direct, browser, o
  <2>1. o = long \/ o = short \/ o = direct \/ o = browser
    BY <1>2, Zenon
  <2> QED
    BY <1>1, <2>1, Zenon
<1>6. m.mode # "host" => \A i \in 1..Len(o) : o[i] # "profile"
  <2> HIDE DEF long, short, direct, browser, o
  <2> QED
    BY <1>1, <1>2, <1>3, <1>4
<1> HIDE DEF o
<1>7. ToSet(o) = {o[i] : i \in 1..Len(o)}
  BY <1>5 DEF ToSet
<1>8. ToSet(o) \subseteq FieldNames
  BY <1>5, <1>7
<1>9. \A i \in 1..Len(o) : o[i] \in ToSet(o)
  BY <1>7
<1>10. m.mode # "host" => "profile" \notin ToSet(o)
  BY <1>6, <1>7
<1>11. m.mode \in {"host", "join"}
  BY DEF Menus
<1> QED
  BY <1>5, <1>8, <1>9, <1>10 DEF o

(* The browser. *)

LEMMA SortedEntries ==
  ASSUME NEW S \in SUBSET Entries, IsFiniteSet(S)
  PROVE  Sorted(S) \in Seq(Entries) /\ ToSet(Sorted(S)) = S
<1> DEFINE R == {p \in Entries \X Entries : Above(p[1], p[2])}
           n == Cardinality(S)
           IsListing(s) == ToSet(s) = S /\ \A i, j \in DOMAIN s : i < j => Above(s[i], s[j])
<1>1. \A e, f \in Entries : (<<e, f>> \in R) <=> Above(e, f)
  OBVIOUS
<1>2. \A e \in Entries : e.who \in Int /\ e.label \in Int /\ e = [who |-> e.who, label |-> e.label]
  <2>1. \A e \in Entries : e.who \in Advertisers /\ e.label \in Labels
    BY DEF Entries
  <2>2. \A e \in Entries : e = [who |-> e.who, label |-> e.label]
    BY DEF Entries
  <2>3. Advertisers \subseteq Int /\ Labels \subseteq Int
    BY MenuAssumption, Zenon
  <2> HIDE DEF Entries
  <2> QED
    BY <2>1, <2>2, <2>3
<1>3. \A e, f \in Entries : e # f => Above(e, f) \/ Above(f, e)
  <2> TAKE e, f \in Entries
  <2> HAVE e # f
  <2>1. e.who # f.who \/ e.label # f.label
    BY <1>2
  <2> QED
    BY <1>2, <2>1 DEF Above
<1>4. \A e, f, g \in Entries : Above(e, f) /\ Above(f, g) => Above(e, g)
  <2> TAKE e, f, g \in Entries
  <2> QED
    BY <1>2 DEF Above
<1>5. TotalOn(R, S)
  <2> HIDE DEF R
  <2> QED
    BY <1>1, <1>3, <1>4 DEF TotalOn
<1>6. PICK s : Lists(s, S, R)
  <2> HIDE DEF R
  <2> QED
    BY <1>5, ListingExists
<1>7. s \in [1..n -> S] /\ IsListing(s)
  <2>1. s \in [1..n -> S] /\ ToSet(s) = S
    BY <1>6 DEF Lists
  <2>2. \A i, j \in DOMAIN s : i < j => <<s[i], s[j]>> \in R
    BY <1>6 DEF Lists
  <2>3. \A i \in DOMAIN s : s[i] \in Entries
    BY <2>1
  <2> HIDE DEF R
  <2> QED
    BY <1>1, <2>1, <2>2, <2>3
<1>8. Sorted(S) = CHOOSE t \in [1..n -> S] : IsListing(t)
  BY DEF Sorted
<1> HIDE DEF IsListing
<1>9. Sorted(S) \in [1..n -> S] /\ IsListing(Sorted(S))
  BY <1>7, <1>8, Zenon
<1>10. n \in Nat
  BY FS_CardinalityType
<1>11. Sorted(S) \in Seq(Entries)
  <2> DEFINE t == Sorted(S)
  <2>1. t \in [1..n -> S]
    BY <1>9
  <2> HIDE DEF t, n
  <2>2. t \in Seq(S)
    BY <1>10, <2>1
  <2>3. t \in Seq(Entries)
    BY <2>2
  <2> QED
    BY <2>3 DEF t
<1> QED
  BY <1>9, <1>11, Zenon DEF IsListing

LEMMA ListedEntries ==
  ASSUME NEW listed \in Seq(Entries)
  PROVE  IsFiniteSet(ToSet(listed)) /\ ToSet(listed) \in SUBSET Entries
<1>1. ToSet(listed) = {listed[i] : i \in 1..Len(listed)}
  BY DEF ToSet
<1>2. IsFiniteSet(1..Len(listed))
  BY FS_Interval
<1>3. IsFiniteSet(ToSet(listed))
  <2>1. listed \in Surjection(1..Len(listed), ToSet(listed))
    <3>1. listed \in [1..Len(listed) -> ToSet(listed)]
      BY <1>1
    <3> QED
      BY <1>1, <3>1 DEF Surjection
  <2> QED
    BY <1>2, <2>1, FS_Surjection
<1> QED
  BY <1>1, <1>3

LEMMA Listings ==
  ASSUME NEW listed \in Seq(Entries), NEW who \in Advertisers, NEW label \in Labels
  PROVE  /\ \A compatible \in BOOLEAN : Upserted(listed, who, label, compatible) \in Seq(Entries)
         /\ Expired(listed, who) \in Seq(Entries)
<1> DEFINE others == {e \in ToSet(listed) : e.who # who}
           more == others \cup {[who |-> who, label |-> label]}
<1>1. IsFiniteSet(ToSet(listed)) /\ ToSet(listed) \in SUBSET Entries
  BY ListedEntries
<1>2. IsFiniteSet(others) /\ others \in SUBSET Entries /\ others \in SUBSET ToSet(listed)
  BY <1>1, FS_Subset
<1>3. [who |-> who, label |-> label] \in Entries
  BY DEF Entries
<1>4. IsFiniteSet(more) /\ more \in SUBSET Entries
  <2> HIDE DEF others
  <2> QED
    BY <1>2, <1>3, FS_AddElement
<1>5. Sorted(others) \in Seq(Entries) /\ Sorted(more) \in Seq(Entries)
  <2> HIDE DEF others, more
  <2> QED
    BY <1>2, <1>4, SortedEntries
<1>6. Expired(listed, who) = Sorted(others)
  BY DEF Expired
<1>7. \A compatible \in BOOLEAN :
        Upserted(listed, who, label, compatible) = IF compatible THEN Sorted(more) ELSE Sorted(others)
  BY DEF Upserted
<1> HIDE DEF others, more
<1> QED
  BY <1>5, <1>6, <1>7

LEMMA ReconciledOk ==
  ASSUME NEW m, MenuOk(m), NEW l \in Seq(Entries)
  PROVE  LET n == Reconciled([m EXCEPT !.listed = l]) IN
         MenuOk(n) /\ n.busy = m.busy /\ n.step = m.step
<1> DEFINE c == [m EXCEPT !.listed = l]
           n == Reconciled(c)
           rows == RowsOf(c, c.chosen)
<1>1. m \in Menus
  BY DEF MenuOk
<1>2. c \in Menus /\ c.chosen = m.chosen /\ c.listed = l
  BY <1>1 DEF Menus
<1>3. rows \in SUBSET Nat /\ \A i \in rows : Endpoint(l[i]) = c.chosen
  BY <1>2 DEF RowsOf
<1>4. rows # {} => Min(rows) \in rows
  <2> HIDE DEF rows
  <2> QED
    BY <1>3, LeastOf
<1> DEFINE i == IF rows = {} THEN 0 ELSE Min(rows)
           p == IF rows = {} THEN NoEndpoint ELSE c.chosen
<1>5. n = [c EXCEPT !.selected = i, !.chosen = p]
  <2> HIDE DEF rows
  <2>1. n = IF rows = {} THEN [c EXCEPT !.selected = 0, !.chosen = NoEndpoint]
            ELSE [c EXCEPT !.selected = Min(rows)]
    BY DEF Reconciled, rows
  <2> HIDE DEF n, c
  <2>2. CASE rows = {}
    BY <2>1, <2>2
  <2>3. CASE rows # {}
    <3>1. [c EXCEPT !.selected = Min(rows)] = [c EXCEPT !.selected = Min(rows), !.chosen = c.chosen]
      BY <1>2 DEF Menus
    <3> QED
      BY <2>1, <2>3, <3>1
  <2> QED
    BY <2>2, <2>3
<1>6. i \in Nat /\ p \in Texts
  <2>1. NoEndpoint \in Texts
    BY DEF NoEndpoint, Texts, Hosts, Ports
  <2>2. c.chosen \in Texts
    BY <1>2 DEF Menus
  <2> HIDE DEF rows
  <2> QED
    BY <1>3, <1>4, <2>1, <2>2
<1>7. i # 0 => Endpoint(l[i]) = p
  <2> HIDE DEF rows
  <2> QED
    BY <1>3, <1>4
<1> HIDE DEF i, p, n, rows
<1>8. n = [m EXCEPT !.listed = l, !.selected = i, !.chosen = p]
  BY <1>5
<1>9. /\ n \in Menus /\ n.listed = l /\ n.selected = i /\ n.chosen = p /\ n.busy = m.busy
      /\ n.field = m.field /\ n.dropdown = m.dropdown /\ n.mode = m.mode /\ n.step = m.step
      /\ n.subview = m.subview /\ n.advanced = m.advanced /\ n.snapshot = m.snapshot /\ n.tick = m.tick
      /\ n.port = m.port /\ n.host = m.host /\ n.slot = m.slot /\ n.cap = m.cap
  BY <1>1, <1>6, <1>8 DEF Menus
<1> HIDE DEF c
<1>10. MenuOk(n)
  BY <1>7, <1>9 DEF MenuOk, Focused, Shown, FieldOrder, Browsing, Ready, Resolved
<1> QED
  BY <1>9, <1>10 DEF n, c

(* Rates. *)

LEMMA BesideIsOne ==
  ASSUME NEW rates \in Seq(Nat), Len(rates) >= 1, NEW rate, NEW by \in Int
  PROVE  \E i \in 1..Len(rates) : Beside(rates, rate, by) = rates[i]
<1> DEFINE n == Len(rates)
           found == {1} \cup {i \in 1..n : rates[i] = rate}
           at == Max(found)
           k == ((at - 1 + by) % n) + 1
<1>1. n \in Nat /\ n >= 1 /\ found \in SUBSET (0..n) /\ found # {} /\ found \in SUBSET (1..n)
  <2>1. n \in Nat /\ n >= 1
    OBVIOUS
  <2> HIDE DEF n
  <2> QED
    BY <2>1
<1>2. at \in 1..n
  <2> HIDE DEF found, n
  <2>1. Max(found) \in found
    BY <1>1, GreatestOf
  <2> QED
    BY <1>1, <2>1
<1>3. k \in 1..n
  <2> HIDE DEF at, n
  <2> DEFINE a == at - 1 + by
  <2>1. a \in Int
    BY <1>1, <1>2
  <2> HIDE DEF a
  <2>2. a % n \in 0..(n - 1)
    BY <1>1, <2>1
  <2>3. k = (a % n) + 1
    BY DEF a
  <2> HIDE DEF k
  <2> QED
    BY <1>1, <2>2, <2>3
<1>4. Beside(rates, rate, by) = rates[k]
  BY DEF Beside
<1> HIDE DEF k, n
<1> QED
  BY <1>3, <1>4 DEF n

LEMMA ChoicesUpTo ==
  ASSUME NEW tick \in ToSet(Rates)
  PROVE  /\ RatesUpTo(tick) \in Seq(Nat) /\ Len(RatesUpTo(tick)) >= 1
         /\ \A i \in 1..Len(RatesUpTo(tick)) :
              RatesUpTo(tick)[i] \in ToSet(Rates) /\ RatesUpTo(tick)[i] <= tick
<1> DEFINE n == Len(Rates)
           below == {i \in 1..n : Rates[i] <= tick}
           k == Max(below)
           s == RatesUpTo(tick)
<1>1. /\ n \in Nat /\ DOMAIN Rates = 1..n /\ tick \in Nat
      /\ \A i \in 1..n : Rates[i] \in Nat /\ Rates[i] \in ToSet(Rates)
  <2>1. ToSet(Rates) = {Rates[i] : i \in 1..n}
    BY RateFacts DEF ToSet
  <2> QED
    BY <2>1, RateFacts
<1>2. PICK j \in 1..n : Rates[j] = tick
  BY RateFacts
<1>3. below \in SUBSET (0..n) /\ j \in below
  <2> HIDE DEF n
  <2> QED
    BY <1>1, <1>2
<1>4. k \in below
  <2> HIDE DEF below, n
  <2> QED
    BY <1>1, <1>3, GreatestOf
<1>5. k \in 1..n /\ Rates[k] <= tick
  <2> HIDE DEF k, n
  <2> QED
    BY <1>4
<1>6. s = SubSeq(Rates, 1, k)
  BY DEF RatesUpTo
<1> HIDE DEF k, s
<1>7. s \in Seq(Nat) /\ Len(s) = k /\ \A i \in 1..k : s[i] = Rates[i]
  <2>1. /\ Rates \in Seq(Nat) /\ 1 \in 1..(Len(Rates) + 1) /\ k \in (1 - 1)..Len(Rates)
        /\ k - 1 + 1 = k
    BY <1>1, <1>5, RateFacts
  <2>2. /\ s \in Seq(Nat) /\ Len(s) = k - 1 + 1
        /\ \A i \in 1..(k - 1 + 1) : s[i] = Rates[1 + i - 1]
    BY <1>6, <2>1, SubSeqProperties
  <2>3. \A i \in 1..k : 1 + i - 1 = i
    OBVIOUS
  <2> QED
    BY <2>1, <2>2, <2>3
<1>8. \A i \in 1..k : Rates[i] <= tick /\ i \in 1..n
  <2> TAKE i \in 1..k
  <2>1. i \in 1..n /\ k \in 1..n
    BY <1>1, <1>5
  <2>2. i = k \/ Rates[i] < Rates[k]
    <3>1. i = k \/ i < k
      BY <1>5, <1>1
    <3> QED
      BY <2>1, <3>1, MenuAssumption
  <2>3. Rates[i] \in Nat /\ Rates[k] \in Nat
    BY <1>1, <2>1
  <2> QED
    BY <1>1, <1>5, <2>1, <2>2, <2>3
<1>9. k >= 1
  BY <1>1, <1>5
<1> HIDE DEF n
<1>10. \A i \in 1..k : s[i] \in ToSet(Rates) /\ s[i] <= tick
  BY <1>1, <1>7, <1>8
<1>11. s \in Seq(Nat) /\ Len(s) >= 1
  BY <1>7, <1>9
<1> QED
  BY <1>7, <1>10, <1>11, Zenon DEF s

(* Keys and buttons. *)

\* A menu of which only fields and choices of the setup step have changed.
Alike(m, n) ==
  /\ n.mode = m.mode /\ n.step = m.step /\ n.busy = m.busy /\ n.listed = m.listed
  /\ n.selected = m.selected /\ n.chosen = m.chosen

LEMMA AlikeOk ==
  ASSUME NEW m, MenuOk(m), NEW n \in Menus, Alike(m, n), m.step = "setup",
         n.snapshot <= n.tick, Focused(n)
  PROVE  MenuOk(n)
BY DEF Alike, MenuOk, Browsing, Ready

LEMMA SameShown ==
  ASSUME NEW m, NEW n, n.mode = m.mode, n.step = m.step, n.subview = m.subview, n.advanced = m.advanced
  PROVE  Shown(n) = Shown(m)
BY DEF Shown, FieldOrder

LEMMA RefocusedOk ==
  ASSUME NEW m \in Menus, Browsing(m), m.snapshot <= m.tick, Ready(m)
  PROVE  MenuOk(Refocused(m)) /\ Refocused(m).busy = m.busy /\ Refocused(m).step = m.step
<1> DEFINE f == DefaultField(m)
           n == Refocused(m)
<1>1. f \in FieldNames \cup {"none"} /\ (f # "none" => f \in Shown(m))
  <2>1. CASE m.step = "setup"
    <3>1. FieldOrder(m) \in Seq(FieldNames) /\ 1 \in 1..Len(FieldOrder(m))
      BY FieldsShown
    <3>2. FieldOrder(m)[1] \in ToSet(FieldOrder(m)) /\ ToSet(FieldOrder(m)) \subseteq FieldNames
      BY <3>1, FieldsShown
    <3> QED
      BY <2>1, <3>2 DEF DefaultField, Shown
  <2>2. CASE m.step # "setup"
    BY <2>2 DEF DefaultField
  <2> QED
    BY <2>1, <2>2
<1>2. n = [m EXCEPT !.field = f, !.dropdown = FALSE]
  BY DEF Refocused
<1> HIDE DEF f, n
<1>3. n \in Menus
  BY <1>1, <1>2 DEF Menus
<1>4. /\ n.field = f /\ n.dropdown = FALSE /\ n.mode = m.mode /\ n.step = m.step /\ n.subview = m.subview
      /\ n.advanced = m.advanced /\ n.busy = m.busy
  BY <1>2 DEF Menus
<1>5. /\ n.listed = m.listed /\ n.selected = m.selected /\ n.chosen = m.chosen
      /\ n.snapshot = m.snapshot /\ n.tick = m.tick /\ n.port = m.port /\ n.host = m.host
      /\ n.slot = m.slot /\ n.cap = m.cap
  BY <1>2 DEF Menus
<1>6. Shown(n) = Shown(m)
  BY <1>4, SameShown
<1>7. Focused(n)
  BY <1>1, <1>4, <1>6 DEF Focused
<1>8. Ready(n) /\ Browsing(n)
  BY <1>4, <1>5 DEF Ready, Browsing, Resolved
<1> QED
  BY <1>3, <1>4, <1>5, <1>7, <1>8 DEF MenuOk, n

LEMMA TypeOk ==
  ASSUME MenuOk(menu), Type
  PROVE  MenuOk(menu') /\ Alike(menu, menu')
<1> DEFINE m == menu
           n == menu'
<1>1. m \in Menus /\ m.step = "setup" /\ Focused(m) /\ m.snapshot <= m.tick
  BY DEF MenuOk, Type, InSetup
<1>2. \/ \E t \in HostTexts : n = [m EXCEPT !.host = t]
      \/ \E t \in PortTexts : n = [m EXCEPT !.port = t]
      \/ \E t \in BOOLEAN : n = [m EXCEPT !.name = t]
      \/ \E t \in CapTexts : n = [m EXCEPT !.cap = t]
      \/ \E t \in BotTexts : n = [m EXCEPT !.bots = t]
  BY DEF Type, Shows
<1> HIDE DEF m, n
<1>3. HostTexts \subseteq Texts /\ PortTexts \subseteq Ports
  BY MenuAssumption DEF Ports
<1> DEFINE Fits == /\ n \in Menus /\ Alike(m, n) /\ n.field = m.field /\ n.dropdown = m.dropdown
                   /\ n.subview = m.subview /\ n.advanced = m.advanced
                   /\ n.snapshot = m.snapshot /\ n.tick = m.tick
<1>4. Fits
  <2>1. CASE \E t \in HostTexts : n = [m EXCEPT !.host = t]
    BY <1>1, <1>3, <2>1 DEF Menus, Alike
  <2>2. CASE \E t \in PortTexts : n = [m EXCEPT !.port = t]
    BY <1>1, <1>3, <2>2 DEF Menus, Alike
  <2>3. CASE \E t \in BOOLEAN : n = [m EXCEPT !.name = t]
    BY <1>1, <2>3 DEF Menus, Alike
  <2>4. CASE \E t \in CapTexts : n = [m EXCEPT !.cap = t]
    BY <1>1, <2>4 DEF Menus, Alike
  <2>5. CASE \E t \in BotTexts : n = [m EXCEPT !.bots = t]
    BY <1>1, <2>5 DEF Menus, Alike
  <2> QED
    BY <1>2, <2>1, <2>2, <2>3, <2>4, <2>5
<1>5. Shown(n) = Shown(m)
  BY <1>4, SameShown DEF Alike
<1>6. Focused(n)
  BY <1>1, <1>4, <1>5 DEF Focused, Alike
<1> QED
  BY <1>1, <1>4, <1>6, AlikeOk DEF m, n

LEMMA InViewOk ==
  ASSUME NEW m \in Menus
  PROVE  /\ InView(m) \in Menus
         /\ \E f \in 1..Top : InView(m) = [m EXCEPT !.first = f]
<1> DEFINE f == IF m.profile < m.first THEN m.profile
                ELSE IF m.profile >= m.first + Rows THEN m.profile - Rows + 1 ELSE m.first
<1>1. Profiles \in Nat \ {0} /\ Rows \in Nat \ {0} /\ m.profile \in 1..Profiles /\ m.first \in 1..Top
  BY MenuAssumption DEF Menus
<1>2. f \in 1..Top
  <2> DEFINE p == m.profile
             i == m.first
  <2> HIDE DEF p, i
  <2>1. p \in 1..Profiles /\ i \in 1..Top
    BY <1>1 DEF p, i
  <2>2. (IF p < i THEN p ELSE IF p >= i + Rows THEN p - Rows + 1 ELSE i) \in 1..Top
    BY <1>1, <2>1 DEF Top
  <2> QED
    BY <2>2 DEF p, i
<1>3. InView(m) = [m EXCEPT !.first = f]
  BY DEF InView, Menus
<1> HIDE DEF f
<1>4. InView(m) \in Menus
  BY <1>2, <1>3 DEF Menus
<1> QED
  BY <1>2, <1>3, <1>4

LEMMA CycledOk ==
  ASSUME NEW m, m \in Menus, m.snapshot <= m.tick, NEW by \in {-1, 1}
  PROVE  LET n == Cycled(m, by) IN
         /\ n \in Menus /\ Alike(m, n) /\ n.snapshot <= n.tick /\ n.field = m.field
         /\ n.dropdown = m.dropdown /\ n.subview = m.subview /\ n.advanced = m.advanced
<1> DEFINE n == Cycled(m, by)
           Fits(k) == /\ k \in Menus /\ Alike(m, k) /\ k.snapshot <= k.tick /\ k.field = m.field
                      /\ k.dropdown = m.dropdown /\ k.subview = m.subview /\ k.advanced = m.advanced
<1>1. /\ m.tick \in ToSet(Rates) /\ m.snapshot \in ToSet(Rates)
      /\ m.profile \in 1..Profiles /\ Profiles \in Nat \ {0}
  BY MenuAssumption DEF Menus
<1>2. ToSet(Rates) \subseteq Nat
  BY RateFacts
<1>3. CASE m.field = "tick"
  <2> DEFINE rate == Beside(Rates, m.tick, by)
             s == Min({m.snapshot, rate})
  <2>1. rate \in ToSet(Rates)
    <3>1. PICK i \in 1..Len(Rates) : rate = Rates[i]
      BY RateFacts, BesideIsOne
    <3> QED
      BY <3>1, RateFacts DEF ToSet
  <2>2. s = IF m.snapshot <= rate THEN m.snapshot ELSE rate
    BY <1>1, <1>2, <2>1, TwoNumbers
  <2>3. n = [m EXCEPT !.tick = rate, !.snapshot = s]
    BY <1>3 DEF Cycled, TickChosen, Menus
  <2> HIDE DEF rate
  <2>4. s \in ToSet(Rates) /\ s <= rate
    BY <1>1, <1>2, <2>1, <2>2
  <2> HIDE DEF s, n
  <2>5. n \in Menus /\ n.tick = rate /\ n.snapshot = s
    BY <2>1, <2>3, <2>4 DEF Menus
  <2>6. Fits(n)
    BY <2>3, <2>4, <2>5 DEF Menus, Alike
  <2> QED
    BY <2>6 DEF n
<1>4. CASE m.field = "snapshot"
  <2> DEFINE c == RatesUpTo(m.tick)
             s == Beside(c, m.snapshot, by)
  <2>1. s \in ToSet(Rates) /\ s <= m.tick
    <3>1. c \in Seq(Nat) /\ Len(c) >= 1
      BY <1>1, ChoicesUpTo
    <3>2. PICK i \in 1..Len(c) : s = c[i]
      <4> HIDE DEF c
      <4> QED
        BY <3>1, BesideIsOne
    <3> QED
      BY <1>1, <3>2, ChoicesUpTo
  <2>2. n = [m EXCEPT !.snapshot = s]
    BY <1>4 DEF Cycled, Menus
  <2> HIDE DEF s, n
  <2>3. n \in Menus /\ n.tick = m.tick /\ n.snapshot = s
    BY <2>1, <2>2 DEF Menus
  <2>4. Fits(n)
    BY <2>1, <2>2, <2>3 DEF Menus, Alike
  <2> QED
    BY <2>4 DEF n
<1>5. CASE m.field = "profile"
  <2> DEFINE p == ((m.profile - 1 + by) % Profiles) + 1
             c == [m EXCEPT !.profile = p]
  <2>1. p \in 1..Profiles
    BY <1>1
  <2>2. n = InView(c)
    BY <1>5 DEF Cycled, ProfileChosen
  <2> HIDE DEF p
  <2>3. c \in Menus
    BY <2>1 DEF Menus
  <2>4. Alike(m, c) /\ c.snapshot = m.snapshot /\ c.tick = m.tick /\ c.field = m.field /\ c.dropdown = m.dropdown /\ c.subview = m.subview
        /\ c.advanced = m.advanced
    BY DEF Menus, Alike
  <2> HIDE DEF c, n
  <2>5. PICK f \in 1..Top : n = [c EXCEPT !.first = f]
    BY <2>2, <2>3, InViewOk
  <2>6. n \in Menus
    BY <2>2, <2>3, InViewOk
  <2>7. Fits(n)
    BY <2>3, <2>4, <2>5, <2>6 DEF Menus, Alike
  <2> QED
    BY <2>7 DEF n
<1>6. CASE m.field \notin {"tick", "snapshot", "profile"}
  BY <1>6 DEF Cycled, Alike
<1> QED
  BY <1>3, <1>4, <1>5, <1>6

LEMMA CycleChoiceOk ==
  ASSUME MenuOk(menu), CycleChoice
  PROVE  MenuOk(menu') /\ Alike(menu, menu')
<1>1. /\ menu \in Menus /\ menu.snapshot <= menu.tick /\ menu.step = "setup" /\ Focused(menu)
  BY DEF MenuOk, CycleChoice, InSetup
<1>2. PICK by \in {-1, 1} : menu' = Cycled(menu, by)
  BY DEF CycleChoice, Shows
<1>3. /\ menu' \in Menus /\ Alike(menu, menu') /\ menu'.snapshot <= menu'.tick
      /\ menu'.field = menu.field /\ menu'.dropdown = menu.dropdown
      /\ menu'.subview = menu.subview /\ menu'.advanced = menu.advanced
  BY <1>1, <1>2, CycledOk
<1>4. Focused(menu')
  <2>1. Shown(menu') = Shown(menu)
    BY <1>3, SameShown DEF Alike
  <2> QED
    BY <1>1, <1>3, <2>1 DEF Focused, Alike
<1> QED
  BY <1>1, <1>3, <1>4, AlikeOk

LEMMA ClickFieldOk ==
  ASSUME MenuOk(menu), ClickField
  PROVE  MenuOk(menu') /\ Alike(menu, menu')
<1>1. /\ menu \in Menus /\ menu.snapshot <= menu.tick /\ menu.step = "setup" /\ Focused(menu)
  BY DEF MenuOk, ClickField, InSetup
<1>2. PICK f \in Shown(menu) :
        menu' = LET m == [menu EXCEPT !.field = f, !.dropdown = FALSE] IN
                IF f # "profile" THEN Cycled(m, 1)
                ELSE IF menu.dropdown THEN m ELSE InView([m EXCEPT !.dropdown = TRUE])
  BY DEF ClickField, Shows
<1>3. f \in FieldNames /\ (f = "profile" => menu.mode = "host")
  BY <1>1, FieldsShown DEF Shown
<1> DEFINE m == [menu EXCEPT !.field = f, !.dropdown = FALSE]
           d == [menu EXCEPT !.field = f, !.dropdown = TRUE]
           Fits(n, open) ==
             /\ n \in Menus /\ Alike(menu, n) /\ n.snapshot <= n.tick /\ n.field = f
             /\ n.dropdown = open /\ n.subview = menu.subview /\ n.advanced = menu.advanced
<1>4. Fits(m, FALSE) /\ Fits(d, TRUE)
  BY <1>1, <1>3 DEF Menus, Alike
<1>5. [m EXCEPT !.dropdown = TRUE] = d
  BY <1>1 DEF Menus
<1>6. Fits(menu', FALSE) \/ (Fits(menu', TRUE) /\ f = "profile")
  <2>1. CASE f # "profile"
    <3>1. menu' = Cycled(m, 1)
      BY <1>2, <2>1
    <3> HIDE DEF m
    <3>2. /\ menu' \in Menus /\ Alike(m, menu') /\ menu'.snapshot <= menu'.tick
          /\ menu'.field = m.field /\ menu'.dropdown = m.dropdown
          /\ menu'.subview = m.subview /\ menu'.advanced = m.advanced
      BY <1>4, <3>1, CycledOk
    <3> QED
      BY <1>4, <3>2 DEF Alike
  <2>2. CASE f = "profile" /\ menu.dropdown
    BY <1>2, <1>4, <2>2
  <2>3. CASE f = "profile" /\ ~menu.dropdown
    <3>1. menu' = InView(d)
      BY <1>2, <1>5, <2>3
    <3> HIDE DEF d
    <3>2. PICK i \in 1..Top : menu' = [d EXCEPT !.first = i]
      BY <1>4, <3>1, InViewOk
    <3>3. menu' \in Menus
      BY <1>4, <3>1, InViewOk
    <3>4. /\ menu'.snapshot = d.snapshot /\ menu'.tick = d.tick /\ menu'.field = d.field
          /\ menu'.dropdown = d.dropdown /\ menu'.subview = d.subview /\ menu'.advanced = d.advanced
          /\ Alike(d, menu')
      BY <1>4, <3>2 DEF Menus, Alike
    <3> QED
      BY <1>4, <2>3, <3>3, <3>4 DEF Alike
  <2> QED
    BY <2>1, <2>2, <2>3
<1> HIDE DEF m, d
<1>7. Shown(menu') = Shown(menu)
  BY <1>6, SameShown DEF Alike
<1>8. Focused(menu')
  BY <1>1, <1>3, <1>6, <1>7 DEF Focused, Alike
<1> QED
  BY <1>1, <1>6, <1>8, AlikeOk

LEMMA ClickProfileOk ==
  ASSUME MenuOk(menu), ClickProfile
  PROVE  MenuOk(menu') /\ Alike(menu, menu')
<1>1. /\ menu \in Menus /\ menu.snapshot <= menu.tick /\ menu.step = "setup" /\ menu.mode = "host"
  BY DEF MenuOk, ClickProfile, InSetup, Focused
<1>2. PICK row \in 0..(Min({Rows, Profiles}) - 1) :
        menu' = [ProfileChosen(menu, menu.first + row) EXCEPT !.dropdown = FALSE, !.field = "profile"]
  BY DEF ClickProfile, Shows
<1>3. Profiles \in Nat \ {0} /\ Rows \in Nat \ {0} /\ menu.first \in 1..Top
  BY <1>1, MenuAssumption DEF Menus
<1> DEFINE p == menu.first + row
           c == [menu EXCEPT !.profile = p]
<1>4. p \in 1..Profiles
  <2>1. Min({Rows, Profiles}) = IF Rows <= Profiles THEN Rows ELSE Profiles
    BY <1>3, TwoNumbers
  <2> QED
    BY <1>3, <2>1 DEF Top
<1> HIDE DEF p
<1>5. c \in Menus
  BY <1>1, <1>4 DEF Menus
<1>6. menu' = [InView(c) EXCEPT !.dropdown = FALSE, !.field = "profile"]
  BY <1>2 DEF ProfileChosen, p
<1> HIDE DEF c
<1>7. PICK i \in 1..Top : InView(c) = [c EXCEPT !.first = i]
  BY <1>5, InViewOk
<1>8. menu' = [menu EXCEPT !.profile = p, !.first = i, !.dropdown = FALSE, !.field = "profile"]
  BY <1>6, <1>7 DEF c
<1>9. menu' \in Menus
  BY <1>1, <1>4, <1>8 DEF Menus, FieldNames
<1>10. /\ Alike(menu, menu') /\ menu'.field = "profile" /\ menu'.dropdown = FALSE
       /\ menu'.snapshot = menu.snapshot /\ menu'.tick = menu.tick
       /\ menu'.subview = menu.subview /\ menu'.advanced = menu.advanced
  BY <1>1, <1>8 DEF Menus, Alike
<1>11. "profile" \in Shown(menu')
  <2> DEFINE o == FieldOrder(menu')
  <2>1. menu'.mode = "host" /\ menu'.step = "setup"
    BY <1>1, <1>10 DEF Alike
  <2>2. \/ o = <<"port", "name", "profile", "label", "tick", "snapshot", "cap", "shot", "bots">>
        \/ o = <<"port", "name", "profile", "bots">>
    BY <2>1 DEF FieldOrder
  <2>3. 3 \in 1..Len(o) /\ o[3] = "profile"
    BY <2>2
  <2> HIDE DEF o
  <2>4. o[3] \in ToSet(o)
    BY <1>9, <2>3, FieldsShown DEF o
  <2> QED
    BY <2>1, <2>3, <2>4 DEF Shown, o
<1>12. Focused(menu')
  BY <1>10, <1>11 DEF Focused
<1> QED
  BY <1>1, <1>9, <1>10, <1>12, AlikeOk

LEMMA GreatestFirst == Max({1, Profiles - Rows + 1}) = Top
<1>1. Profiles \in Nat \ {0} /\ Rows \in Nat \ {0}
  BY MenuAssumption
<1>2. CASE Profiles > Rows
  <2>1. 1 \in Nat /\ Profiles - Rows + 1 \in Nat /\ Profiles - Rows + 1 > 1
    BY <1>1, <1>2
  <2>2. Max({1, Profiles - Rows + 1}) = Profiles - Rows + 1
    BY <2>1, TwoNumbers
  <2> QED
    BY <1>2, <2>2 DEF Top
<1>3. CASE Profiles <= Rows
  <2>1. \A y \in {1, Profiles - Rows + 1} : 1 >= y
    BY <1>1, <1>3
  <2>2. \A x \in {1, Profiles - Rows + 1} : (\A y \in {1, Profiles - Rows + 1} : x >= y) => x = 1
    BY <1>1, <1>3
  <2>3. Max({1, Profiles - Rows + 1}) = 1
    BY <2>1, <2>2 DEF Max
  <2> QED
    BY <1>1, <1>3, <2>3 DEF Top
<1> QED
  BY <1>1, <1>2, <1>3

LEMMA ScrollOk ==
  ASSUME MenuOk(menu), Scroll
  PROVE  MenuOk(menu') /\ Alike(menu, menu')
<1>1. /\ menu \in Menus /\ menu.snapshot <= menu.tick /\ menu.step = "setup" /\ Focused(menu)
  BY DEF MenuOk, Scroll, InSetup
<1>2. PICK i \in 1..Max({1, Profiles - Rows + 1}) : menu' = [menu EXCEPT !.first = i]
  BY DEF Scroll, Shows
<1>3. i \in 1..Top
  BY <1>2, GreatestFirst
<1>4. menu' \in Menus
  BY <1>1, <1>2, <1>3 DEF Menus
<1>5. /\ Alike(menu, menu') /\ menu'.field = menu.field /\ menu'.dropdown = menu.dropdown
      /\ menu'.snapshot = menu.snapshot /\ menu'.tick = menu.tick
      /\ menu'.subview = menu.subview /\ menu'.advanced = menu.advanced
  BY <1>1, <1>2 DEF Menus, Alike
<1>6. Focused(menu')
  <2>1. Shown(menu') = Shown(menu)
    BY <1>5, SameShown DEF Alike
  <2> QED
    BY <1>1, <1>5, <2>1 DEF Focused, Alike
<1> QED
  BY <1>1, <1>4, <1>5, <1>6, AlikeOk

LEMMA FieldOk ==
  ASSUME MenuOk(menu), ClickElsewhere \/ Tab \/ LeaveField
  PROVE  MenuOk(menu') /\ Alike(menu, menu')
<1>1. /\ menu \in Menus /\ menu.snapshot <= menu.tick /\ menu.step = "setup" /\ Focused(menu)
  BY DEF MenuOk, ClickElsewhere, Tab, LeaveField, InSetup
<1>2. PICK f \in FieldNames \cup {"none"} :
        /\ menu' = [menu EXCEPT !.field = f, !.dropdown = FALSE]
        /\ f # "none" => f \in Shown(menu)
  <2>1. CASE ClickElsewhere
    <3>1. menu' = [menu EXCEPT !.field = menu.field, !.dropdown = FALSE]
      BY <1>1, <2>1 DEF ClickElsewhere, Shows, Menus
    <3>2. menu.field \in FieldNames \cup {"none"} /\ (menu.field # "none" => menu.field \in Shown(menu))
      BY <1>1 DEF Menus, Focused
    <3> QED
      BY <3>1, <3>2
  <2>2. CASE Tab
    <3> DEFINE o == FieldOrder(menu)
               at == {i \in 1..Len(o) : o[i] = menu.field}
               next == NextField(menu)
    <3>1. /\ o \in Seq(FieldNames) /\ Len(o) >= 1 /\ ToSet(o) \subseteq FieldNames
          /\ \A i \in 1..Len(o) : o[i] \in ToSet(o)
      BY <1>1, FieldsShown
    <3>2. next = IF at = {} THEN o[1] ELSE o[(Max(at) % Len(o)) + 1]
      BY DEF NextField
    <3>3. ToSet(o) = Shown(menu)
      BY <1>1 DEF Shown
    <3>4. menu' = [menu EXCEPT !.field = next, !.dropdown = FALSE]
      BY <2>2 DEF Tab, Shows
    <3> HIDE DEF o
    <3>5. Len(o) \in Nat
      BY <3>1
    <3>6. at # {} => Max(at) \in 1..Len(o)
      <4>1. at \in SUBSET (0..Len(o)) /\ at \in SUBSET (1..Len(o))
        BY <3>5
      <4> HIDE DEF at
      <4> QED
        BY <3>5, <4>1, GreatestOf
    <3> HIDE DEF at, next
    <3>7. next \in ToSet(o)
      <4>1. CASE at = {}
        <5>1. 1 \in 1..Len(o)
          BY <3>1, <3>5
        <5> QED
          BY <3>1, <3>2, <4>1, <5>1
      <4>2. CASE at # {}
        <5> DEFINE k == (Max(at) % Len(o)) + 1
        <5>1. k \in 1..Len(o)
          BY <3>1, <3>5, <3>6, <4>2
        <5> HIDE DEF k
        <5>2. next = o[k]
          BY <3>2, <4>2 DEF k
        <5> QED
          BY <3>1, <5>1, <5>2
      <4> QED
        BY <4>1, <4>2
    <3> QED
      BY <3>1, <3>3, <3>4, <3>7
  <2>3. CASE LeaveField
    BY <1>1, <2>3 DEF LeaveField, Shows
  <2> QED
    BY <2>1, <2>2, <2>3
<1>3. menu' \in Menus
  BY <1>1, <1>2 DEF Menus
<1>4. /\ Alike(menu, menu') /\ menu'.field = f /\ menu'.dropdown = FALSE
      /\ menu'.snapshot = menu.snapshot /\ menu'.tick = menu.tick
      /\ menu'.subview = menu.subview /\ menu'.advanced = menu.advanced
  BY <1>1, <1>2 DEF Menus, Alike
<1>5. Focused(menu')
  <2>1. Shown(menu') = Shown(menu)
    BY <1>4, SameShown DEF Alike
  <2> QED
    BY <1>2, <1>4, <2>1 DEF Focused
<1> QED
  BY <1>1, <1>3, <1>4, <1>5, AlikeOk

LEMMA SubviewOk ==
  ASSUME MenuOk(menu), ToggleAdvanced \/ ChooseSubview
  PROVE  MenuOk(menu') /\ menu'.busy = menu.busy /\ menu'.step = menu.step
<1>1. menu \in Menus /\ menu.snapshot <= menu.tick /\ menu.step = "setup" /\ Browsing(menu)
  BY DEF MenuOk, ToggleAdvanced, ChooseSubview, InSetup
<1>2. \/ \E a \in BOOLEAN : menu' = Refocused([menu EXCEPT !.advanced = a])
      \/ \E v \in {"browser", "direct"} : menu' = Refocused([menu EXCEPT !.subview = v])
  BY DEF ToggleAdvanced, ChooseSubview, Shows
<1>3. PICK m : /\ menu' = Refocused(m)
               /\ \/ \E a \in BOOLEAN : m = [menu EXCEPT !.advanced = a]
                  \/ \E v \in {"browser", "direct"} : m = [menu EXCEPT !.subview = v]
  BY <1>2
<1>4. m \in Menus
  <2>1. CASE \E a \in BOOLEAN : m = [menu EXCEPT !.advanced = a]
    <3>1. PICK a \in BOOLEAN : m = [menu EXCEPT !.advanced = a]
      BY <2>1
    <3> QED
      BY <1>1, <3>1 DEF Menus
  <2>2. CASE \E v \in {"browser", "direct"} : m = [menu EXCEPT !.subview = v]
    <3>1. PICK v \in {"browser", "direct"} : m = [menu EXCEPT !.subview = v]
      BY <2>2
    <3> QED
      BY <1>1, <3>1 DEF Menus
  <2> QED
    BY <1>3, <2>1, <2>2
<1>5. Alike(menu, m) /\ m.snapshot = menu.snapshot /\ m.tick = menu.tick
  BY <1>1, <1>3 DEF Menus, Alike
<1>6. Browsing(m) /\ Ready(m)
  BY <1>1, <1>5 DEF Alike, Browsing, Ready
<1>7. MenuOk(Refocused(m)) /\ Refocused(m).busy = m.busy /\ Refocused(m).step = m.step
  BY <1>1, <1>4, <1>5, <1>6, RefocusedOk
<1> QED
  BY <1>3, <1>5, <1>7 DEF Alike

LEMMA ClickSessionOk ==
  ASSUME MenuOk(menu), ClickSession
  PROVE  MenuOk(menu') /\ menu'.busy = menu.busy /\ menu'.step = menu.step
<1>1. menu \in Menus /\ menu.snapshot <= menu.tick /\ menu.step = "setup" /\ Focused(menu)
  BY DEF MenuOk, ClickSession, InSetup
<1>2. PICK row \in 1..Len(menu.listed) : menu' = Chosen(menu, row)
  BY DEF ClickSession, Shows
<1> DEFINE e == Endpoint(menu.listed[row])
           h == [host |-> e.host, port |-> "none"]
           p == e.port
<1>3. e \in Texts
  <2>1. menu.listed \in Seq(Entries)
    BY <1>1 DEF Menus
  <2>2. menu.listed[row] \in Entries
    BY <2>1
  <2>3. menu.listed[row].who \in Advertisers
    BY <2>2 DEF Entries
  <2> QED
    BY <2>3, MenuAssumption DEF Endpoint
<1>4. h \in Texts /\ p \in Ports
  BY <1>3 DEF Texts, Ports
<1>5. menu' = [menu EXCEPT !.host = h, !.port = p, !.selected = row, !.chosen = e]
  BY <1>2 DEF Chosen
<1>6. row \in Nat
  BY <1>1 DEF Menus
<1> HIDE DEF h, p, e
<1>7. menu' \in Menus
  BY <1>1, <1>3, <1>4, <1>5, <1>6 DEF Menus
<1>8. /\ menu'.mode = menu.mode /\ menu'.step = menu.step /\ menu'.busy = menu.busy /\ menu'.listed = menu.listed
      /\ menu'.selected = row /\ menu'.chosen = e /\ menu'.field = menu.field /\ menu'.dropdown = menu.dropdown
      /\ menu'.snapshot = menu.snapshot /\ menu'.tick = menu.tick
      /\ menu'.subview = menu.subview /\ menu'.advanced = menu.advanced
  BY <1>1, <1>5 DEF Menus
<1>9. Focused(menu')
  <2>1. Shown(menu') = Shown(menu)
    BY <1>8, SameShown
  <2> QED
    BY <1>1, <1>8, <2>1 DEF Focused
<1>10. Browsing(menu') /\ Ready(menu')
  BY <1>1, <1>8 DEF Browsing, Ready, e
<1> QED
  BY <1>1, <1>7, <1>8, <1>9, <1>10 DEF MenuOk

LEMMA ChooseTeamOk ==
  ASSUME MenuOk(menu), ChooseTeam
  PROVE  MenuOk(menu') /\ menu'.busy = menu.busy /\ menu'.step = menu.step
<1>1. menu \in Menus
  BY DEF MenuOk
<1>2. PICK team \in ToSet(Teams) : menu' = [menu EXCEPT !.team = team]
  BY DEF ChooseTeam, Shows
<1>3. menu' \in Menus
  BY <1>1, <1>2 DEF Menus
<1>4. /\ menu'.mode = menu.mode /\ menu'.step = menu.step /\ menu'.busy = menu.busy /\ menu'.listed = menu.listed
      /\ menu'.selected = menu.selected /\ menu'.chosen = menu.chosen
      /\ menu'.field = menu.field /\ menu'.dropdown = menu.dropdown
      /\ menu'.snapshot = menu.snapshot /\ menu'.tick = menu.tick
      /\ menu'.subview = menu.subview /\ menu'.advanced = menu.advanced
      /\ menu'.port = menu.port /\ menu'.host = menu.host /\ menu'.slot = menu.slot /\ menu'.cap = menu.cap
  BY <1>1, <1>2 DEF Menus
<1>5. Shown(menu') = Shown(menu)
  BY <1>4, SameShown
<1> QED
  BY <1>3, <1>4, <1>5 DEF MenuOk, Focused, Browsing, Ready, Resolved

LEMMA ListensOk ==
  ASSUME MenuOk(menu), Listens
  PROVE  MenuOk(menu') /\ menu'.busy = menu.busy /\ menu'.step = menu.step
<1>1. menu.listed \in Seq(Entries)
  BY DEF MenuOk, Menus
<1>2. \E l \in Seq(Entries) : menu' = Reconciled([menu EXCEPT !.listed = l])
  <2>1. PICK who \in Advertisers :
          \/ \E label \in Labels, compatible \in BOOLEAN :
               menu' = Reconciled([menu EXCEPT !.listed = Upserted(@, who, label, compatible)])
          \/ menu' = Reconciled([menu EXCEPT !.listed = Expired(@, who)])
    BY DEF Listens
  <2>2. CASE menu' = Reconciled([menu EXCEPT !.listed = Expired(@, who)])
    <3> DEFINE l == Expired(menu.listed, who)
    <3>1. l \in Seq(Entries)
      <4> DEFINE others == {e \in ToSet(menu.listed) : e.who # who}
      <4>1. IsFiniteSet(others) /\ others \in SUBSET Entries
        BY <1>1, ListedEntries, FS_Subset
      <4> HIDE DEF others
      <4>2. Sorted(others) \in Seq(Entries)
        BY <4>1, SortedEntries
      <4> QED
        BY <4>2 DEF Expired, others
    <3> QED
      BY <2>2, <3>1
  <2>3. CASE \E label \in Labels, compatible \in BOOLEAN :
               menu' = Reconciled([menu EXCEPT !.listed = Upserted(@, who, label, compatible)])
    <3>1. PICK label \in Labels, compatible \in BOOLEAN :
            menu' = Reconciled([menu EXCEPT !.listed = Upserted(@, who, label, compatible)])
      BY <2>3
    <3>2. Upserted(menu.listed, who, label, compatible) \in Seq(Entries)
      BY <1>1, Listings
    <3> QED
      BY <3>1, <3>2
  <2> QED
    BY <2>1, <2>2, <2>3
<1>3. PICK l \in Seq(Entries) : menu' = Reconciled([menu EXCEPT !.listed = l])
  BY <1>2
<1> QED
  BY <1>3, ReconciledOk

LEMMA NormalizedOk ==
  ASSUME NEW m, m \in Menus
  PROVE  /\ \E h \in Texts, p \in Ports : Normalized(m) = [m EXCEPT !.host = h, !.port = p]
         /\ Resolved(Normalized(m)) # NoEndpoint /\ m.mode = "join" /\ m.subview = "direct"
              => Normalized(m).host.port = "none"
<1> DEFINE r == Resolved(m)
           h == [host |-> r.host, port |-> "none"]
           p == r.port
<1>1. m.host \in Texts /\ m.port \in Ports
  BY DEF Menus
<1>2. r \in Texts
  <2>1. NoEndpoint \in Texts
    BY DEF NoEndpoint, Texts, Hosts, Ports
  <2>2. m.host.host \in Hosts /\ m.host.port \in Ports
    BY <1>1 DEF Texts
  <2>3. r \in {NoEndpoint, [host |-> m.host.host, port |-> m.port], [host |-> m.host.host, port |-> m.host.port]}
    BY DEF Resolved
  <2> HIDE DEF r
  <2> QED
    BY <1>1, <2>1, <2>2, <2>3 DEF Texts
<1>3. h \in Texts /\ p \in Ports
  <2> HIDE DEF r
  <2> QED
    BY <1>2 DEF Texts, Ports
<1>4. CASE m.mode = "join" /\ m.subview = "direct" /\ r # NoEndpoint
  <2>1. Normalized(m) = [m EXCEPT !.host = h, !.port = p]
    BY <1>4 DEF Normalized
  <2> HIDE DEF p
  <2>2. Normalized(m).host.port = "none"
    BY <2>1 DEF Menus
  <2> HIDE DEF h
  <2> QED
    BY <1>3, <2>1, <2>2
<1>5. CASE ~(m.mode = "join" /\ m.subview = "direct" /\ r # NoEndpoint)
  <2>1. Normalized(m) = m
    BY <1>5 DEF Normalized
  <2>2. m = [m EXCEPT !.host = m.host, !.port = m.port]
    BY DEF Menus
  <2> QED
    BY <1>1, <1>5, <2>1, <2>2
<1> QED
  BY <1>4, <1>5

LEMMA ContinueOk ==
  ASSUME MenuOk(menu), Continue
  PROVE  MenuOk(menu') /\ menu'.busy = menu.busy
<1> DEFINE n == Normalized(menu)
           t == [n EXCEPT !.step = "team"]
<1>1. menu \in Menus /\ menu.snapshot <= menu.tick /\ menu.step = "setup" /\ Focused(menu) /\ Browsing(menu)
  BY DEF MenuOk, Continue, InSetup
<1>2. menu' = IF Valid(n) THEN Refocused(t) ELSE n
  BY DEF Continue, Shows, AtStep
<1>3. PICK h \in Texts, p \in Ports : n = [menu EXCEPT !.host = h, !.port = p]
  BY <1>1, NormalizedOk
<1>4. Resolved(n) # NoEndpoint /\ menu.mode = "join" /\ menu.subview = "direct" => n.host.port = "none"
  BY <1>1, NormalizedOk
<1> HIDE DEF n
<1>5. n \in Menus
  BY <1>1, <1>3 DEF Menus
<1>6. /\ Alike(menu, n) /\ n.field = menu.field /\ n.dropdown = menu.dropdown
      /\ n.snapshot = menu.snapshot /\ n.tick = menu.tick
      /\ n.subview = menu.subview /\ n.advanced = menu.advanced
  BY <1>1, <1>3 DEF Menus, Alike
<1>7. MenuOk(n)
  <2>1. Shown(n) = Shown(menu)
    BY <1>6, SameShown DEF Alike
  <2>2. Focused(n)
    BY <1>1, <1>6, <2>1 DEF Focused, Alike
  <2> QED
    BY <1>1, <1>5, <1>6, <2>2, AlikeOk
<1>8. CASE Valid(n)
  <2>1. t \in Menus
    BY <1>5 DEF Menus
  <2>2. /\ t.step = "team" /\ t.busy = n.busy /\ t.snapshot = n.snapshot /\ t.tick = n.tick /\ t.listed = n.listed
        /\ t.selected = n.selected /\ t.chosen = n.chosen /\ t.mode = n.mode /\ t.subview = n.subview
        /\ t.port = n.port /\ t.host = n.host /\ t.slot = n.slot /\ t.cap = n.cap
    BY <1>5 DEF Menus
  <2> HIDE DEF t
  <2>3. Ready(t)
    <3>1. t.mode = "host" => t.port # "bad" /\ t.slot > 0 /\ t.cap >= Locals
      BY <1>8, <2>2 DEF Valid
    <3>2. t.mode = "join" /\ t.subview = "direct" => t.host.port = "none" /\ Resolved(t) # NoEndpoint
      <4> SUFFICES ASSUME t.mode = "join", t.subview = "direct"
                   PROVE  t.host.port = "none" /\ Resolved(t) # NoEndpoint
        OBVIOUS
      <4>1. Resolved(n) # NoEndpoint
        BY <1>8, <2>2 DEF Valid
      <4>2. Resolved(t) = Resolved(n)
        BY <2>2 DEF Resolved
      <4> QED
        BY <1>4, <1>6, <2>2, <4>1, <4>2 DEF Alike
    <3> QED
      BY <3>1, <3>2 DEF Ready
  <2>4. Browsing(t) /\ t.snapshot <= t.tick
    BY <1>7, <2>2 DEF MenuOk, Browsing
  <2>5. MenuOk(Refocused(t)) /\ Refocused(t).busy = t.busy
    BY <2>1, <2>3, <2>4, RefocusedOk
  <2> QED
    BY <1>2, <1>6, <1>8, <2>2, <2>5 DEF Alike
<1>9. CASE ~Valid(n)
  BY <1>2, <1>6, <1>7, <1>9 DEF Alike
<1> QED
  BY <1>8, <1>9

LEMMA MenuKeysOk ==
  ASSUME MenuOk(menu), MenuKeys
  PROVE  MenuOk(menu') /\ menu'.busy = menu.busy
BY TypeOk, CycleChoiceOk, ClickFieldOk, FieldOk, ClickProfileOk, ScrollOk, SubviewOk, ClickSessionOk,
   ChooseTeamOk, ContinueOk, ListensOk DEF MenuKeys, Alike

LEMMA StatusOk ==
  ASSUME NEW m, MenuOk(m), NEW busy \in BOOLEAN
  PROVE  MenuOk(WithStatus(m, busy)) /\ WithStatus(m, busy).busy = busy /\ WithStatus(m, busy).step = m.step
<1> DEFINE f == IF busy THEN "none" ELSE m.field
           n == WithStatus(m, busy)
<1>1. m \in Menus
  BY DEF MenuOk
<1>2. n = [m EXCEPT !.busy = busy, !.field = f]
  BY DEF WithStatus
<1>3. f \in FieldNames \cup {"none"} /\ f \in {"none", m.field}
  BY <1>1 DEF Menus
<1> HIDE DEF f, n
<1>4. n \in Menus
  BY <1>1, <1>2, <1>3 DEF Menus
<1>5. /\ n.mode = m.mode /\ n.step = m.step /\ n.busy = busy /\ n.listed = m.listed
      /\ n.selected = m.selected /\ n.chosen = m.chosen
      /\ n.field = f /\ n.dropdown = m.dropdown
      /\ n.snapshot = m.snapshot /\ n.tick = m.tick
      /\ n.subview = m.subview /\ n.advanced = m.advanced
      /\ n.port = m.port /\ n.host = m.host /\ n.slot = m.slot /\ n.cap = m.cap
  BY <1>1, <1>2 DEF Menus
<1>6. Shown(n) = Shown(m)
  BY <1>5, SameShown
<1>7. Focused(n) /\ Browsing(n) /\ Ready(n)
  BY <1>3, <1>5, <1>6 DEF MenuOk, Focused, Browsing, Ready, Resolved
<1> QED
  BY <1>4, <1>5, <1>7 DEF MenuOk, n

LEMMA BackOk ==
  ASSUME NEW m, MenuOk(m)
  PROVE  MenuOk(BackToSetup(m)) /\ BackToSetup(m).busy = FALSE
<1> DEFINE t == [m EXCEPT !.busy = FALSE, !.step = "setup"]
<1>1. m \in Menus
  BY DEF MenuOk
<1>2. t \in Menus
  BY <1>1 DEF Menus
<1>3. /\ t.step = "setup" /\ t.busy = FALSE /\ t.listed = m.listed /\ t.selected = m.selected /\ t.chosen = m.chosen
      /\ t.snapshot = m.snapshot /\ t.tick = m.tick
  BY <1>1 DEF Menus
<1>4. BackToSetup(m) = Refocused(t)
  BY DEF BackToSetup, AtStep
<1> HIDE DEF t
<1>5. Browsing(t) /\ Ready(t) /\ t.snapshot <= t.tick
  BY <1>3 DEF MenuOk, Browsing, Ready
<1> QED
  BY <1>2, <1>3, <1>4, <1>5, RefocusedOk

LEMMA NewMenuOk ==
  ASSUME NEW entry \in {"host", "join"}, NEW slot \in Nat
  PROVE  MenuOk(NewMenu(entry, slot)) /\ NewMenu(entry, slot).busy = FALSE
<1> DEFINE h == CHOOSE t \in HostTexts : t.host # "bad" /\ t.port = "none"
           p == CHOOSE t \in PortTexts : t # "bad"
           c == Min(CapTexts)
           b == Min(BotTexts)
           team == IF entry = "host" THEN "attacker" ELSE "defender"
           m == [open |-> TRUE, mode |-> entry, step |-> "setup", subview |-> "browser", advanced |-> FALSE,
                 field |-> "none", busy |-> FALSE, slot |-> slot, host |-> h, port |-> p, name |-> TRUE,
                 cap |-> c, bots |-> b, tick |-> DefaultTick, snapshot |-> DefaultSnapshot,
                 team |-> team, profile |-> 1, first |-> 1, dropdown |-> FALSE,
                 listed |-> <<>>, selected |-> 0, chosen |-> NoEndpoint]
<1>1. h \in Texts
  <2>1. h \in HostTexts
    BY MenuAssumption, Zenon
  <2> QED
    BY <2>1, MenuAssumption
<1>2. p \in Ports
  <2>1. p \in PortTexts
    BY MenuAssumption, Zenon
  <2> QED
    BY <2>1 DEF Ports
<1>3. c \in CapTexts /\ b \in BotTexts
  <2>1. CapTexts \in SUBSET Nat /\ CapTexts # {} /\ BotTexts \in SUBSET Nat /\ BotTexts # {}
    BY MenuAssumption
  <2> QED
    BY <2>1, LeastOf
<1>4. team \in ToSet(Teams)
  <2>1. Teams \in Seq({"attacker", "defender", "spectator"}) /\ DOMAIN Teams = 1..3
        /\ Teams[1] = "attacker" /\ Teams[2] = "defender"
    BY DEF Teams
  <2> HIDE DEF Teams
  <2> QED
    BY <2>1 DEF ToSet
<1>5. NoEndpoint \in Texts
  BY DEF NoEndpoint, Texts, Hosts, Ports
<1>6. DefaultTick \in ToSet(Rates) /\ DefaultSnapshot \in ToSet(Rates) /\ DefaultSnapshot <= DefaultTick
  BY MenuAssumption
<1>7. 1 \in 1..Profiles /\ 1 \in 1..Top
  <2>1. Profiles \in Nat \ {0} /\ Rows \in Nat \ {0}
    BY MenuAssumption
  <2> QED
    BY <2>1 DEF Top
<1>8. NewMenu(entry, slot) = Refocused(m)
  BY DEF NewMenu
<1> HIDE DEF h, p, c, b, team
<1>9. <<>> \in Seq(Entries)
  OBVIOUS
<1>10. m \in Menus
  BY <1>1, <1>2, <1>3, <1>4, <1>5, <1>6, <1>7, <1>9 DEF Menus
<1>11. m.step = "setup" /\ m.busy = FALSE /\ m.selected = 0 /\ m.snapshot <= m.tick
  BY <1>6
<1> HIDE DEF m
<1>12. Browsing(m) /\ Ready(m)
  BY <1>11 DEF Browsing, Ready
<1> QED
  BY <1>8, <1>10, <1>11, <1>12, RefocusedOk

(* What is launched. *)

LEMMA LaunchedAsShown ==
  ASSUME NEW m, MenuOk(m), m.mode = "host", m.step = "team"
  PROVE  LET c == LaunchConfig(m) IN
         /\ c.server = TRUE /\ c.endpoint.port = m.port /\ c.cap = m.cap /\ c.slot > 0
         /\ c.tick = m.tick /\ c.snapshot = m.snapshot
         /\ c.bots.attackers + c.bots.defenders = m.bots
         /\ c.bots.attackers - c.bots.defenders \in -1..1
<1> DEFINE d == HostConfig(m)
           tick == Supported(d.tick, DefaultTick)
           snapshot == Min({Supported(d.snapshot, DefaultSnapshot), tick})
           cap == Max({d.cap, Locals})
           c == LaunchConfig(m)
<1>1. m \in Menus /\ m.snapshot <= m.tick /\ m.port # "bad" /\ m.slot > 0 /\ m.cap >= Locals
  BY DEF MenuOk, Ready
<1>2. /\ m.tick \in ToSet(Rates) /\ m.snapshot \in ToSet(Rates) /\ m.cap \in Nat /\ m.bots \in Nat
      /\ Locals \in Nat /\ m.slot \in Nat
  BY <1>1, MenuAssumption DEF Menus
<1>3. m.tick \in Nat /\ m.snapshot \in Nat
  BY <1>2, RateFacts
<1>4. d = [entry |-> "host", slot |-> m.slot, team |-> m.team, server |-> TRUE, profile |-> m.profile,
           endpoint |-> [host |-> "local", port |-> m.port], upstream |-> "local",
           tick |-> m.tick, snapshot |-> m.snapshot, cap |-> m.cap, bots |-> Bots(m.bots, m.team)]
  BY <1>1 DEF HostConfig, ParsedPort
<1>5. c = [d EXCEPT !.tick = tick, !.snapshot = snapshot, !.cap = cap, !.server = (d.entry = "host")]
  BY DEF LaunchConfig, NormalizedLaunch
<1>6. tick = m.tick /\ Supported(d.snapshot, DefaultSnapshot) = m.snapshot
  BY <1>2, <1>4 DEF Supported
<1>7. snapshot = m.snapshot
  BY <1>1, <1>3, <1>6, TwoNumbers
<1>8. cap = m.cap
  <2>1. d.cap = m.cap
    BY <1>4
  <2>2. Max({m.cap, Locals}) = IF m.cap <= Locals THEN Locals ELSE m.cap
    BY <1>2, TwoNumbers
  <2> QED
    BY <1>1, <1>2, <2>1, <2>2
<1> HIDE DEF tick, snapshot, cap, d, c
<1>9. /\ c.server = TRUE /\ c.endpoint = [host |-> "local", port |-> m.port] /\ c.cap = m.cap /\ c.slot = m.slot
      /\ c.tick = m.tick /\ c.snapshot = m.snapshot /\ c.bots = Bots(m.bots, m.team)
  BY <1>4, <1>5, <1>6, <1>7, <1>8
<1>10. LET b == Bots(m.bots, m.team) IN
       b.attackers + b.defenders = m.bots /\ b.attackers - b.defenders \in -1..1
  <2> DEFINE n == m.bots
  <2>1. n \in Nat
    BY <1>2
  <2> HIDE DEF n
  <2>2. n \div 2 \in Nat /\ (n + 1) \div 2 \in Nat /\ n \div 2 + (n + 1) \div 2 = n
        /\ (n + 1) \div 2 - n \div 2 \in 0..1
    BY <2>1
  <2>3. Bots(n, m.team) \in {[attackers |-> (n + 1) \div 2, defenders |-> n \div 2],
                             [attackers |-> n \div 2, defenders |-> (n + 1) \div 2]}
    BY DEF Bots
  <2> DEFINE x == n \div 2
             y == (n + 1) \div 2
  <2> HIDE DEF x, y
  <2>4. Bots(n, m.team) \in {[attackers |-> y, defenders |-> x], [attackers |-> x, defenders |-> y]}
    BY <2>3 DEF x, y
  <2>5. x \in Nat /\ y \in Nat /\ x + y = n /\ y - x \in 0..1
    BY <2>2 DEF x, y
  <2>6. Bots(n, m.team).attackers + Bots(n, m.team).defenders = n
        /\ Bots(n, m.team).attackers - Bots(n, m.team).defenders \in -1..1
    BY <2>4, <2>5
  <2> QED
    BY <2>6 DEF n
<1>11. c.endpoint.port = m.port /\ c.slot > 0
  BY <1>1, <1>9
<1> QED
  BY <1>9, <1>10, <1>11 DEF c

LEMMA JoinedAsShown ==
  ASSUME NEW m, MenuOk(m), m.mode # "host", m.step = "team"
  PROVE  LET c == LaunchConfig(m) IN
         /\ c.server = FALSE
         /\ m.subview = "direct" => /\ c.endpoint = [host |-> m.host.host, port |-> m.port]
                                    /\ c.endpoint.host # "bad"
<1> DEFINE e == IF m.subview = "direct" /\ Resolved(m) # NoEndpoint THEN Resolved(m)
                ELSE [host |-> m.host.host, port |-> ParsedPort(m)]
           d == JoinConfig(m, e)
           tick == Supported(d.tick, DefaultTick)
           snapshot == Min({Supported(d.snapshot, DefaultSnapshot), tick})
           cap == Max({d.cap, Locals})
           c == LaunchConfig(m)
<1>1. m \in Menus /\ m.mode = "join"
  BY DEF MenuOk, Menus
<1>2. m.subview = "direct" => m.host.port = "none" /\ Resolved(m) # NoEndpoint
  BY <1>1 DEF MenuOk, Ready
<1>3. d = [entry |-> "join", slot |-> 0, team |-> m.team, server |-> FALSE, profile |-> m.profile,
           endpoint |-> e, upstream |-> e.host,
           tick |-> DefaultTick, snapshot |-> DefaultSnapshot, cap |-> Locals, bots |-> Bots(0, m.team)]
  BY DEF JoinConfig
<1>4. c = [d EXCEPT !.tick = tick, !.snapshot = snapshot, !.cap = cap, !.server = (d.entry = "host")]
  BY <1>1 DEF LaunchConfig, NormalizedLaunch
<1>5. m.subview = "direct" => e = [host |-> m.host.host, port |-> m.port] /\ m.host.host # "bad"
  BY <1>2 DEF Resolved
<1> HIDE DEF tick, snapshot, cap, e, d, c
<1>6. c.server = (d.entry = "host") /\ c.endpoint = e /\ d.entry = "join"
  BY <1>3, <1>4
<1>7. c.server = FALSE
  BY <1>6
<1>8. m.subview = "direct" => c.endpoint = [host |-> m.host.host, port |-> m.port] /\ c.endpoint.host # "bad"
  BY <1>5, <1>6
<1> QED
  BY <1>7, <1>8, Zenon DEF c

LEMMA MenuShowsLaunch == MenuInv => LaunchesWhatIsShown
<1> SUFFICES ASSUME MenuInv, menu.open PROVE LaunchesWhatIsShown
  BY DEF LaunchesWhatIsShown
<1>1. MenuOk(menu)
  BY DEF MenuInv, MenuClosed
<1>2. menu \in Menus /\ Focused(menu) /\ Browsing(menu)
  BY <1>1 DEF MenuOk
<1>3. menu.profile \in 1..Profiles /\ menu.first \in 1..Max({1, Profiles - Rows + 1})
  <2>1. Profiles \in Nat \ {0} /\ Rows \in Nat \ {0} /\ menu.profile \in 1..Profiles /\ menu.first \in 1..Top
    BY <1>2, MenuAssumption DEF Menus
  <2>2. Max({1, Profiles - Rows + 1}) = Top
    BY GreatestFirst
  <2> QED
    BY <2>1, <2>2
<1>4. menu.step = "team" /\ menu.mode = "host" =>
        LET c == LaunchConfig(menu) IN
        /\ c.server /\ c.endpoint.port = menu.port /\ c.cap = menu.cap /\ c.slot > 0
        /\ c.tick = menu.tick /\ c.snapshot = menu.snapshot
        /\ c.bots.attackers + c.bots.defenders = menu.bots
        /\ c.bots.attackers - c.bots.defenders \in -1..1
  BY <1>1, LaunchedAsShown
<1>5. menu.step = "team" /\ menu.mode # "host" =>
        LET c == LaunchConfig(menu) IN
        ~c.server /\ (menu.subview = "direct" =>
           /\ c.endpoint = [host |-> menu.host.host, port |-> menu.port] /\ c.endpoint.host # "bad")
  BY <1>1, JoinedAsShown
<1> QED
  BY <1>2, <1>3, <1>4, <1>5, Zenon DEF LaunchesWhatIsShown, Focused, Browsing

-----------------------------------------------------------------------------
(***************************************************************************)
(* The character editor.                                                   *)
(***************************************************************************)
Numbers == Nat \ {0}
Characters == [id : Names \X Numbers, name : Names, look : Looks]
Edited == [id : (Names \X Numbers) \cup {<<0, 0>>}, name : Names \cup {0}, look : Looks]
Screens ==
  [open : {TRUE}, profiles : Seq(Edited), at : Nat, editing : Edited, naming : BOOLEAN]

\* No two files are of one character.
DiskOk(disk) ==
  /\ disk \subseteq Characters /\ IsFiniteSet(disk)
  /\ \A c, d \in disk : c.id = d.id => c = d

\* What is edited is what is selected in the list, and only the built-in may have no name.
ScreenOk(s, disk) ==
  /\ s \in Screens /\ s.profiles = Listing(disk)
  /\ s.at \in 1..Len(s.profiles) /\ s.editing.id = s.profiles[s.at].id
  /\ s.editing.id # BuiltIn.id => s.editing \in Characters

CharactersInv ==
  /\ DiskOk(characters) /\ Cardinality(characters) = created
  /\ screen = ScreenClosed \/ ScreenOk(screen, characters)

LEMMA CharacterFacts ==
  ASSUME NEW c \in Characters
  PROVE  /\ c \in Edited /\ c.id # BuiltIn.id /\ c.name \in Nat /\ c.id[1] \in Nat /\ c.id[2] \in Nat
         /\ c.id = <<c.id[1], c.id[2]>>
<1>1. c.id \in Names \X Numbers /\ c.name \in Names /\ c.look \in Looks
      /\ c = [id |-> c.id, name |-> c.name, look |-> c.look]
  BY DEF Characters
<1>2. Names \subseteq Nat \ {0}
  BY PrefsAssumption
<1>3. c.id[1] \in Nat \ {0} /\ c.id[2] \in Nat \ {0} /\ c.id = <<c.id[1], c.id[2]>> /\ c.name \in Nat
  BY <1>1, <1>2 DEF Numbers
<1>4. c.id # <<0, 0>>
  BY <1>3
<1>5. c \in Edited
  BY <1>1 DEF Edited
<1> QED
  BY <1>3, <1>4, <1>5 DEF BuiltIn

LEMMA InOrderLists ==
  ASSUME NEW disk, DiskOk(disk)
  PROVE  InOrder(disk) \in Seq(disk) /\ ToSet(InOrder(disk)) = disk
<1> DEFINE R == {p \in disk \X disk : ListedBefore(p[1], p[2])}
           n == Cardinality(disk)
           IsListing(s) == ToSet(s) = disk /\ \A i, j \in DOMAIN s : i < j => ListedBefore(s[i], s[j])
<1>1. \A c, d \in disk : (<<c, d>> \in R) <=> ListedBefore(c, d)
  OBVIOUS
<1>2. \A c \in disk : c.name \in Nat /\ c.id[1] \in Nat /\ c.id[2] \in Nat /\ c.id = <<c.id[1], c.id[2]>>
  BY CharacterFacts DEF DiskOk
<1>3. \A c, d \in disk : c # d => ListedBefore(c, d) \/ ListedBefore(d, c)
  <2> TAKE c, d \in disk
  <2> HAVE c # d
  <2>1. c.id # d.id
    BY DEF DiskOk
  <2>2. c.id[1] # d.id[1] \/ c.id[2] # d.id[2]
    BY <1>2, <2>1
  <2> QED
    BY <1>2, <2>2 DEF ListedBefore, IdBefore
<1>4. \A c, d, e \in disk : ListedBefore(c, d) /\ ListedBefore(d, e) => ListedBefore(c, e)
  <2> TAKE c, d, e \in disk
  <2> QED
    BY <1>2 DEF ListedBefore, IdBefore
<1>5. TotalOn(R, disk)
  <2> HIDE DEF R
  <2> QED
    BY <1>1, <1>3, <1>4 DEF TotalOn
<1>6. PICK s : Lists(s, disk, R)
  <2> HIDE DEF R
  <2> QED
    BY <1>5, ListingExists DEF DiskOk
<1>7. s \in [1..n -> disk] /\ IsListing(s)
  <2>1. s \in [1..n -> disk] /\ ToSet(s) = disk
    BY <1>6 DEF Lists
  <2>2. \A i, j \in DOMAIN s : i < j => <<s[i], s[j]>> \in R
    BY <1>6 DEF Lists
  <2>3. \A i \in DOMAIN s : s[i] \in disk
    BY <2>1
  <2> HIDE DEF R
  <2> QED
    BY <1>1, <2>1, <2>2, <2>3
<1>8. InOrder(disk) = CHOOSE t \in [1..n -> disk] : IsListing(t)
  BY DEF InOrder
<1> HIDE DEF IsListing
<1>9. InOrder(disk) \in [1..n -> disk] /\ IsListing(InOrder(disk))
  BY <1>7, <1>8, Zenon
<1>10. n \in Nat
  BY FS_CardinalityType DEF DiskOk
<1>11. InOrder(disk) \in Seq(disk)
  <2> DEFINE t == InOrder(disk)
  <2>1. t \in [1..n -> disk]
    BY <1>9
  <2> HIDE DEF t, n
  <2>2. t \in Seq(disk)
    BY <1>10, <2>1
  <2> QED
    BY <2>2 DEF t
<1> QED
  BY <1>9, <1>11, Zenon DEF IsListing

LEMMA BuiltInEdited == BuiltIn \in Edited
BY PrefsAssumption DEF BuiltIn, Edited

\* The built-in comes first, then the characters on disk.
LEMMA ListingFacts ==
  ASSUME NEW disk, DiskOk(disk)
  PROVE  /\ Listing(disk) \in Seq(Edited) /\ 1 \in 1..Len(Listing(disk)) /\ Listing(disk)[1] = BuiltIn
         /\ \A i \in 1..Len(Listing(disk)) : Listing(disk)[i] = BuiltIn \/ Listing(disk)[i] \in disk
         /\ \A c \in disk : \E i \in 1..Len(Listing(disk)) : Listing(disk)[i] = c
<1> DEFINE o == InOrder(disk)
           l == Listing(disk)
<1>1. o \in Seq(disk) /\ ToSet(o) = disk
  BY InOrderLists
<1>2. disk \subseteq Edited
  BY CharacterFacts DEF DiskOk
<1>3. BuiltIn \in Edited
  BY BuiltInEdited
<1>4. l = <<BuiltIn>> \o o
  BY DEF Listing
<1> HIDE DEF o, l
<1>5. o \in Seq(Edited)
  BY <1>1, <1>2
<1>6. /\ l \in Seq(Edited) /\ Len(l) = Len(o) + 1 /\ Len(o) \in Nat /\ l[1] = BuiltIn
      /\ \A i \in 1..Len(o) : l[i + 1] = o[i]
  BY <1>3, <1>4, <1>5
<1>7. \A i \in 1..Len(o) : o[i] \in disk
  BY <1>1
<1>8. \A c \in disk : \E i \in 1..Len(o) : o[i] = c
  BY <1>1 DEF ToSet
<1>9. \A i \in 1..Len(l) : l[i] = BuiltIn \/ l[i] \in disk
  <2> TAKE i \in 1..Len(l)
  <2>1. CASE i = 1
    BY <1>6, <2>1
  <2>2. CASE i # 1
    <3>1. i - 1 \in 1..Len(o) /\ i = (i - 1) + 1
      BY <1>6, <2>2
    <3>2. l[i] = o[i - 1]
      BY <1>6, <3>1
    <3> QED
      BY <1>7, <3>1, <3>2
  <2> QED
    BY <2>1, <2>2
<1>10. \A c \in disk : \E i \in 1..Len(l) : l[i] = c
  <2> TAKE c \in disk
  <2>1. PICK i \in 1..Len(o) : o[i] = c
    BY <1>8
  <2>2. i + 1 \in 1..Len(l) /\ l[i + 1] = c
    BY <1>6, <2>1
  <2> QED
    BY <2>2
<1> QED
  BY <1>6, <1>9, <1>10 DEF l

LEMMA FreeIdIsNew ==
  ASSUME DiskOk(characters), Cardinality(characters) < MaxCharacters, NEW name \in Names
  PROVE  FreeId(name) \in Names \X Numbers /\ \A c \in characters : c.id # FreeId(name)
<1> DEFINE S == 1..(MaxCharacters + 1)
           free == {n \in S : \A c \in characters : c.id # <<name, n>>}
           n0 == Min(free)
<1>1. free # {}
  <2> SUFFICES ASSUME free = {} PROVE FALSE
    OBVIOUS
  <2> DEFINE f == [n \in S |-> CHOOSE c \in characters : c.id = <<name, n>>]
  <2>1. \A n \in S : \E c \in characters : c.id = <<name, n>>
    OBVIOUS
  <2>2. \A n \in S : f[n] \in characters /\ f[n].id = <<name, n>>
    <3> TAKE n \in S
    <3> DEFINE c == CHOOSE c \in characters : c.id = <<name, n>>
    <3>1. c \in characters /\ c.id = <<name, n>>
      BY <2>1, Zenon
    <3>2. f[n] = c
      OBVIOUS
    <3> HIDE DEF f, c
    <3> QED
      BY <3>1, <3>2
  <2>3. f \in [S -> characters]
    <3>1. f = [n \in S |-> f[n]]
      OBVIOUS
    <3> HIDE DEF f
    <3> QED
      BY <2>2, <3>1
  <2>4. IsFiniteSet(S) /\ Cardinality(S) = MaxCharacters + 1 /\ MaxCharacters \in Nat
    BY PrefsAssumption, FS_Interval
  <2>5. IsFiniteSet(characters) /\ Cardinality(characters) \in Nat
    BY FS_CardinalityType DEF DiskOk
  <2> HIDE DEF f, S
  <2>6. Cardinality(characters) < Cardinality(S)
    BY <2>4, <2>5
  <2>7. PICK x, y \in S : x # y /\ f[x] = f[y]
    BY <2>3, <2>4, <2>5, <2>6, FS_PigeonHole
  <2>8. <<name, x>> = <<name, y>>
    BY <2>2, <2>7
  <2> QED
    BY <2>7, <2>8
<1>2. free \in SUBSET Nat
  OBVIOUS
<1>3. n0 \in free
  <2> HIDE DEF free
  <2> QED
    BY <1>1, <1>2, LeastOf
<1>4. n0 \in S /\ \A c \in characters : c.id # <<name, n0>>
  BY <1>3
<1>5. FreeId(name) = <<name, n0>>
  BY DEF FreeId
<1>6. n0 \in Numbers
  <2>1. \A n \in S : n \in Numbers
    BY PrefsAssumption DEF Numbers
  <2> HIDE DEF n0, S
  <2> QED
    BY <1>4, <2>1
<1> HIDE DEF n0
<1> QED
  BY <1>4, <1>5, <1>6

LEMMA ShowingOk ==
  ASSUME NEW s \in Screens, NEW disk, DiskOk(disk), NEW i \in 1..Len(Listing(disk))
  PROVE  ScreenOk(Showing(s, disk, i), disk)
<1> DEFINE l == Listing(disk)
           e == l[i]
           n == Showing(s, disk, i)
<1>1. /\ l \in Seq(Edited) /\ i \in 1..Len(l) /\ i \in Nat
      /\ (e = BuiltIn \/ e \in disk)
  BY ListingFacts
<1>2. n = [s EXCEPT !.profiles = l, !.at = i, !.editing = e, !.naming = FALSE]
  BY DEF Showing
<1>3. e \in Edited
  BY <1>1
<1>4. e.id # BuiltIn.id => e \in Characters
  BY <1>1 DEF DiskOk
<1>5. e = l[i]
  OBVIOUS
<1>6. l = Listing(disk)
  OBVIOUS
<1> HIDE DEF l, e, n
<1>7. n \in Screens /\ n.profiles = l /\ n.at = i /\ n.editing = e
  BY <1>1, <1>2, <1>3 DEF Screens
<1>8. ScreenOk(n, disk)
  BY <1>1, <1>4, <1>5, <1>6, <1>7 DEF ScreenOk
<1> QED
  BY <1>8 DEF n

LEMMA OpenedOk ==
  ASSUME DiskOk(characters)
  PROVE  ScreenOk(OpenedScreen, characters)
<1> DEFINE s == [open |-> TRUE, profiles |-> <<>>, at |-> 1, editing |-> BuiltIn, naming |-> FALSE]
<1>1. s \in Screens
  BY BuiltInEdited DEF Screens
<1>2. OpenedScreen = Showing(s, characters, 1)
  BY DEF OpenedScreen
<1> HIDE DEF s
<1>3. 1 \in 1..Len(Listing(characters))
  BY ListingFacts
<1> QED
  BY <1>1, <1>2, <1>3, ShowingOk

LEMMA SavedOk ==
  ASSUME CharactersInv, ScreenOk(screen, characters), NEW c \in Characters, SavedAs(c)
  PROVE  /\ DiskOk(characters') /\ ScreenOk(screen', characters')
         /\ Cardinality(characters') =
              IF \E d \in characters : d.id = c.id THEN Cardinality(characters) ELSE Cardinality(characters) + 1
<1> DEFINE others == {d \in characters : d.id # c.id}
           disk == others \cup {c}
<1>1. DiskOk(characters)
  BY DEF CharactersInv
<1>2. characters' = disk /\ screen' = Showing(screen, disk, IndexOf(disk, c.id))
  BY DEF SavedAs
<1>3. IsFiniteSet(others) /\ c \notin others
  BY <1>1, FS_Subset DEF DiskOk
<1>4. IsFiniteSet(disk) /\ Cardinality(disk) = Cardinality(others) + 1
  <2> HIDE DEF others
  <2> QED
    BY <1>3, FS_AddElement
<1>5. DiskOk(disk)
  BY <1>1, <1>4 DEF DiskOk
<1>6. Cardinality(others) + 1 =
        IF \E d \in characters : d.id = c.id THEN Cardinality(characters) ELSE Cardinality(characters) + 1
  <2>0. Cardinality(characters) \in Nat /\ IsFiniteSet(characters)
    BY <1>1, FS_CardinalityType DEF DiskOk
  <2>1. CASE \E d \in characters : d.id = c.id
    <3>1. PICK d \in characters : d.id = c.id
      BY <2>1
    <3>2. others = characters \ {d}
      BY <1>1, <3>1 DEF DiskOk
    <3>3. Cardinality(characters \ {d}) = Cardinality(characters) - 1
      BY <2>0, <3>1, FS_RemoveElement
    <3> HIDE DEF others
    <3> QED
      BY <2>0, <2>1, <3>2, <3>3
  <2>2. CASE ~\E d \in characters : d.id = c.id
    <3>1. others = characters
      BY <2>2
    <3> HIDE DEF others
    <3> QED
      BY <2>2, <3>1
  <2> QED
    BY <2>1, <2>2
<1> HIDE DEF others
<1>7. c \in disk
  OBVIOUS
<1> DEFINE i == IndexOf(disk, c.id)
<1> HIDE DEF disk
<1>8. i \in 1..Len(Listing(disk))
  <2>1. PICK j \in 1..Len(Listing(disk)) : Listing(disk)[j] = c
    BY <1>5, <1>7, ListingFacts
  <2>2. \E k \in 1..Len(Listing(disk)) : Listing(disk)[k].id = c.id
    BY <2>1
  <2> QED
    BY <2>2, Zenon DEF IndexOf
<1>9. screen \in Screens
  BY DEF ScreenOk
<1>10. ScreenOk(screen', disk)
  BY <1>2, <1>5, <1>8, <1>9, ShowingOk
<1>11. Cardinality(characters') = Cardinality(others) + 1
  BY <1>2, <1>4
<1> QED
  BY <1>2, <1>5, <1>6, <1>10, <1>11

LEMMA EditingFacts ==
  ASSUME CharactersInv, ScreenOk(screen, characters)
  PROVE  /\ screen \in Screens /\ screen.editing \in Edited /\ screen.editing.look \in Looks
         /\ screen.editing.id # BuiltIn.id =>
              /\ screen.editing \in Characters
              /\ \E d \in characters : d.id = screen.editing.id
<1>1. screen \in Screens /\ screen.profiles = Listing(characters) /\ DiskOk(characters)
  BY DEF CharactersInv, ScreenOk
<1>2. screen.editing \in Edited
  BY <1>1 DEF Screens
<1>3. screen.editing.look \in Looks
  BY <1>2 DEF Edited
<1>4. \/ screen.profiles[screen.at] = BuiltIn
      \/ screen.profiles[screen.at] \in characters
  BY <1>1, ListingFacts DEF ScreenOk
<1> QED
  BY <1>1, <1>2, <1>3, <1>4 DEF ScreenOk

LEMMA GreatestName == Max(Names) \in Names
<1> DEFINE R == {p \in Names \X Names : p[1] < p[2]}
<1>1. IsFiniteSet(Names) /\ Names \subseteq Nat \ {0} /\ Names # {}
  BY PrefsAssumption
<1>2. \A m, n \in Names : (<<m, n>> \in R) <=> m < n
  OBVIOUS
<1> HIDE DEF R
<1>3. \A m, n \in Names : m # n => <<m, n>> \in R \/ <<n, m>> \in R
  <2> TAKE m, n \in Names
  <2>1. m \in Nat /\ n \in Nat
    BY <1>1
  <2> QED
    BY <1>2, <2>1
<1>4. \A m, n, o \in Names : <<m, n>> \in R /\ <<n, o>> \in R => <<m, o>> \in R
  <2> TAKE m, n, o \in Names
  <2>1. m \in Nat /\ n \in Nat /\ o \in Nat
    BY <1>1
  <2> QED
    BY <1>2, <2>1
<1>5. TotalOn(R, Names)
  BY <1>3, <1>4 DEF TotalOn
<1>6. PICK x \in Names : \A y \in Names : y # x => <<y, x>> \in R
  <2>1. IsFiniteSet(Names) /\ Names # {}
    BY <1>1
  <2> QED
    BY <1>5, <2>1, LastExists
<1>7. \A y \in Names : x >= y
  <2> TAKE y \in Names
  <2>1. x \in Nat /\ y \in Nat
    BY <1>1
  <2>2. y # x => y < x
    BY <1>2, <1>6, Zenon
  <2> QED
    BY <2>1, <2>2
<1> QED
  BY <1>7, Zenon DEF Max

LEMMA ScreenKeysOk ==
  ASSUME CharactersInv, ScreenKeys
  PROVE  CharactersInv' /\ screen'.open = TRUE
<1> DEFINE s == screen
<1>1. screen.open
  BY DEF ScreenKeys, SelectCharacter, ClickName, Edit, CreateCharacter, SaveCharacter, DeleteCharacter
<1>2. ScreenOk(screen, characters) /\ DiskOk(characters) /\ Cardinality(characters) = created
  BY <1>1 DEF CharactersInv, ScreenClosed
<1>3. /\ s \in Screens /\ s.profiles = Listing(characters) /\ s.editing \in Edited /\ s.editing.look \in Looks
      /\ s.editing.id # BuiltIn.id => s.editing \in Characters /\ \E d \in characters : d.id = s.editing.id
  BY <1>2, EditingFacts DEF ScreenOk
<1>4. created \in Nat
  BY <1>2, FS_CardinalityType DEF DiskOk
<1> DEFINE Done == /\ DiskOk(characters') /\ Cardinality(characters') = created' /\ ScreenOk(screen', characters')
<1>5. Done => CharactersInv' /\ screen'.open = TRUE
  BY DEF CharactersInv, ScreenOk, Screens
<1>6. CASE SelectCharacter
  <2>1. PICK i \in 1..Len(s.profiles) :
          screen' = [screen EXCEPT !.at = i, !.editing = screen.profiles[i], !.naming = FALSE]
    BY <1>6 DEF SelectCharacter
  <2> DEFINE e == s.profiles[i]
  <2>2. e = BuiltIn \/ e \in characters
    BY <1>2, <1>3, ListingFacts
  <2>3. e \in Edited /\ (e.id # BuiltIn.id => e \in Characters)
    BY <1>2, <2>2, BuiltInEdited, CharacterFacts DEF DiskOk
  <2>4. screen' = [s EXCEPT !.at = i, !.editing = e, !.naming = FALSE]
    BY <2>1
  <2>5. i \in Nat
    BY <1>3 DEF Screens
  <2>6. e = s.profiles[i]
    OBVIOUS
  <2> HIDE DEF e
  <2>7. screen' \in Screens /\ screen'.profiles = s.profiles /\ screen'.at = i /\ screen'.editing = e
    BY <1>3, <2>3, <2>4, <2>5 DEF Screens
  <2>8. UNCHANGED <<characters, created>>
    BY <1>6 DEF SelectCharacter
  <2> QED
    BY <1>2, <1>3, <1>5, <2>3, <2>6, <2>7, <2>8 DEF ScreenOk
<1>7. CASE ClickName
  <2>1. PICK b \in BOOLEAN : screen' = [screen EXCEPT !.naming = b]
    BY <1>7 DEF ClickName
  <2>2. screen' \in Screens /\ screen'.profiles = s.profiles /\ screen'.at = s.at /\ screen'.editing = s.editing
    BY <1>3, <2>1 DEF Screens
  <2>3. UNCHANGED <<characters, created>>
    BY <1>7 DEF ClickName
  <2> QED
    BY <1>2, <1>3, <1>5, <2>2, <2>3 DEF ScreenOk
<1>8. CASE Edit
  <2>1. \/ \E n \in Names : screen' = [screen EXCEPT !.editing.name = n]
        \/ \E l \in Looks : screen' = [screen EXCEPT !.editing.look = l]
    BY <1>8 DEF Edit
  <2>2. PICK e : /\ screen' = [s EXCEPT !.editing = e]
                 /\ \/ \E n \in Names : e = [s.editing EXCEPT !.name = n]
                    \/ \E l \in Looks : e = [s.editing EXCEPT !.look = l]
    BY <2>1
  <2>3. e \in Edited /\ e.id = s.editing.id
    <3>1. CASE \E n \in Names : e = [s.editing EXCEPT !.name = n]
      BY <1>3, <3>1 DEF Edited
    <3>2. CASE \E l \in Looks : e = [s.editing EXCEPT !.look = l]
      BY <1>3, <3>2 DEF Edited
    <3> QED
      BY <2>2, <3>1, <3>2
  <2>4. s.editing \in Characters => e \in Characters
    <3>1. CASE \E n \in Names : e = [s.editing EXCEPT !.name = n]
      BY <3>1 DEF Characters
    <3>2. CASE \E l \in Looks : e = [s.editing EXCEPT !.look = l]
      BY <3>2 DEF Characters
    <3> QED
      BY <2>2, <3>1, <3>2
  <2>5. screen' \in Screens /\ screen'.profiles = s.profiles /\ screen'.at = s.at /\ screen'.editing = e
    BY <1>3, <2>2, <2>3 DEF Screens
  <2>6. UNCHANGED <<characters, created>>
    BY <1>8 DEF Edit
  <2> QED
    BY <1>2, <1>3, <1>5, <2>3, <2>4, <2>5, <2>6 DEF ScreenOk
<1>9. CASE CreateCharacter
  <2>1. CASE SaveFails /\ UNCHANGED created
    BY <1>2, <1>5, <2>1 DEF SaveFails
  <2>2. CASE ~(SaveFails /\ UNCHANGED created)
    <3> DEFINE c == [id |-> FreeId(NewName), name |-> NewName, look |-> screen.editing.look]
    <3>1. SavedAs(c) /\ created' = created + 1 /\ Cardinality(characters) < MaxCharacters
      BY <1>9, <2>2 DEF CreateCharacter
    <3>2. NewName \in Names
      BY PrefsAssumption
    <3>3. FreeId(NewName) \in Names \X Numbers /\ \A d \in characters : d.id # FreeId(NewName)
      BY <1>2, <3>1, <3>2, FreeIdIsNew
    <3>4. c \in Characters /\ c.id = FreeId(NewName)
      BY <1>3, <3>2, <3>3 DEF Characters
    <3> HIDE DEF c
    <3>5. Cardinality(characters') = Cardinality(characters) + 1
      BY <1>2, <3>1, <3>3, <3>4, SavedOk
    <3>6. DiskOk(characters') /\ ScreenOk(screen', characters')
      BY <1>2, <3>1, <3>4, SavedOk
    <3> QED
      BY <1>2, <1>5, <3>1, <3>5, <3>6
  <2> QED
    BY <2>1, <2>2
<1>10. CASE SaveCharacter
  <2>1. CASE s.editing.id # BuiltIn.id
    <3>1. (SavedAs(s.editing) \/ SaveFails) /\ UNCHANGED created
      BY <1>10, <2>1 DEF SaveCharacter
    <3>2. CASE SaveFails
      BY <1>2, <1>5, <3>1, <3>2 DEF SaveFails
    <3>3. CASE SavedAs(s.editing)
      <4>1. Cardinality(characters') = Cardinality(characters)
        BY <1>2, <1>3, <2>1, <3>3, SavedOk
      <4>2. DiskOk(characters') /\ ScreenOk(screen', characters')
        BY <1>2, <1>3, <2>1, <3>3, SavedOk
      <4> QED
        BY <1>2, <1>5, <3>1, <4>1, <4>2
    <3> QED
      BY <3>1, <3>2, <3>3
  <2>2. CASE s.editing.id = BuiltIn.id
    <3> DEFINE name == IF s.editing.name = BuiltIn.name THEN Max(Names) ELSE s.editing.name
               c == [s.editing EXCEPT !.id = FreeId(name), !.name = name]
    <3>1. SavedAs(c) /\ created' = created + 1 /\ Cardinality(characters) < MaxCharacters
      BY <1>10, <2>2 DEF SaveCharacter
    <3>2. name \in Names
      <4>1. Max(Names) \in Names
        BY GreatestName
      <4>2. s.editing.name \in Names \cup {0}
        BY <1>3 DEF Edited
      <4> QED
        BY <4>1, <4>2 DEF BuiltIn
    <3> HIDE DEF name
    <3>3. FreeId(name) \in Names \X Numbers /\ \A d \in characters : d.id # FreeId(name)
      BY <1>2, <3>1, <3>2, FreeIdIsNew
    <3>4. c = [id |-> FreeId(name), name |-> name, look |-> s.editing.look]
      <4> DEFINE e == s.editing
                 i == FreeId(name)
      <4>1. e \in Edited /\ c = [e EXCEPT !.id = i, !.name = name]
        BY <1>3
      <4> HIDE DEF e, i, c
      <4>2. c = [id |-> i, name |-> name, look |-> e.look]
        BY <4>1 DEF Edited
      <4> QED
        BY <4>2 DEF e, i
    <3> HIDE DEF c
    <3>5. c \in Characters /\ c.id = FreeId(name)
      BY <1>3, <3>2, <3>3, <3>4 DEF Characters
    <3>6. Cardinality(characters') = Cardinality(characters) + 1
      BY <1>2, <3>1, <3>3, <3>5, SavedOk
    <3>7. DiskOk(characters') /\ ScreenOk(screen', characters')
      BY <1>2, <3>1, <3>5, SavedOk
    <3> QED
      BY <1>2, <1>5, <3>1, <3>6, <3>7
  <2> QED
    BY <2>1, <2>2
<1>11. CASE DeleteCharacter
  <2> DEFINE disk == {c \in characters : c.id # s.editing.id}
  <2>1. /\ s.editing.id # BuiltIn.id /\ characters' = disk /\ screen' = Showing(s, characters', 1)
        /\ created' = created - 1
    BY <1>11 DEF DeleteCharacter
  <2>2. PICK d \in characters : d.id = s.editing.id
    BY <1>3, <2>1
  <2>3. disk = characters \ {d}
    BY <1>2, <2>2 DEF DiskOk
  <2> HIDE DEF disk
  <2>4. DiskOk(disk) /\ Cardinality(disk) = Cardinality(characters) - 1
    BY <1>2, <2>2, <2>3, FS_RemoveElement DEF DiskOk
  <2>5. 1 \in 1..Len(Listing(disk))
    BY <2>4, ListingFacts
  <2>6. ScreenOk(Showing(s, disk, 1), disk)
    BY <1>3, <2>4, <2>5, ShowingOk
  <2> QED
    BY <1>2, <1>5, <2>1, <2>4, <2>6
<1> QED
  BY <1>6, <1>7, <1>8, <1>9, <1>10, <1>11 DEF ScreenKeys

-----------------------------------------------------------------------------
(***************************************************************************)
(* The files of replays.                                                   *)
(***************************************************************************)
Files == [path : 1..MaxPaths, rec : Recordings, temp : BOOLEAN]

\* Every file has its place, and every recording that was not deleted has a file.
Complete(fs, rs) == fs \subseteq Files /\ \A r \in rs : \E f \in fs : f.rec = r

FilesInv == Complete(files, kept)

LEMMA NewPath ==
  ASSUME files \subseteq Files, NEW f \in files, Max(Paths) < MaxPaths
  PROVE  Max(Paths) + 1 \in 1..MaxPaths /\ f.path # Max(Paths) + 1
<1>1. Paths \in SUBSET (1..MaxPaths) /\ f.path \in Paths
  BY DEF Paths, Files
<1>0. MaxPaths \in Nat /\ Paths \in SUBSET (0..MaxPaths)
  BY <1>1, StudioAssumption
<1>2. Max(Paths) \in Paths /\ Max(Paths) >= f.path
  <2> HIDE DEF Paths
  <2> QED
    BY <1>0, <1>1, GreatestOf
<1> DEFINE m == Max(Paths)
<1>3. m \in 1..MaxPaths /\ m >= f.path /\ f.path \in 1..MaxPaths /\ m < MaxPaths
  BY <1>1, <1>2
<1> HIDE DEF m
<1>4. m + 1 \in 1..MaxPaths /\ f.path # m + 1
  BY <1>0, <1>3
<1> QED
  BY <1>4 DEF m

(***************************************************************************)
(* Renaming.  A recording moves from file to file, the others stay.        *)
(***************************************************************************)
LEMMA MovedComplete ==
  ASSUME FilesInv, NEW f \in files, NEW fs \in SUBSET Files,
         NEW g \in fs, g.rec = f.rec,
         \A h \in files : h.rec # f.rec => h \in fs
  PROVE  Complete(fs, kept)
BY DEF FilesInv, Complete

LEMMA TemporaryFile ==
  ASSUME NEW f \in Files, ~f.temp
  PROVE  Temporary(f) \in Files /\ Temporary(f).rec = f.rec /\ Temporary(f) # f
BY DEF Temporary, Files

LEMMA CommandRenamed ==
  ASSUME FilesInv, NEW f \in files, ~f.temp, NEW r \in RenamesOfCommand(f)
  PROVE  Complete(r.files, kept)
<1> DEFINE t == Temporary(f)
           cleared == files \ {t}
           copied == cleared \cup {t}
           swapped == (copied \ {f, t}) \cup {f}
<1>1. files \subseteq Files /\ t \in Files /\ t.rec = f.rec /\ t # f
  BY TemporaryFile DEF FilesInv, Complete
<1>2. r.files \in {cleared, copied, copied \ {f}, swapped}
  BY DEF RenamesOfCommand
<1> HIDE DEF t
<1>3. Complete(cleared, kept)
  BY <1>1, MovedComplete
<1>4. Complete(copied, kept)
  BY <1>1, MovedComplete
<1>5. Complete(copied \ {f}, kept)
  <2>1. t \in copied \ {f} /\ copied \ {f} \in SUBSET Files
    BY <1>1
  <2>2. \A h \in files : h.rec # f.rec => h \in copied \ {f}
    OBVIOUS
  <2> QED
    BY <1>1, <2>1, <2>2, MovedComplete
<1>6. Complete(swapped, kept)
  <2>1. f \in swapped /\ swapped \in SUBSET Files
    BY <1>1
  <2>2. \A h \in files : h.rec # f.rec => h \in swapped
    BY <1>1
  <2> QED
    BY <1>1, <2>1, <2>2, MovedComplete
<1> QED
  BY <1>2, <1>3, <1>4, <1>5, <1>6

LEMMA LegacyRenamed ==
  ASSUME FilesInv, NEW f \in files, ~f.temp, Max(Paths) < MaxPaths,
         NEW r \in RenamesOfLegacy(f, Max(Paths) + 1)
  PROVE  Complete(r.files, kept)
<1> DEFINE g == [path |-> Max(Paths) + 1, rec |-> f.rec, temp |-> FALSE]
           copied == files \cup {g}
<1>1. files \subseteq Files /\ f \in Files
  BY DEF FilesInv, Complete
<1>2. Max(Paths) + 1 \in 1..MaxPaths /\ f.path # Max(Paths) + 1
  BY <1>1, NewPath
<1>3. r.files \in {files, copied, copied \ {f}}
  BY DEF RenamesOfLegacy
<1>4. g \in Files /\ g.rec = f.rec /\ g # f
  BY <1>1, <1>2 DEF Files
<1> HIDE DEF g
<1>5. Complete(copied, kept)
  BY <1>1, <1>4, MovedComplete
<1>6. Complete(copied \ {f}, kept)
  <2>1. g \in copied \ {f} /\ copied \ {f} \in SUBSET Files
    BY <1>1, <1>4
  <2>2. \A h \in files : h.rec # f.rec => h \in copied \ {f}
    OBVIOUS
  <2> QED
    BY <1>4, <2>1, <2>2, MovedComplete
<1> QED
  BY <1>3, <1>5, <1>6 DEF FilesInv

LEMMA RenameKeepsFiles ==
  ASSUME FilesInv, ApplyRename
  PROVE  FilesInv'
<1> DEFINE f == Selected(studio)
<1>1. /\ Max(Paths) < MaxPaths /\ kept' = kept
      /\ \/ files' = files
         \/ Readable(f) /\ \E r \in Renames(f) : files' = r.files
  BY DEF ApplyRename
<1> HIDE DEF f
<1>2. CASE files' = files
  BY <1>1, <1>2 DEF FilesInv
<1>3. CASE Readable(f) /\ \E r \in Renames(f) : files' = r.files
  <2>1. f \in files /\ ~f.temp
    BY <1>3 DEF Readable, Listed
  <2>2. PICK r \in Renames(f) : files' = r.files
    BY <1>3
  <2>3. r \in RenamesOfCommand(f) \/ r \in RenamesOfLegacy(f, Max(Paths) + 1)
    BY DEF Renames, RenamedTo
  <2>4. Complete(r.files, kept)
    BY <1>1, <2>1, <2>3, CommandRenamed, LegacyRenamed
  <2> QED
    BY <1>1, <2>2, <2>4 DEF FilesInv
<1> QED
  BY <1>1, <1>2, <1>3

LEMMA DeleteKeepsFiles ==
  ASSUME FilesInv, ConfirmDelete
  PROVE  FilesInv'
<1> DEFINE f == Selected(studio)
<1>1. \/ files' = files \ {f} /\ kept' = kept \ {f.rec}
      \/ UNCHANGED <<files, kept>>
  BY DEF ConfirmDelete
<1> HIDE DEF f
<1> QED
  BY <1>1 DEF FilesInv, Complete

(***************************************************************************)
(* Everything else leaves the files alone.                                 *)
(***************************************************************************)
LEMMA KeysKeepFiles ==
  ASSUME FilesInv, StudioKeys
  PROVE  FilesInv'
<1>1. ApplyRename \/ ConfirmDelete \/ UNCHANGED <<files, kept>>
  BY DEF StudioKeys, Preview, Refresh, PlayInLibrary, TimePasses, OpenDialog, CancelDialog,
         Enter, Exit, ReleaseCursor, ToggleSettings, PlayInside, TimePassesInside, CycleTarget,
         ChangeCamera, CreateCheckpoint, GoToCheckpoint, DeleteCheckpoint, AdjustCheckpoint,
         Becomes, Saving
<1>2. CASE UNCHANGED <<files, kept>>
  BY <1>2 DEF FilesInv
<1> QED
  BY <1>1, <1>2, RenameKeepsFiles, DeleteKeepsFiles

-----------------------------------------------------------------------------
(***************************************************************************)
(* The replay studio.                                                      *)
(***************************************************************************)
Loads == [path : 0..MaxPaths, rec : Recordings \cup {None}]

\* What is listed and selected matters to the files alone.
Studios(library, selected) ==
  [open : {TRUE}, library : {library}, selected : {selected}, dialog : {"none", "rename", "delete"},
   loaded : Loads, at : Int, playing : BOOLEAN, track : Tracks,
   inside : BOOLEAN, settings : BOOLEAN, cursorCaptured : BOOLEAN,
   camera : Cameras, follow : Nat \cup {Nobody},
   checkpoints : Nat, checkpoint : Nat, moving : BOOLEAN]

\* What is not a recording is nothing loaded; the tick shown is one of the recording, and the
\* track it is shown on is there.
PlaybackOk(s) ==
  /\ s.loaded.rec \in Recordings => s.at \in 0..End(s)
  /\ s.loaded.rec = None => s.loaded = Unloaded
  /\ CommandLoaded(s) /\ s.track = "control" => s.loaded.rec \in WithControl

\* No dialog is open inside, and the cursor is captured there alone.
ScreenSound(s) ==
  /\ s.inside => s.dialog = "none" /\ CommandLoaded(s)
  /\ s.settings \/ s.cursorCaptured => s.inside
  /\ s.cursorCaptured => ~s.settings

Follows(s) ==
  \/ s.follow \in Present(s.loaded.rec, s.at)
  \/ s.follow = Nobody /\ Present(s.loaded.rec, s.at) = {}

CheckpointsOk(s) ==
  /\ s.checkpoint \in 0..s.checkpoints
  /\ (s.checkpoint = 0) <=> (s.checkpoints = 0)

StudioTyped(s) == s \in Studios(s.library, s.selected)

StudioOk(s) ==
  /\ StudioTyped(s) /\ PlaybackOk(s) /\ ScreenSound(s)
  /\ s.inside => Follows(s) /\ CheckpointsOk(s)

StudioInv == saved \in Nat /\ (studio = Closed \/ StudioOk(studio))

LEMMA Numbered ==
  /\ Commands \subseteq Recordings /\ Legacies \subseteq Recordings /\ None \notin Recordings
  /\ \A r \in Recordings : LastTick[r] \in Nat
  /\ \A r \in Commands : \A t \in 0..LastTick[r] : Present(r, t) \in SUBSET Nat
BY StudioAssumption DEF Recordings, None

LEMMA FollowedOk ==
  ASSUME NEW s, StudioTyped(s), PlaybackOk(s)
  PROVE  /\ \E f \in Nat \cup {Nobody} : Followed(s) = [s EXCEPT !.follow = f]
         /\ CommandLoaded(s) => Follows(Followed(s))
<1> DEFINE P == Present(s.loaded.rec, s.at)
<1>1. s.follow \in Nat \cup {Nobody}
  BY DEF StudioTyped, Studios
<1>2. CASE CommandLoaded(s) /\ s.follow \notin P
  <2> DEFINE f == FirstOf(P)
  <2>1. P \in SUBSET Nat
    BY <1>2, Numbered DEF PlaybackOk, CommandLoaded, End
  <2>2. (P = {} /\ f = Nobody) \/ f \in P
    <3> HIDE DEF P
    <3> QED
      BY <2>1, LeastOf DEF FirstOf
  <2>3. Followed(s) = [s EXCEPT !.follow = f]
    BY <1>2 DEF Followed
  <2>4. f \in Nat \cup {Nobody}
    <3> HIDE DEF f, P
    <3> QED
      BY <2>1, <2>2
  <2> HIDE DEF f
  <2>5. Followed(s).loaded = s.loaded /\ Followed(s).at = s.at /\ Followed(s).follow = f
    BY <2>3 DEF StudioTyped, Studios
  <2>6. Follows(Followed(s))
    BY <2>2, <2>5 DEF Follows
  <2> QED
    BY <2>3, <2>4, <2>6
<1>3. CASE ~(CommandLoaded(s) /\ s.follow \notin P)
  <2>1. Followed(s) = s
    BY <1>3 DEF Followed
  <2>2. s = [s EXCEPT !.follow = s.follow]
    BY DEF StudioTyped, Studios
  <2>3. CommandLoaded(s) => Follows(s)
    BY <1>3 DEF Follows
  <2> QED
    BY <1>1, <2>1, <2>2, <2>3
<1> QED
  BY <1>2, <1>3

\* The studio seen from outside a replay.
StudioOut(s) == StudioTyped(s) /\ PlaybackOk(s) /\ ScreenSound(s) /\ ~s.inside

LEMMA OutIsOk ==
  ASSUME NEW s, StudioOut(s)
  PROVE  StudioOk(s)
BY DEF StudioOut, StudioOk

\* Two screens that differ in playing alone.
SamePlace(s, n) ==
  /\ n.loaded = s.loaded /\ n.dialog = s.dialog /\ n.inside = s.inside /\ n.settings = s.settings
  /\ n.cursorCaptured = s.cursorCaptured /\ n.checkpoints = s.checkpoints /\ n.checkpoint = s.checkpoint

LEMMA SamePlaceOut ==
  ASSUME NEW s, NEW n, StudioOut(s), SamePlace(s, n), StudioTyped(n), PlaybackOk(n)
  PROVE  StudioOut(n)
BY DEF StudioOut, SamePlace, ScreenSound, CommandLoaded

\* Followed changes the actor alone.
LEMMA FollowChanged ==
  ASSUME NEW s, StudioTyped(s), NEW f \in Nat \cup {Nobody}, NEW n, n = [s EXCEPT !.follow = f]
  PROVE  /\ StudioTyped(n) /\ SamePlace(s, n) /\ n.at = s.at /\ n.playing = s.playing /\ n.track = s.track
         /\ n.camera = s.camera /\ n.moving = s.moving /\ n.follow = f
         /\ PlaybackOk(s) => PlaybackOk(n)
<1>1. n \in Studios(s.library, s.selected) /\ n.library = s.library /\ n.selected = s.selected
  BY DEF StudioTyped, Studios
<1>2. /\ n.at = s.at /\ n.playing = s.playing /\ n.track = s.track
      /\ n.camera = s.camera /\ n.moving = s.moving /\ n.follow = f /\ SamePlace(s, n)
  BY DEF StudioTyped, Studios, SamePlace
<1>3. PlaybackOk(s) => PlaybackOk(n)
  BY <1>2 DEF PlaybackOk, SamePlace, CommandLoaded, End
<1> QED
  BY <1>1, <1>2, <1>3 DEF StudioTyped

\* A change of what is loaded and shown, and of the place in it.
LEMMA SeenFrom ==
  ASSUME NEW lib, NEW sel, NEW s \in Studios(lib, sel),
         NEW loaded \in Loads, NEW at \in Int, NEW playing \in BOOLEAN, NEW inside \in BOOLEAN,
         NEW shown \in BOOLEAN,
         NEW n, n = [s EXCEPT !.loaded = loaded, !.at = at, !.playing = playing,
                              !.inside = inside, !.settings = shown]
  PROVE  n \in Studios(lib, sel)
BY DEF Studios

LEMMA LoadedOk ==
  ASSUME files \subseteq Files, NEW s, StudioOut(s)
  PROVE  StudioOut(Loaded(s)) /\ Loaded(s).dialog = s.dialog
<1> DEFINE f == Selected(s)
           n == Loaded(s)
           lib == s.library
           sel == s.selected
<1>1. s \in Studios(lib, sel) /\ lib = s.library /\ sel = s.selected
      /\ ~s.inside /\ ~s.settings /\ ~s.cursorCaptured
  BY DEF StudioOut, StudioTyped, ScreenSound
<1> HIDE DEF lib, sel
<1>2. CASE ~Readable(f)
  <2>1. n = [s EXCEPT !.loaded = Unloaded, !.at = 0, !.playing = FALSE, !.inside = FALSE]
    BY <1>2 DEF Loaded
  <2>2. Unloaded \in Loads /\ Unloaded.rec = None
    BY StudioAssumption DEF Unloaded, Loads, None
  <2> HIDE DEF n
  <2>6. n = [s EXCEPT !.loaded = Unloaded, !.at = 0, !.playing = FALSE, !.inside = FALSE, !.settings = FALSE]
    BY <1>1, <2>1 DEF Studios
  <2>3. n \in Studios(lib, sel)
    <3>1. s \in Studios(lib, sel) /\ Unloaded \in Loads /\ 0 \in Int /\ FALSE \in BOOLEAN
      BY <1>1, <2>2
    <3> QED
      BY <2>6, <3>1, SeenFrom
  <2>5. n.library = lib /\ n.selected = sel
    BY <2>3 DEF Studios
  <2>4. n.loaded = Unloaded /\ n.loaded.rec = None /\ ~n.inside /\ ~n.settings /\ ~n.cursorCaptured
        /\ n.dialog = s.dialog
    BY <1>1, <2>1, <2>2 DEF Studios
  <2> QED
    BY <2>3, <2>4, <2>5, Numbered DEF StudioOut, StudioTyped, PlaybackOk, ScreenSound, CommandLoaded, n
<1>3. CASE Readable(f)
  <2> DEFINE g == [path |-> f.path, rec |-> f.rec]
             l == [s EXCEPT !.loaded = g, !.at = 0, !.playing = TRUE, !.inside = FALSE, !.settings = FALSE]
             track == IF f.rec \in WithControl THEN "control" ELSE "truth"
             c == [l EXCEPT !.track = track, !.camera = "first", !.follow = Nobody, !.moving = FALSE]
  <2>1. f \in Files
    BY <1>3 DEF Readable, Listed
  <2>2. n = IF f.rec \in Legacies THEN l ELSE Followed(c)
    BY <1>3 DEF Loaded
  <2>3. g \in Loads /\ g.rec \in Recordings /\ g.rec = f.rec
    BY <2>1, StudioAssumption DEF Files, Loads
  <2> HIDE DEF f, g
  <2>8. l \in Studios(lib, sel)
    <3>1. s \in Studios(lib, sel) /\ g \in Loads /\ 0 \in Int /\ FALSE \in BOOLEAN /\ TRUE \in BOOLEAN
      BY <1>1, <2>3
    <3> QED
      BY <3>1, SeenFrom
  <2>9. /\ l.loaded = g /\ l.at = 0 /\ ~l.inside /\ ~l.settings /\ ~l.cursorCaptured /\ l.dialog = s.dialog
        /\ l.library = lib /\ l.selected = sel
    BY <1>1, <2>3 DEF Studios
  <2>4. /\ l.loaded = g /\ l.at = 0 /\ ~l.inside /\ ~l.settings /\ ~l.cursorCaptured /\ l.dialog = s.dialog
        /\ l \in Studios(lib, sel) /\ l.library = lib /\ l.selected = sel
    BY <2>8, <2>9
  <2>7. StudioTyped(l) /\ 0 \in 0..LastTick[g.rec] /\ g.rec # None
    <3>1. LastTick[g.rec] \in Nat /\ g.rec # None
      BY <2>3, Numbered
    <3> HIDE DEF l
    <3> QED
      BY <2>4, <3>1 DEF StudioTyped
  <2>5. CASE g.rec \in Legacies
    <3>1. g.rec \notin Commands
      BY <2>5, StudioAssumption
    <3>2. StudioOut(l)
      <4> HIDE DEF l
      <4> QED
        BY <2>3, <2>4, <2>7, <3>1 DEF StudioOut, PlaybackOk, ScreenSound, CommandLoaded, End
    <3> QED
      BY <2>2, <2>3, <2>4, <2>5, <3>2
  <2>6. CASE g.rec \notin Legacies
    <3> HIDE DEF l, n
    <3>1. track \in Tracks /\ (track = "control" => g.rec \in WithControl)
      BY <2>3 DEF Tracks
    <3> HIDE DEF track
    <3>2. /\ c.loaded = g /\ c.at = 0 /\ ~c.inside /\ ~c.settings /\ ~c.cursorCaptured /\ c.track = track
          /\ c \in Studios(lib, sel) /\ c.library = lib /\ c.selected = sel
          /\ c.dialog = s.dialog
      BY <2>4, <3>1 DEF Studios, Cameras
    <3> HIDE DEF c
    <3>3. StudioTyped(c)
      BY <3>2 DEF StudioTyped
    <3>4. StudioOut(c)
      BY <2>7, <3>1, <3>2, <3>3 DEF StudioOut, PlaybackOk, ScreenSound, CommandLoaded, End
    <3>5. n = Followed(c)
      BY <2>2, <2>3, <2>6
    <3>6. PICK h \in Nat \cup {Nobody} : n = [c EXCEPT !.follow = h]
      BY <3>4, <3>5, FollowedOk DEF StudioOut
    <3>7. StudioTyped(n) /\ SamePlace(c, n) /\ PlaybackOk(n)
      BY <3>4, <3>6, FollowChanged DEF StudioOut
    <3>8. StudioOut(n)
      BY <3>4, <3>7, SamePlaceOut
    <3> QED
      BY <3>2, <3>7, <3>8 DEF n, SamePlace
  <2> QED
    BY <2>5, <2>6
<1> QED
  BY <1>2, <1>3

LEMMA SavesTyped ==
  ASSUME saved \in Nat, NEW n \in Nat
  PROVE  SavesOf(n) \subseteq Nat
BY DEF SavesOf

LEMMA EnteredOk ==
  ASSUME saved \in Nat, NEW s, StudioOut(s), CommandLoaded(s), s.dialog = "none"
  PROVE  StudioOk(Entered(s))
<1> DEFINE u == IF s.loaded.rec \in WithControl THEN [s EXCEPT !.track = "control"] ELSE s
           t == Followed(u)
           camera == IF t.follow = Nobody THEN "free" ELSE t.camera
           first == IF saved > 0 THEN 1 ELSE 0
           n == Entered(s)
<1>1. StudioTyped(s) /\ ~s.inside /\ ~s.settings /\ ~s.cursorCaptured
  BY DEF StudioOut, ScreenSound
<1>2. StudioTyped(u) /\ SamePlace(s, u) /\ u.at = s.at /\ PlaybackOk(u)
  <2>1. CASE s.loaded.rec \in WithControl
    <3>1. u = [s EXCEPT !.track = "control"]
      BY <2>1
    <3> HIDE DEF u
    <3>2. /\ SamePlace(s, u) /\ u.at = s.at
          /\ u \in Studios(s.library, s.selected) /\ u.library = s.library /\ u.selected = s.selected
      BY <3>1 DEF StudioOut, StudioTyped, Studios, SamePlace, Tracks
    <3> QED
      BY <2>1, <3>2 DEF StudioOut, StudioTyped, PlaybackOk, SamePlace, CommandLoaded, End
  <2>2. CASE s.loaded.rec \notin WithControl
    BY <2>2 DEF StudioOut, SamePlace
  <2> QED
    BY <2>1, <2>2
<1> HIDE DEF u
<1>3. PICK f \in Nat \cup {Nobody} : t = [u EXCEPT !.follow = f]
  BY <1>2, FollowedOk
<1>4. Follows(t)
  BY <1>2, FollowedOk DEF SamePlace, CommandLoaded
<1>5. n = [t EXCEPT !.inside = TRUE, !.cursorCaptured = TRUE, !.camera = camera,
                    !.checkpoints = saved, !.checkpoint = first, !.moving = FALSE]
  BY DEF Entered, u
<1> HIDE DEF t
<1>6. StudioTyped(t) /\ SamePlace(u, t) /\ PlaybackOk(t)
  BY <1>2, <1>3, FollowChanged
<1>7. camera \in Cameras /\ first \in Nat /\ first \in 0..saved /\ ((first = 0) <=> (saved = 0))
  BY <1>6 DEF StudioTyped, Studios, Cameras
<1> HIDE DEF camera, first, n
<1>8. n \in Studios(t.library, t.selected) /\ n.library = t.library /\ n.selected = t.selected
  BY <1>5, <1>6, <1>7 DEF StudioTyped, Studios
<1>9. /\ n.loaded = s.loaded /\ n.at = t.at /\ n.follow = t.follow /\ n.track = t.track /\ n.inside = TRUE
      /\ n.cursorCaptured = TRUE /\ n.settings = s.settings /\ n.dialog = s.dialog
      /\ n.checkpoints = saved /\ n.checkpoint = first /\ t.loaded = s.loaded
  BY <1>2, <1>5, <1>6 DEF StudioTyped, Studios, SamePlace
<1>10. Follows(n) /\ CheckpointsOk(n)
  BY <1>4, <1>7, <1>9 DEF Follows, CheckpointsOk
<1>11. PlaybackOk(n)
  BY <1>6, <1>9 DEF PlaybackOk, CommandLoaded, End
<1>12. ScreenSound(n)
  BY <1>1, <1>9 DEF ScreenSound, CommandLoaded
<1> QED
  BY <1>8, <1>10, <1>11, <1>12 DEF StudioOk, StudioTyped, n

\* Two screens that show the same.
SameSight(s, n) == SamePlace(s, n) /\ n.at = s.at /\ n.track = s.track /\ n.follow = s.follow

LEMMA SightKept ==
  ASSUME NEW s, NEW n, StudioTyped(n), SameSight(s, n)
  PROVE  /\ StudioOk(s) => StudioOk(n)
         /\ StudioOut(s) => StudioOut(n)
BY DEF SameSight, SamePlace, StudioOk, StudioOut, PlaybackOk, ScreenSound, Follows, CheckpointsOk,
   CommandLoaded, End

LEMMA Listing2 ==
  ASSUME NEW s, StudioTyped(s), NEW library, NEW selected,
         NEW n, n = [s EXCEPT !.library = library, !.selected = selected]
  PROVE  StudioTyped(n) /\ SameSight(s, n)
<1>1. n \in Studios(library, selected) /\ n.library = library /\ n.selected = selected
  BY DEF StudioTyped, Studios
<1>2. SameSight(s, n)
  BY DEF StudioTyped, Studios, SameSight, SamePlace
<1> QED
  BY <1>1, <1>2 DEF StudioTyped

\* Refreshed and SelectedPath change what is listed and selected alone.
LEMMA RefreshedOk ==
  ASSUME NEW s, StudioTyped(s), NEW fs
  PROVE  StudioTyped(Refreshed(s, fs)) /\ SameSight(s, Refreshed(s, fs))
<1> DEFINE selected == IF Library(fs) = <<>> THEN 1 ELSE ClampedTo(s.selected, 1, Len(Library(fs)))
<1>1. Refreshed(s, fs) = [s EXCEPT !.library = Library(fs), !.selected = selected]
  BY DEF Refreshed, StudioTyped, Studios
<1> QED
  BY <1>1, Listing2

LEMMA SelectedPathOk ==
  ASSUME NEW s, StudioTyped(s), NEW path
  PROVE  StudioTyped(SelectedPath(s, path)) /\ SameSight(s, SelectedPath(s, path))
<1>1. PICK selected : SelectedPath(s, path) = [s EXCEPT !.library = s.library, !.selected = selected]
  <2>1. s = [s EXCEPT !.library = s.library, !.selected = s.selected]
    BY DEF StudioTyped, Studios
  <2>2. \A k : [s EXCEPT !.selected = k] = [s EXCEPT !.library = s.library, !.selected = k]
    BY DEF StudioTyped, Studios
  <2> QED
    BY <2>1, <2>2 DEF SelectedPath
<1> QED
  BY <1>1, Listing2

\* n is s at another tick of what is loaded, playing or not.
Moves(s, n) ==
  \E at \in Int, playing \in BOOLEAN :
    /\ n = [s EXCEPT !.at = at, !.playing = playing]
    /\ s.loaded.rec \in Recordings => at \in 0..End(s)

LEMMA MovesOk ==
  ASSUME NEW s, StudioTyped(s), PlaybackOk(s), NEW n, Moves(s, n)
  PROVE  StudioTyped(n) /\ PlaybackOk(n) /\ SamePlace(s, n) /\ n.follow = s.follow
<1>1. PICK at \in Int, playing \in BOOLEAN :
        /\ n = [s EXCEPT !.at = at, !.playing = playing]
        /\ s.loaded.rec \in Recordings => at \in 0..End(s)
  BY DEF Moves
<1> DEFINE lib == s.library
           sel == s.selected
<1>2. s \in Studios(lib, sel)
  BY DEF StudioTyped
<1> HIDE DEF lib, sel
<1>3. n \in Studios(lib, sel)
  BY <1>1, <1>2 DEF Studios
<1>4. /\ n.library = s.library /\ n.selected = s.selected /\ n.at = at /\ n.track = s.track
      /\ n.follow = s.follow /\ SamePlace(s, n)
  BY <1>1, <1>2 DEF Studios, SamePlace
<1>5. StudioTyped(n)
  BY <1>3, <1>4 DEF StudioTyped, lib, sel
<1>6. PlaybackOk(n)
  BY <1>1, <1>4 DEF PlaybackOk, SamePlace, CommandLoaded, End
<1> QED
  BY <1>4, <1>5, <1>6

LEMMA PlaybackMoves ==
  ASSUME NEW s, StudioTyped(s), PlaybackOk(s), s.loaded # Unloaded
  PROVE  /\ Moves(s, Advanced(s)) /\ Moves(s, Restarted(s))
         /\ \A n \in LegacyAdvanced(s) : Moves(s, n)
         /\ \A by \in {-SeekStep, SeekStep} : Moves(s, Sought(s, by))
<1> DEFINE end == End(s)
<1>1. end \in Nat /\ s.at \in 0..end /\ s.at \in Int /\ s.playing \in BOOLEAN /\ SeekStep \in Nat
  BY Numbered, StudioAssumption DEF StudioTyped, Studios, Loads, PlaybackOk, End
<1>2. /\ s = [s EXCEPT !.at = s.at, !.playing = s.playing]
      /\ \A at : [s EXCEPT !.at = at] = [s EXCEPT !.at = at, !.playing = s.playing]
      /\ \A playing : [s EXCEPT !.playing = playing] = [s EXCEPT !.at = s.at, !.playing = playing]
  BY DEF StudioTyped, Studios
<1>3. ASSUME NEW at \in 0..end, NEW playing \in BOOLEAN, NEW n, n = [s EXCEPT !.at = at, !.playing = playing]
      PROVE  Moves(s, n)
  <2>1. at \in Int /\ at \in 0..End(s)
    BY <1>1
  <2> QED
    BY <1>3, <2>1 DEF Moves
<1>4. Moves(s, s)
  BY <1>1, <1>2, <1>3
<1>5. ASSUME NEW at \in 0..end PROVE Moves(s, [s EXCEPT !.at = at])
  BY <1>1, <1>2, <1>3
<1>6. Moves(s, [s EXCEPT !.playing = FALSE])
  BY <1>1, <1>2, <1>3
<1> HIDE DEF end
<1>7. /\ s.at + 1 = end => s.at + 1 \in 0..end
      /\ s.at < end => s.at + 1 \in 0..end
      /\ 0 \in 0..end /\ (end # 0 => 1 \in 0..end)
  BY <1>1
<1>8. Moves(s, Advanced(s))
  BY <1>4, <1>5, <1>6, <1>7 DEF Advanced, end
<1>9. Moves(s, Restarted(s))
  <2> DEFINE zero == 0
  <2>1. zero \in 0..end
    BY <1>7
  <2>2. Restarted(s) = [s EXCEPT !.at = zero, !.playing = IF CommandLoaded(s) THEN s.playing ELSE FALSE]
    BY DEF Restarted, StudioTyped, Studios
  <2> HIDE DEF zero
  <2> QED
    BY <1>1, <1>3, <2>1, <2>2
<1>10. ASSUME NEW n \in LegacyAdvanced(s) PROVE Moves(s, n)
  <2>1. CASE ~s.playing \/ s.at >= end
    BY <1>4, <1>10, <2>1 DEF LegacyAdvanced, end
  <2>2. CASE ~(~s.playing \/ s.at >= end)
    <3>1. s.at < end
      BY <1>1, <2>2
    <3>2. n = [s EXCEPT !.at = s.at + 1] \/ (0 \in 0..end /\ n = [s EXCEPT !.at = 0])
      BY <1>7, <1>10, <2>2 DEF LegacyAdvanced, end
    <3> QED
      BY <1>5, <1>7, <3>1, <3>2
  <2> QED
    BY <2>1, <2>2
<1>11. ASSUME NEW by \in {-SeekStep, SeekStep} PROVE Moves(s, Sought(s, by))
  <2> DEFINE at == ClampedTo(s.at + by, 0, end)
  <2>1. at \in 0..end
    BY <1>1 DEF ClampedTo
  <2>2. Sought(s, by) = [s EXCEPT !.at = at, !.playing = IF CommandLoaded(s) THEN s.playing ELSE FALSE]
    BY DEF Sought, StudioTyped, Studios, end
  <2> HIDE DEF at
  <2> QED
    BY <1>1, <1>3, <2>1, <2>2
<1> QED
  BY <1>8, <1>9, <1>10, <1>11

\* Inside, whatever is done in place ends with an actor that is there.
LEMMA FollowedInside ==
  ASSUME NEW s, StudioOk(s), s.inside, NEW x, StudioTyped(x), PlaybackOk(x), SamePlace(s, x)
  PROVE  StudioOk(Followed(x)) /\ StudioTyped(Followed(x)) /\ SamePlace(s, Followed(x)) 
<1>1. PICK f \in Nat \cup {Nobody} : Followed(x) = [x EXCEPT !.follow = f]
  BY FollowedOk
<1> DEFINE n == Followed(x)
<1>2. Follows(n)
  BY FollowedOk DEF StudioOk, ScreenSound, SamePlace, CommandLoaded
<1>3. n = [x EXCEPT !.follow = f]
  BY <1>1
<1> HIDE DEF n
<1>4. StudioTyped(n) /\ SamePlace(x, n) /\ PlaybackOk(n)
  BY <1>3, FollowChanged
<1>5. SamePlace(s, n)
  BY <1>4 DEF SamePlace
<1>6. StudioOk(n)
  BY <1>2, <1>4, <1>5 DEF StudioOk, SamePlace, ScreenSound, CheckpointsOk, CommandLoaded
<1> QED
  BY <1>4, <1>5, <1>6 DEF n

LEMMA TrackChanged ==
  ASSUME NEW s, StudioTyped(s), PlaybackOk(s), NEW track \in Tracks, track = "control" => s.loaded.rec \in WithControl,
         NEW n, n = [s EXCEPT !.track = track]
  PROVE  StudioTyped(n) /\ PlaybackOk(n) /\ SamePlace(s, n)
<1>1. n \in Studios(s.library, s.selected) /\ n.library = s.library /\ n.selected = s.selected
  BY DEF StudioTyped, Studios
<1>2. n.at = s.at /\ n.track = track /\ SamePlace(s, n)
  BY DEF StudioTyped, Studios, SamePlace
<1>3. PlaybackOk(n)
  BY <1>2 DEF PlaybackOk, SamePlace, CommandLoaded, End
<1> QED
  BY <1>1, <1>2, <1>3 DEF StudioTyped

LEMMA OnTrackOk ==
  ASSUME NEW s, NEW track \in Tracks
  PROVE  /\ StudioOut(s) => StudioOut(OnTrack(s, track))
         /\ StudioOk(s) /\ s.inside => StudioOk(OnTrack(s, track))
<1>1. CASE s.track = track \/ (track = "control" /\ s.loaded.rec \notin WithControl)
  BY <1>1 DEF OnTrack
<1>2. CASE ~(s.track = track \/ (track = "control" /\ s.loaded.rec \notin WithControl))
  <2> DEFINE u == [s EXCEPT !.track = track]
             n == Followed(u)
  <2>1. OnTrack(s, track) = n
    BY <1>2 DEF OnTrack
  <2> SUFFICES ASSUME StudioOut(s) \/ StudioOk(s)
               PROVE  StudioTyped(u) /\ PlaybackOk(u) /\ SamePlace(s, u) /\ (StudioOut(s) => StudioOut(n))
    BY <2>1, FollowedInside
  <2>2. StudioTyped(s) /\ PlaybackOk(s)
    BY DEF StudioOut, StudioOk
  <2>3. StudioTyped(u) /\ PlaybackOk(u) /\ SamePlace(s, u)
    BY <1>2, <2>2, TrackChanged
  <2> HIDE DEF u
  <2>4. PICK f \in Nat \cup {Nobody} : n = [u EXCEPT !.follow = f]
    BY <2>3, FollowedOk
  <2> HIDE DEF n
  <2>5. StudioTyped(n) /\ PlaybackOk(n) /\ SamePlace(u, n)
    BY <2>3, <2>4, FollowChanged
  <2>6. StudioOut(s) => StudioOut(n)
    BY <2>3, <2>5, SamePlaceOut
  <2> QED
    BY <2>3, <2>6
<1> QED
  BY <1>1, <1>2

-----------------------------------------------------------------------------
(* Each key of the studio. *)

LEMMA PreviewKeeps ==
  ASSUME StudioInv, files \subseteq Files, Preview
  PROVE  StudioInv' /\ studio'.open
<1>1. StudioOk(studio) /\ ~studio.inside
  BY DEF Preview, InLibrary, StudioInv, Closed
<1>2. PICK i : studio' = Loaded([studio EXCEPT !.selected = i]) /\ saved' = saved
  BY DEF Preview, Becomes
<1> DEFINE s == [studio EXCEPT !.selected = i]
<1>3. s = [studio EXCEPT !.library = studio.library, !.selected = i]
  BY <1>1 DEF StudioOk, StudioTyped, Studios
<1> HIDE DEF s
<1>4. StudioOut(s)
  <2>1. StudioOut(studio)
    BY <1>1 DEF StudioOk, StudioOut
  <2>2. StudioTyped(s) /\ SameSight(studio, s)
    BY <1>3, <2>1, Listing2 DEF StudioOut
  <2> QED
    BY <2>1, <2>2, SightKept
<1>5. StudioOut(Loaded(s))
  BY <1>4, LoadedOk
<1>6. studio' = Loaded(s)
  BY <1>2 DEF s
<1>7. StudioOk(studio') /\ saved' \in Nat
  BY <1>2, <1>5, <1>6, OutIsOk DEF StudioInv
<1>8. studio'.open
  BY <1>7 DEF StudioOk, StudioTyped, Studios
<1> QED
  BY <1>7, <1>8 DEF StudioInv

\* The library's keys: what is open outside stays open outside.
LEMMA LibraryKeeps ==
  ASSUME StudioInv, Refresh \/ PlayInLibrary \/ TimePasses \/ OpenDialog
  PROVE  StudioInv' /\ studio'.open
<1>1. StudioOut(studio) /\ saved' = saved /\ saved \in Nat
  BY DEF Refresh, PlayInLibrary, TimePasses, OpenDialog, InLibrary, Becomes, StudioInv, Closed,
     StudioOut, StudioOk
<1>2. StudioTyped(studio) /\ PlaybackOk(studio)
  BY <1>1 DEF StudioOut
<1>3. SUFFICES StudioOut(studio')
  BY <1>1, OutIsOk DEF StudioInv, StudioOut, StudioTyped, Studios
<1>4. ASSUME Moves(studio, studio') PROVE StudioOut(studio')
  BY <1>1, <1>2, <1>4, MovesOk, SamePlaceOut
<1>5. CASE Refresh
  BY <1>1, <1>2, <1>5, RefreshedOk, SightKept DEF Refresh, Becomes
<1>6. CASE PlayInLibrary
  <2>1. CASE studio' = [studio EXCEPT !.playing = ~@]
    <3>1. studio' = [studio EXCEPT !.at = studio.at, !.playing = ~studio.playing]
      BY <1>2, <2>1 DEF StudioTyped, Studios
    <3>2. studio.at \in Int /\ (~studio.playing) \in BOOLEAN
      BY <1>2 DEF StudioTyped, Studios
    <3>3. studio.loaded.rec \in Recordings => studio.at \in 0..End(studio)
      BY <1>2 DEF PlaybackOk
    <3>4. Moves(studio, studio')
      BY <3>1, <3>2, <3>3 DEF Moves
    <3> QED
      BY <1>4, <3>4
  <2>2. CASE studio' = Restarted(studio) \/ \E by \in {-SeekStep, SeekStep} : studio' = Sought(studio, by)
    BY <1>2, <1>4, <1>6, <2>2, PlaybackMoves DEF PlayInLibrary
  <2>3. CASE studio' = OnTrack(studio, OtherTrack(studio))
    <3>1. OtherTrack(studio) \in Tracks
      BY DEF OtherTrack, Tracks
    <3> QED
      BY <1>1, <2>3, <3>1, OnTrackOk
  <2> QED
    BY <1>6, <2>1, <2>2, <2>3 DEF PlayInLibrary, Becomes
<1>7. CASE TimePasses
  BY <1>2, <1>4, <1>7, PlaybackMoves DEF TimePasses, Becomes
<1>8. CASE OpenDialog
  <2>1. PICK d \in {"rename", "delete"} : studio' = [studio EXCEPT !.dialog = d]
    BY <1>8 DEF OpenDialog, Becomes
  <2> DEFINE n == studio'
  <2>2. n = [studio EXCEPT !.dialog = d]
    BY <2>1
  <2> HIDE DEF n
  <2>3. n \in Studios(studio.library, studio.selected) /\ n.library = studio.library /\ n.selected = studio.selected
    BY <1>2, <2>2 DEF StudioTyped, Studios
  <2>4. /\ n.loaded = studio.loaded /\ n.at = studio.at /\ n.track = studio.track /\ n.inside = studio.inside
        /\ n.settings = studio.settings /\ n.cursorCaptured = studio.cursorCaptured
    BY <1>2, <2>2 DEF StudioTyped, Studios
  <2>5. StudioOut(n)
    BY <1>1, <2>3, <2>4 DEF StudioOut, StudioTyped, PlaybackOk, ScreenSound, CommandLoaded, End
  <2> QED
    BY <2>5 DEF n
<1> QED
  BY <1>5, <1>6, <1>7, <1>8

LEMMA CancelKeeps ==
  ASSUME StudioInv, CancelDialog
  PROVE  StudioInv' /\ studio'.open
<1>1. StudioOk(studio) /\ saved' = saved /\ studio' = [studio EXCEPT !.dialog = "none"]
  BY DEF CancelDialog, Becomes, StudioInv, Closed
<1> DEFINE n == studio'
<1>2. n = [studio EXCEPT !.dialog = "none"] /\ StudioTyped(studio)
  BY <1>1 DEF StudioOk
<1> HIDE DEF n
<1>3. n \in Studios(studio.library, studio.selected) /\ n.library = studio.library /\ n.selected = studio.selected
  BY <1>2 DEF StudioTyped, Studios
<1>4. /\ n.loaded = studio.loaded /\ n.at = studio.at /\ n.track = studio.track /\ n.inside = studio.inside
      /\ n.settings = studio.settings /\ n.cursorCaptured = studio.cursorCaptured /\ n.follow = studio.follow
      /\ n.checkpoints = studio.checkpoints /\ n.checkpoint = studio.checkpoint /\ n.dialog = "none"
  BY <1>2 DEF StudioTyped, Studios
<1>5. StudioOk(n)
  BY <1>1, <1>3, <1>4 DEF StudioOk, StudioTyped, PlaybackOk, ScreenSound, Follows, CheckpointsOk,
     CommandLoaded, End
<1> QED
  BY <1>1, <1>5 DEF n, StudioInv, StudioOk, StudioTyped, Studios

LEMMA RenameKeeps ==
  ASSUME StudioInv, files \subseteq Files, ApplyRename
  PROVE  StudioInv' /\ saved' = saved
<1>1. StudioOut(studio) /\ saved' = saved /\ saved \in Nat
  BY DEF ApplyRename, StudioInv, Closed, StudioOut, StudioOk, ScreenSound
<1> DEFINE f == Selected(studio)
           place == IF studio.loaded.path = f.path THEN RenamedTo(f) ELSE studio.loaded.path
           loaded == [studio.loaded EXCEPT !.path = place]
           s == [studio EXCEPT !.dialog = "none", !.loaded = loaded]
<1>2. CASE studio' = studio \/ studio' = Closed
  BY <1>1, <1>2, OutIsOk DEF StudioInv
<1>3. CASE ~(studio' = studio \/ studio' = Closed)
  <2>1. PICK r \in Renames(f) : studio' = SelectedPath(Refreshed(s, r.files), RenamedTo(f))
    <3>1. s = [studio EXCEPT !.dialog = "none", !.loaded.path = IF @ = f.path THEN RenamedTo(f) ELSE @]
      BY <1>1 DEF StudioOut, StudioTyped, Studios, Loads
    <3>2. \A r \in Renames(f) : r.end \in {"error", "crash", "done"}
      BY DEF Renames, RenamesOfCommand, RenamesOfLegacy
    <3> HIDE DEF s, f
    <3>3. PICK r \in Renames(f) :
            studio' = CASE r.end = "error" -> studio
                        [] r.end = "crash" -> Closed
                        [] r.end = "done" -> SelectedPath(Refreshed(s, r.files), RenamedTo(f))
      BY <1>3, <3>1 DEF ApplyRename, f
    <3>4. r.end \in {"error", "crash", "done"}
      BY <3>2
    <3> QED
      BY <1>3, <3>3, <3>4
  <2>2. f \in Files /\ Max(Paths) < MaxPaths /\ f \in files
    BY <1>3 DEF ApplyRename, Readable, Listed
  <2>3. RenamedTo(f) \in 1..MaxPaths /\ f.path \in 1..MaxPaths
    BY <2>2, NewPath DEF RenamedTo, Files
  <2> HIDE DEF f
  <2>4. place \in 0..MaxPaths /\ (studio.loaded.rec = None => place = studio.loaded.path)
    <3>1. studio.loaded.path \in 0..MaxPaths
      BY <1>1 DEF StudioOut, StudioTyped, Studios, Loads
    <3>2. RenamedTo(f) \in 0..MaxPaths
      BY <2>3, StudioAssumption
    <3>3. studio.loaded.rec = None => studio.loaded.path = 0
      BY <1>1 DEF StudioOut, PlaybackOk, Unloaded, None
    <3>4. f.path # 0
      BY <2>3, StudioAssumption
    <3> QED
      BY <3>1, <3>2, <3>3, <3>4
  <2> HIDE DEF place
  <2>5. loaded \in Loads /\ loaded.rec = studio.loaded.rec /\ (studio.loaded.rec = None => loaded = studio.loaded)
    BY <1>1, <2>4 DEF StudioOut, StudioTyped, Studios, Loads
  <2> HIDE DEF loaded
  <2>6. /\ s.at = studio.at /\ s.track = studio.track /\ s.inside = studio.inside /\ s.loaded = loaded
        /\ s.settings = studio.settings /\ s.cursorCaptured = studio.cursorCaptured
    BY <1>1 DEF StudioOut, StudioTyped, Studios
  <2>7. s \in Studios(studio.library, studio.selected) /\ s.library = studio.library /\ s.selected = studio.selected
    BY <1>1, <2>5 DEF StudioOut, StudioTyped, Studios
  <2> HIDE DEF s
  <2>8. StudioOut(s)
    <3>1. StudioTyped(s)
      BY <2>7 DEF StudioTyped
    <3>2. PlaybackOk(s)
      BY <1>1, <2>5, <2>6 DEF StudioOut, PlaybackOk, CommandLoaded, End
    <3>3. ~s.inside /\ ScreenSound(s)
      BY <1>1, <2>6 DEF StudioOut, ScreenSound
    <3> QED
      BY <3>1, <3>2, <3>3 DEF StudioOut
  <2>9. StudioOut(Refreshed(s, r.files))
    BY <2>8, RefreshedOk, SightKept DEF StudioOut
  <2>10. StudioOut(studio')
    BY <2>1, <2>9, SelectedPathOk, SightKept DEF StudioOut
  <2> QED
    BY <1>1, <2>10, OutIsOk DEF StudioInv
<1> QED
  BY <1>1, <1>2, <1>3

LEMMA DeleteKeeps ==
  ASSUME StudioInv, ConfirmDelete
  PROVE  StudioInv' /\ studio'.open
<1>1. StudioOut(studio) /\ saved' = saved /\ saved \in Nat /\ studio.open
  BY DEF ConfirmDelete, StudioInv, Closed, StudioOut, StudioOk, ScreenSound
<1> DEFINE zero == 0
           s == [studio EXCEPT !.dialog = "none"]
           u == [s EXCEPT !.loaded = Unloaded, !.at = zero, !.inside = FALSE, !.settings = FALSE]
           lib == studio.library
           sel == studio.selected
<1>2. CASE studio' = studio
  BY <1>1, <1>2, OutIsOk DEF StudioInv
<1>3. CASE studio' # studio
  <2>1. PICK n \in {s, u} : studio' = Refreshed(n, files')
    BY <1>3 DEF ConfirmDelete
  <2>2. zero \in Int /\ Unloaded \in Loads /\ Unloaded.rec = None /\ None \notin Recordings /\ None \notin Commands
    BY StudioAssumption DEF Unloaded, Loads, None, Recordings
  <2>3. studio \in Studios(lib, sel) /\ lib = studio.library /\ sel = studio.selected
        /\ ~studio.inside /\ ~studio.settings /\ ~studio.cursorCaptured
    BY <1>1 DEF StudioOut, StudioTyped, ScreenSound
  <2> HIDE DEF zero, lib, sel
  <2>4. s \in Studios(lib, sel)
    BY <2>3 DEF Studios
  <2>5. /\ s.library = lib /\ s.selected = sel /\ s.loaded = studio.loaded /\ s.at = studio.at /\ s.track = studio.track
        /\ ~s.inside /\ ~s.settings /\ ~s.cursorCaptured
    BY <2>3 DEF Studios
  <2> HIDE DEF s
  <2>6. u \in Studios(lib, sel)
    BY <2>2, <2>4 DEF Studios
  <2>7. u.library = lib /\ u.selected = sel /\ u.loaded = Unloaded /\ ~u.inside /\ ~u.settings /\ ~u.cursorCaptured
    BY <2>4, <2>5 DEF Studios
  <2> HIDE DEF u
  <2>8. StudioOut(s)
    BY <1>1, <2>4, <2>5 DEF StudioOut, StudioTyped, PlaybackOk, ScreenSound, CommandLoaded, End
  <2>9. StudioOut(u)
    BY <2>2, <2>6, <2>7 DEF StudioOut, StudioTyped, PlaybackOk, ScreenSound, CommandLoaded, End
  <2>10. StudioOut(studio')
    BY <2>1, <2>8, <2>9, RefreshedOk, SightKept DEF StudioOut
  <2> QED
    BY <1>1, <2>10, OutIsOk DEF StudioInv, StudioOut, StudioTyped, Studios
<1> QED
  BY <1>2, <1>3

LEMMA EnterKeeps ==
  ASSUME StudioInv, files \subseteq Files, Enter
  PROVE  StudioInv' /\ studio'.open
<1>1. StudioOut(studio) /\ saved' = saved /\ saved \in Nat /\ studio.dialog = "none"
  BY DEF Enter, InLibrary, Becomes, StudioInv, Closed, StudioOut, StudioOk
<1> DEFINE s == Loaded(studio)
<1>2. StudioOut(s) /\ s.dialog = "none"
  BY <1>1, LoadedOk
<1>3. \/ CommandLoaded(studio) /\ studio' = Entered(studio)
      \/ CommandLoaded(s) /\ studio' = Entered(s)
      \/ studio' = s
  BY DEF Enter, Becomes
<1> HIDE DEF s
<1>4. StudioOk(studio')
  BY <1>1, <1>2, <1>3, EnteredOk, OutIsOk
<1> QED
  BY <1>1, <1>4 DEF StudioInv, StudioOk, StudioTyped, Studios

\* The view from inside, closed or with its settings and its cursor changed.
LEMMA ViewKeeps ==
  ASSUME StudioInv, Exit \/ ReleaseCursor \/ ToggleSettings
  PROVE  StudioInv' /\ studio'.open
<1>1. StudioOk(studio) /\ saved \in Nat /\ studio.inside /\ StudioTyped(studio)
  BY DEF Exit, ReleaseCursor, ToggleSettings, Inside, StudioInv, Closed, StudioOk
<1> DEFINE n == studio'
           lib == studio.library
           sel == studio.selected
<1>2. studio \in Studios(lib, sel) /\ lib = studio.library /\ sel = studio.selected
      /\ studio.checkpoints \in Nat /\ studio.settings \in BOOLEAN /\ studio.cursorCaptured \in BOOLEAN
  BY <1>1 DEF StudioTyped, Studios
<1>3. CASE Exit
  <2>1. n = [studio EXCEPT !.inside = FALSE, !.moving = FALSE, !.settings = FALSE, !.cursorCaptured = FALSE]
        /\ saved' \in Nat
    BY <1>1, <1>2, <1>3, SavesTyped DEF Exit
  <2> HIDE DEF n, lib, sel
  <2>2. n \in Studios(lib, sel)
    BY <1>2, <2>1 DEF Studios
  <2>3. /\ n.library = lib /\ n.selected = sel /\ n.loaded = studio.loaded /\ n.at = studio.at /\ n.track = studio.track
        /\ ~n.inside /\ ~n.settings /\ ~n.cursorCaptured
    BY <1>2, <2>1 DEF Studios
  <2>4. StudioOut(n)
    BY <1>1, <2>2, <2>3 DEF StudioOk, StudioOut, StudioTyped, PlaybackOk, ScreenSound, CommandLoaded, End
  <2> QED
    BY <1>2, <2>1, <2>4, OutIsOk DEF StudioInv, StudioOut, StudioTyped, Studios, n
<1>4. CASE ReleaseCursor \/ ToggleSettings
  <2>1. PICK shown \in BOOLEAN, captured \in BOOLEAN :
          /\ n = [studio EXCEPT !.settings = shown, !.cursorCaptured = captured]
          /\ captured => ~shown
    <3>1. CASE ReleaseCursor
      <4>1. studio' = [studio EXCEPT !.settings = studio.settings, !.cursorCaptured = FALSE]
        BY <1>2, <3>1 DEF ReleaseCursor, Becomes, Studios
      <4> QED
        BY <1>2, <4>1
    <3>2. CASE ToggleSettings
      <4>1. studio' = [studio EXCEPT !.settings = ~studio.settings, !.cursorCaptured = studio.settings]
        BY <1>2, <3>2 DEF ToggleSettings, Becomes, Studios
      <4>2. (~studio.settings) \in BOOLEAN /\ (studio.settings => ~(~studio.settings))
        OBVIOUS
      <4> QED
        BY <1>2, <4>1, <4>2, Zenon
    <3> QED
      BY <1>4, <3>1, <3>2
  <2>2. saved' = saved
    BY <1>4 DEF ReleaseCursor, ToggleSettings, Becomes
  <2> HIDE DEF n, lib, sel
  <2>3. n \in Studios(lib, sel)
    BY <1>2, <2>1 DEF Studios
  <2>4. /\ n.library = lib /\ n.selected = sel /\ n.loaded = studio.loaded /\ n.at = studio.at /\ n.track = studio.track
        /\ n.inside = studio.inside /\ n.follow = studio.follow /\ n.dialog = studio.dialog
        /\ n.checkpoints = studio.checkpoints /\ n.checkpoint = studio.checkpoint
    BY <1>2, <2>1 DEF Studios
  <2>5. (n.settings <=> shown) /\ (n.cursorCaptured <=> captured)
    BY <1>2, <2>1 DEF Studios
  <2>6. StudioOk(n)
    BY <1>1, <2>1, <2>3, <2>4, <2>5 DEF StudioOk, StudioTyped, PlaybackOk, ScreenSound, Follows,
       CheckpointsOk, CommandLoaded, End
  <2> QED
    BY <1>1, <2>2, <2>6 DEF StudioInv, StudioOk, StudioTyped, Studios, n
<1> QED
  BY <1>3, <1>4

LEMMA PlayInsideKeeps ==
  ASSUME StudioInv, PlayInside \/ TimePassesInside
  PROVE  StudioInv' /\ studio'.open
<1>1. StudioOk(studio) /\ saved \in Nat /\ studio.inside /\ StudioTyped(studio) /\ PlaybackOk(studio)
      /\ saved' = saved
  BY DEF PlayInside, TimePassesInside, Inside, Becomes, StudioInv, Closed, StudioOk
<1>2. studio.loaded # Unloaded
  BY <1>1, StudioAssumption DEF StudioOk, ScreenSound, CommandLoaded, Unloaded, None, Recordings
<1> SUFFICES StudioOk(studio')
  BY <1>1 DEF StudioInv, StudioOk, StudioTyped, Studios
<1>3. ASSUME NEW x, Moves(studio, x)
      PROVE  StudioOk(Followed(x)) /\ StudioTyped(Followed(x)) /\ SamePlace(studio, Followed(x))
  BY <1>1, <1>3, MovesOk, FollowedInside
<1>4. CASE PlayInside
  <2>1. CASE studio' = [studio EXCEPT !.playing = ~@]
    <3> DEFINE n == studio'
               playing == ~studio.playing
    <3>1. n = [studio EXCEPT !.playing = playing]
      BY <1>1, <2>1 DEF StudioTyped, Studios
    <3>2. playing \in BOOLEAN
      OBVIOUS
    <3> HIDE DEF n, playing
    <3>3. n \in Studios(studio.library, studio.selected) /\ n.library = studio.library /\ n.selected = studio.selected
      BY <1>1, <3>1, <3>2 DEF StudioTyped, Studios
    <3>4. SameSight(studio, n)
      BY <1>1, <3>1 DEF StudioTyped, Studios, SameSight, SamePlace
    <3>5. StudioOk(n)
      BY <1>1, <3>3, <3>4, SightKept DEF StudioTyped
    <3> QED
      BY <3>5 DEF n
  <2>2. CASE studio' = Followed([studio EXCEPT !.at = 0, !.playing = FALSE])
    <3>1. 0 \in Int /\ (studio.loaded.rec \in Recordings => 0 \in 0..End(studio)) /\ FALSE \in BOOLEAN
      BY Numbered DEF End
    <3>2. Moves(studio, [studio EXCEPT !.at = 0, !.playing = FALSE])
      BY <3>1 DEF Moves
    <3> QED
      BY <1>3, <2>2, <3>2
  <2>3. CASE \E by \in {-SeekStep, SeekStep} : studio' = Followed(Sought(studio, by))
    BY <1>1, <1>2, <1>3, <2>3, PlaybackMoves
  <2>4. CASE \E track \in Tracks : studio' = OnTrack(studio, track)
    BY <1>1, <2>4, OnTrackOk
  <2>5. OtherTrack(studio) \in Tracks
    BY DEF OtherTrack, Tracks
  <2> QED
    BY <1>4, <2>1, <2>2, <2>3, <2>4, <2>5 DEF PlayInside, Becomes
<1>5. CASE TimePassesInside
  <2> DEFINE s == Followed(Advanced(studio))
             n == studio'
  <2>1. PICK moving \in BOOLEAN : n = [s EXCEPT !.moving = moving]
    <3>1. studio.moving \in BOOLEAN /\ (studio.moving /\ studio.camera # "free") \in BOOLEAN
      BY <1>1 DEF StudioTyped, Studios
    <3> QED
      BY <1>5, <3>1 DEF TimePassesInside, Becomes
  <2>2. StudioOk(s) /\ StudioTyped(s)
    BY <1>1, <1>2, <1>3, PlaybackMoves
  <2> HIDE DEF s, n
  <2>3. n \in Studios(s.library, s.selected) /\ n.library = s.library /\ n.selected = s.selected
    BY <2>1, <2>2 DEF StudioTyped, Studios
  <2>4. SameSight(s, n)
    BY <2>1, <2>2 DEF StudioTyped, Studios, SameSight, SamePlace
  <2>5. StudioOk(n)
    BY <2>2, <2>3, <2>4, SightKept DEF StudioTyped
  <2> QED
    BY <2>5 DEF n
<1> QED
  BY <1>4, <1>5

LEMMA CameraKeeps ==
  ASSUME StudioInv, CycleTarget \/ ChangeCamera
  PROVE  StudioInv' /\ studio'.open
<1>1. StudioOk(studio) /\ saved \in Nat /\ studio.inside /\ StudioTyped(studio) /\ PlaybackOk(studio)
      /\ saved' = saved
  BY DEF CycleTarget, ChangeCamera, Inside, Becomes, StudioInv, Closed, StudioOk
<1> SUFFICES StudioOk(studio')
  BY <1>1 DEF StudioInv, StudioOk, StudioTyped, Studios
<1>2. studio.camera \in Cameras
  BY <1>1 DEF StudioTyped, Studios
<1>3. CASE ChangeCamera
  <2> DEFINE other == IF studio.camera = "first" THEN "third" ELSE "first"
             flown == IF studio.camera = "free" THEN "first" ELSE "free"
  <2>1. PICK camera \in {other, flown} : studio' = Followed([studio EXCEPT !.moving = FALSE, !.camera = camera])
    <3>1. /\ [studio EXCEPT !.moving = FALSE, !.camera = IF @ = "first" THEN "third" ELSE "first"]
                = [studio EXCEPT !.moving = FALSE, !.camera = other]
          /\ [studio EXCEPT !.moving = FALSE, !.camera = IF @ = "free" THEN "first" ELSE "free"]
                = [studio EXCEPT !.moving = FALSE, !.camera = flown]
      BY <1>1 DEF StudioTyped, Studios
    <3> HIDE DEF other, flown
    <3> QED
      BY <1>3, <3>1 DEF ChangeCamera, Becomes
  <2>2. camera \in Cameras
    BY DEF Cameras
  <2> DEFINE x == [studio EXCEPT !.moving = FALSE, !.camera = camera]
  <2>3. x \in Studios(studio.library, studio.selected) /\ x.library = studio.library /\ x.selected = studio.selected
    BY <1>1, <2>2 DEF StudioTyped, Studios
  <2>4. SameSight(studio, x)
    BY <1>1 DEF StudioTyped, Studios, SameSight, SamePlace
  <2> HIDE DEF x
  <2>5. StudioTyped(x) /\ PlaybackOk(x) /\ SamePlace(studio, x)
    <3>1. StudioTyped(x)
      BY <2>3 DEF StudioTyped
    <3>2. StudioOk(x)
      BY <1>1, <2>4, <3>1, SightKept
    <3> QED
      BY <2>4, <3>1, <3>2 DEF StudioOk, SameSight
  <2> QED
    BY <1>1, <2>1, <2>5, FollowedInside DEF x
<1>4. CASE CycleTarget
  <2> DEFINE n == studio'
             P == Present(studio.loaded.rec, studio.at)
  <2>1. PICK follow, camera :
          /\ n = [studio EXCEPT !.follow = follow, !.camera = camera]
          /\ camera \in Cameras
          /\ follow \in P \/ (P = {} /\ follow = Nobody)
    <3>1. CASE P = {}
      <4>1. n = [studio EXCEPT !.follow = Nobody, !.camera = "free"]
        BY <1>4, <3>1 DEF CycleTarget, NextTarget, Becomes
      <4> QED
        BY <3>1, <4>1 DEF Cameras
    <3>2. CASE P # {}
      <4> DEFINE later == {a \in P : a > studio.follow}
                 follow == IF studio.follow \in P /\ later # {} THEN Min(later) ELSE Min(P)
                 camera == IF studio.camera = "free" THEN "first" ELSE studio.camera
      <4>1. n = [studio EXCEPT !.follow = follow, !.camera = camera]
        BY <1>1, <1>4, <3>2 DEF CycleTarget, NextTarget, Becomes, StudioTyped, Studios
      <4>2. camera \in Cameras
        BY <1>2 DEF Cameras
      <4>3. P \in SUBSET Nat
        BY <1>1, Numbered DEF StudioOk, ScreenSound, PlaybackOk, CommandLoaded, End
      <4>4. follow \in P
        <5>1. later \in SUBSET Nat /\ later \subseteq P
          BY <4>3
        <5> HIDE DEF later, P
        <5>2. Min(P) \in P
          BY <3>2, <4>3, LeastOf
        <5>3. later # {} => Min(later) \in later
          BY <5>1, LeastOf
        <5> QED
          BY <5>1, <5>2, <5>3
      <4> HIDE DEF later, follow, camera, P, n
      <4> QED
        BY <4>1, <4>2, <4>4
    <3> QED
      BY <3>1, <3>2
  <2>2. P \in SUBSET Nat /\ follow \in Nat \cup {Nobody}
    <3>1. P \in SUBSET Nat
      BY <1>1, Numbered DEF StudioOk, ScreenSound, PlaybackOk, CommandLoaded, End
    <3> HIDE DEF P
    <3> QED
      BY <2>1, <3>1
  <2> HIDE DEF n, P
  <2>3. n \in Studios(studio.library, studio.selected) /\ n.library = studio.library /\ n.selected = studio.selected
    BY <1>1, <2>1, <2>2 DEF StudioTyped, Studios
  <2>4. SamePlace(studio, n) /\ n.at = studio.at /\ n.track = studio.track /\ n.follow = follow
    BY <1>1, <2>1 DEF StudioTyped, Studios, SamePlace
  <2>5. StudioOk(n)
    BY <1>1, <2>1, <2>3, <2>4 DEF StudioOk, StudioTyped, SamePlace, PlaybackOk, ScreenSound, Follows,
       CheckpointsOk,
       CommandLoaded, End, P
  <2> QED
    BY <2>5 DEF n
<1> QED
  BY <1>3, <1>4

\* Whatever is saved, the list on the screen and the aim change together.
LEMMA CheckpointsKeep ==
  ASSUME StudioInv, CreateCheckpoint \/ GoToCheckpoint \/ DeleteCheckpoint \/ AdjustCheckpoint
  PROVE  StudioInv' /\ studio'.open
<1> DEFINE count == studio.checkpoints
           aim == studio.checkpoint
<1>1. StudioOk(studio) /\ saved \in Nat /\ count \in Nat /\ aim \in 0..count
      /\ ((aim = 0) <=> (count = 0)) /\ studio.moving \in BOOLEAN
  <2>1. studio.open /\ studio.inside
    BY DEF CreateCheckpoint, GoToCheckpoint, DeleteCheckpoint, AdjustCheckpoint, Inside
  <2>2. StudioOk(studio) /\ saved \in Nat
    BY <2>1 DEF StudioInv, Closed
  <2>3. count \in Nat /\ studio.moving \in BOOLEAN
    BY <2>2 DEF StudioOk, StudioTyped, Studios
  <2> QED
    BY <2>1, <2>2, <2>3 DEF StudioOk, CheckpointsOk
<1>2. ASSUME NEW checkpoints \in Nat, NEW checkpoint \in 0..checkpoints, (checkpoint = 0) <=> (checkpoints = 0),
             NEW moving \in BOOLEAN, saved' \in Nat,
             studio' = [studio EXCEPT !.checkpoints = checkpoints, !.checkpoint = checkpoint, !.moving = moving]
      PROVE  StudioInv' /\ studio'.open
  <2> DEFINE n == studio'
  <2>1. n = [studio EXCEPT !.checkpoints = checkpoints, !.checkpoint = checkpoint, !.moving = moving]
    BY <1>2
  <2>2. studio \in Studios(studio.library, studio.selected) /\ checkpoint \in Nat
    BY <1>1, <1>2 DEF StudioOk, StudioTyped
  <2> HIDE DEF n
  <2>3. n \in Studios(studio.library, studio.selected) /\ n.library = studio.library /\ n.selected = studio.selected
    BY <1>2, <2>1, <2>2 DEF Studios
  <2>4. /\ n.loaded = studio.loaded /\ n.at = studio.at /\ n.track = studio.track
        /\ n.inside = studio.inside /\ n.follow = studio.follow /\ n.dialog = studio.dialog
        /\ n.settings = studio.settings /\ n.cursorCaptured = studio.cursorCaptured
        /\ n.checkpoints = checkpoints /\ n.checkpoint = checkpoint
    BY <1>2, <2>1, <2>2 DEF Studios
  <2>5. StudioOk(n)
    BY <1>1, <1>2, <2>3, <2>4 DEF StudioOk, StudioTyped, PlaybackOk, ScreenSound, Follows,
       CheckpointsOk, CommandLoaded, End
  <2> QED
    BY <1>2, <2>5 DEF StudioInv, StudioOk, StudioTyped, Studios, n
<1>3. TRUE \in BOOLEAN /\ FALSE \in BOOLEAN
  OBVIOUS
<1> QED
  <2>1. CASE CreateCheckpoint
    <3>1. studio' = [studio EXCEPT !.checkpoints = count + 1, !.checkpoint = count + 1, !.moving = TRUE]
      BY <1>1, <2>1 DEF CreateCheckpoint, Saving, StudioOk, StudioTyped, Studios
    <3>2. count + 1 \in Nat /\ count + 1 \in 0..(count + 1) /\ count + 1 # 0
      BY <1>1
    <3>3. saved' \in Nat
      BY <1>1, <2>1, <3>1, <3>2, SavesTyped DEF CreateCheckpoint, Saving
    <3> HIDE DEF count, aim
    <3> QED
      BY <1>2, <1>3, <3>1, <3>2, <3>3
  <2>2. CASE GoToCheckpoint
    <3>1. PICK i \in {CyclePrevious(studio), CycleNext(studio)} :
            studio' = [studio EXCEPT !.checkpoint = i, !.moving = TRUE] /\ saved' = saved
      BY <2>2 DEF GoToCheckpoint, Becomes
    <3>2. count > 0
      BY <2>2 DEF GoToCheckpoint
    <3>3. i \in {IF aim <= 1 THEN count ELSE aim - 1, IF aim >= count THEN 1 ELSE aim + 1}
      BY DEF CyclePrevious, CycleNext
    <3>4. studio' = [studio EXCEPT !.checkpoints = count, !.checkpoint = i, !.moving = TRUE]
      BY <1>1, <3>1 DEF StudioOk, StudioTyped, Studios
    <3> HIDE DEF count, aim
    <3>5. i \in 1..count
      BY <1>1, <3>2, <3>3
    <3>6. i \in 0..count /\ i # 0 /\ count # 0
      BY <1>1, <3>2, <3>5
    <3> QED
      BY <1>1, <1>2, <1>3, <3>1, <3>4, <3>6
  <2>3. CASE DeleteCheckpoint
    <3> DEFINE left == count - 1
               new == IF left = 0 THEN 0 ELSE IF aim > left THEN 1 ELSE aim
    <3>1. studio' = [studio EXCEPT !.checkpoints = left, !.checkpoint = new, !.moving = FALSE] /\ count > 0
      BY <1>1, <2>3 DEF DeleteCheckpoint, Saving, DeletedCheckpoint, StudioOk, StudioTyped, Studios
    <3>2. saved' \in SavesOf(left)
      BY <2>3 DEF DeleteCheckpoint, Saving, DeletedCheckpoint
    <3> HIDE DEF count, aim
    <3>3. left \in Nat /\ new \in 0..left /\ ((new = 0) <=> (left = 0))
      BY <1>1, <3>1
    <3>4. saved' \in Nat
      BY <1>1, <3>2, <3>3, SavesTyped
    <3> HIDE DEF left, new
    <3> QED
      BY <1>2, <1>3, <3>1, <3>3, <3>4
  <2>4. CASE AdjustCheckpoint
    <3>1. studio' = studio /\ saved' \in Nat
      BY <1>1, <2>4, SavesTyped DEF AdjustCheckpoint, Saving
    <3> QED
      BY <1>1, <3>1 DEF StudioInv, StudioOk, StudioTyped, Studios
  <2> QED
    BY <2>1, <2>2, <2>3, <2>4

LEMMA OpenStudioKeeps ==
  ASSUME StudioInv, Open
  PROVE  StudioInv' /\ studio'.open
<1> DEFINE n == Fresh
           lib == Fresh.library
<1>1. 0 \in Int /\ 0 \in Nat /\ Unloaded \in Loads /\ Unloaded.rec = None /\ None \notin Recordings /\ None \notin Commands
  BY StudioAssumption DEF Unloaded, Loads, None, Recordings
<1>2. n \in Studios(n.library, n.selected)
  BY <1>1 DEF Fresh, Studios, Tracks, Cameras
<1>3. n.loaded = Unloaded /\ ~n.inside /\ ~n.settings /\ ~n.cursorCaptured
  BY DEF Fresh
<1> HIDE DEF n
<1>4. StudioOut(n)
  BY <1>1, <1>2, <1>3 DEF StudioOut, StudioTyped, PlaybackOk, ScreenSound, CommandLoaded
<1>5. StudioOut(Refreshed(n, files))
  BY <1>4, RefreshedOk, SightKept DEF StudioOut
<1>6. studio' = Refreshed(n, files) /\ saved' = saved
  BY DEF Open, n
<1> QED
  BY <1>5, <1>6, OutIsOk DEF StudioInv, StudioOut, StudioTyped, Studios

LEMMA StudioKeysKeep ==
  ASSUME StudioInv, files \subseteq Files, StudioKeys
  PROVE  StudioInv'
BY PreviewKeeps, LibraryKeeps, CancelKeeps, RenameKeeps, DeleteKeeps, EnterKeeps, ViewKeeps,
   PlayInsideKeeps,
   CameraKeeps, CheckpointsKeep DEF StudioKeys

LEMMA StudioShown ==
  ASSUME StudioInv
  PROVE  InsideIsSound /\ StudioFreesCursor
<1>1. CASE studio = Closed
  BY <1>1 DEF InsideIsSound, StudioFreesCursor, Inside, Closed
<1>2. CASE StudioOk(studio)
  BY <1>2 DEF InsideIsSound, StudioFreesCursor, Inside, StudioOk, PlaybackOk, ScreenSound, Follows,
     CheckpointsOk
<1> QED
  BY <1>1, <1>2 DEF StudioInv

-----------------------------------------------------------------------------
(***************************************************************************)
(* The level editor.                                                       *)
(***************************************************************************)
Items == [left : Int, size : Nat \ {0}]

\* Where an item of a kind may be.
OkItems(kind) ==
  {item \in Items : IF kind = "character"
                    THEN item.size = 1 /\ Distance(item.left, -1) <= 2 * (ArenaSize + 1)
                    ELSE InArena(item)}

ItemsOk(items) ==
  /\ items = [k \in Kinds |-> items[k]]
  /\ \A k \in Kinds : items[k] \in Seq(OkItems(k))

LevelOk(items, typed) ==
  ItemsOk(items) /\ (~typed => Disjoint(items["obstacle"]))

Refs == [kind : Kinds \cup {"none"}, index : Nat]

Editors(items) ==
  [open : {TRUE}, items : {items}, typed : BOOLEAN, tool : Tools, selection : Refs, field : BOOLEAN,
   dragging : {"none", "selection", "placement"}, dragged : Refs, from : Int,
   selector : {"none", "save", "load"}]

\* What is selected exists, and only what is placed by dragging is being placed.
EditOk(s) ==
  /\ s \in Editors(s.items) /\ LevelOk(s.items, s.typed)
  /\ s.selection # NoSelection => Exists(s, s.selection)
  /\ s.field => s.selection.kind \in {"obstacle", "area"}
  /\ s.dragging = "placement" => s.tool \in {"obstacle", "area"}

LEMMA IntPair ==
  ASSUME NEW a \in Int, NEW b \in Int
  PROVE  /\ Max({a, b}) = IF a < b THEN b ELSE a
         /\ Min({a, b}) = IF a < b THEN a ELSE b
<1> DEFINE S == {a, b}
           high == IF a < b THEN b ELSE a
           low == IF a < b THEN a ELSE b
<1>1. high \in S /\ low \in S /\ \A x \in S : x \in Int /\ high >= x /\ low <= x
  OBVIOUS
<1>2. Max(S) \in S /\ \A x \in S : Max(S) >= x
  BY <1>1, Zenon DEF Max
<1>3. Min(S) \in S /\ \A x \in S : Min(S) <= x
  BY <1>1, Zenon DEF Min
<1>4. Max(S) \in Int /\ high \in Int /\ Max(S) >= high /\ high >= Max(S)
  BY <1>1, <1>2
<1>5. Min(S) \in Int /\ low \in Int /\ Min(S) <= low /\ low <= Min(S)
  BY <1>1, <1>3
<1> HIDE DEF S, high, low
<1>6. Max(S) = high /\ Min(S) = low
  BY <1>4, <1>5
<1> QED
  BY <1>6 DEF S, high, low

LEMMA ClampIs ==
  ASSUME NEW n \in Int, NEW low \in Int, NEW high \in Int
  PROVE  /\ Clamp(n, low, high) \in Int /\ Clamp(n, low, high) <= high
         /\ low <= high => low <= Clamp(n, low, high)
<1> DEFINE m == Max({n, low})
<1>1. m \in Int /\ m >= low
  BY IntPair
<1> HIDE DEF m
<1>2. Min({m, high}) = IF m < high THEN m ELSE high
  BY <1>1, IntPair
<1>3. Clamp(n, low, high) = IF m < high THEN m ELSE high
  BY <1>2 DEF Clamp, m
<1> QED
  BY <1>1, <1>3

LEMMA ClampedOk ==
  ASSUME NEW item \in Items, NEW kind, kind # "character"
  PROVE  Clamped(item) \in OkItems(kind)
<1> DEFINE low == -2 * ArenaSize
           high == 2 * ArenaSize - 2 * item.size
           left == Clamp(item.left, low, high)
           n == Clamped(item)
<1>1. item.left \in Int /\ item.size \in Nat \ {0} /\ ArenaSize \in Nat
  BY EditorAssumption DEF Items
<1>2. low \in Int /\ high \in Int
  BY <1>1
<1>3. left \in Int /\ left <= high /\ (low <= high => low <= left)
  <2> HIDE DEF low, high
  <2> QED
    BY <1>1, <1>2, ClampIs
<1>4. n = [item EXCEPT !.left = left]
  BY DEF Clamped, Items
<1> HIDE DEF left, n
<1>5. n \in Items /\ n.left = left /\ n.size = item.size
  BY <1>1, <1>3, <1>4 DEF Items
<1>6. InArena(n)
  BY <1>1, <1>3, <1>5 DEF InArena, MaxUnits, Right
<1> QED
  BY <1>5, <1>6 DEF OkItems, n

\* A cell where something may be put, or a step outside them.
NearCells == (-ArenaSize - 1)..(ArenaSize + 1)

LEMMA PlacedOk ==
  ASSUME NEW kind \in Kinds, NEW cell \in NearCells, NEW size \in Nat \ {0}, kind = "character" => size = 1
  PROVE  Placed(kind, cell, size) \in OkItems(kind)
<1> DEFINE b == Brush(cell, size)
<1>1. cell \in Int /\ ArenaSize \in Nat /\ -ArenaSize - 1 <= cell /\ cell <= ArenaSize + 1
  BY EditorAssumption DEF NearCells
<1>2. b \in Items /\ b.left = 2 * cell - size /\ b.size = size
  BY <1>1 DEF Brush, Items
<1> HIDE DEF b
<1>3. CASE kind = "character"
  <2>1. Distance(b.left, -1) <= 2 * (ArenaSize + 1)
    BY <1>1, <1>2, <1>3 DEF Distance
  <2> QED
    BY <1>2, <1>3, <2>1 DEF Placed, OkItems, b
<1>4. CASE kind # "character"
  BY <1>2, <1>4, ClampedOk DEF Placed, b
<1> QED
  BY <1>3, <1>4

(* Obstacles apart from each other. *)

LEMMA DisjointPut ==
  ASSUME NEW S, NEW q \in Seq(S), Disjoint(q), NEW i \in DOMAIN q, NEW item,
         \A j \in DOMAIN q \ {i} : ~Overlap(item, q[j])
  PROVE  Disjoint([q EXCEPT ![i] = item])
<1> DEFINE r == [q EXCEPT ![i] = item]
<1>1. DOMAIN r = DOMAIN q /\ r[i] = item /\ \A j \in DOMAIN q \ {i} : r[j] = q[j]
  OBVIOUS
<1> HIDE DEF r
<1>2. \A a, b : Overlap(a, b) => Overlap(b, a)
  BY DEF Overlap
<1>3. ASSUME NEW j \in DOMAIN r, NEW k \in DOMAIN r, j < k PROVE ~Overlap(r[j], r[k])
  <2>1. DOMAIN q = 1..Len(q) /\ j \in Int /\ k \in Int /\ j # k
    BY <1>1, <1>3
  <2>2. CASE j = i
    BY <1>1, <2>1, <2>2
  <2>3. CASE k = i
    BY <1>1, <1>2, <2>1, <2>3
  <2>4. CASE j # i /\ k # i
    BY <1>1, <1>3, <2>4 DEF Disjoint
  <2> QED
    BY <2>2, <2>3, <2>4
<1> QED
  BY <1>3 DEF Disjoint, r

LEMMA DisjointAppend ==
  ASSUME NEW S, NEW q \in Seq(S), Disjoint(q), NEW item \in S,
         \A j \in DOMAIN q : ~Overlap(item, q[j])
  PROVE  Disjoint(Append(q, item))
<1> DEFINE r == Append(q, item)
<1>1. /\ Len(q) \in Nat /\ DOMAIN q = 1..Len(q) /\ DOMAIN r = 1..(Len(q) + 1)
      /\ r[Len(q) + 1] = item /\ \A j \in 1..Len(q) : r[j] = q[j]
  OBVIOUS
<1> HIDE DEF r
<1>2. \A a, b : Overlap(a, b) => Overlap(b, a)
  BY DEF Overlap
<1>3. ASSUME NEW j \in DOMAIN r, NEW k \in DOMAIN r, j < k PROVE ~Overlap(r[j], r[k])
  <2>1. j \in 1..Len(q) /\ (k = Len(q) + 1 \/ k \in 1..Len(q))
    BY <1>1, <1>3
  <2>2. CASE k = Len(q) + 1
    BY <1>1, <1>2, <2>1, <2>2
  <2>3. CASE k \in 1..Len(q)
    BY <1>1, <1>3, <2>1, <2>3 DEF Disjoint
  <2> QED
    BY <2>1, <2>2, <2>3
<1> QED
  BY <1>3 DEF Disjoint, r

LEMMA RemovedFrom ==
  ASSUME NEW S, NEW q \in Seq(S), NEW i \in DOMAIN q
  PROVE  /\ RemoveAt(q, i) \in Seq(S) /\ DOMAIN RemoveAt(q, i) = 1..(Len(q) - 1)
         /\ \A j \in 1..(Len(q) - 1) : RemoveAt(q, i)[j] = q[IF j < i THEN j ELSE j + 1]
<1> DEFINE a == SubSeq(q, 1, i - 1)
           b == SubSeq(q, i + 1, Len(q))
<1>1. Len(q) \in Nat /\ i \in 1..Len(q) /\ \A j \in 1..Len(q) : q[j] \in S
  OBVIOUS
<1>2. a \in Seq(S) /\ Len(a) = i - 1 /\ \A j \in 1..(i - 1) : a[j] = q[j]
  OBVIOUS
<1>3. b \in Seq(S) /\ Len(b) = Len(q) - i /\ \A j \in 1..(Len(q) - i) : b[j] = q[i + j]
  OBVIOUS
<1>4. RemoveAt(q, i) = a \o b
  BY DEF RemoveAt
<1> HIDE DEF a, b
<1>5. /\ a \o b \in Seq(S) /\ Len(a \o b) = Len(q) - 1
      /\ \A j \in 1..Len(a \o b) : (a \o b)[j] = IF j <= Len(a) THEN a[j] ELSE b[j - Len(a)]
  BY <1>1, <1>2, <1>3
<1>6. ASSUME NEW j \in 1..(Len(q) - 1) PROVE (a \o b)[j] = q[IF j < i THEN j ELSE j + 1]
  <2>1. CASE j < i
    BY <1>1, <1>2, <1>5, <2>1
  <2>2. CASE ~(j < i)
    <3>1. j - (i - 1) \in 1..(Len(q) - i) /\ i + (j - (i - 1)) = j + 1 /\ ~(j <= i - 1)
      BY <1>1, <2>2
    <3> QED
      BY <1>1, <1>2, <1>3, <1>5, <2>2, <3>1
  <2> QED
    BY <2>1, <2>2
<1> QED
  BY <1>4, <1>5, <1>6

LEMMA DisjointRemove ==
  ASSUME NEW S, NEW q \in Seq(S), Disjoint(q), NEW i \in DOMAIN q
  PROVE  Disjoint(RemoveAt(q, i))
<1> DEFINE r == RemoveAt(q, i)
           at(j) == IF j < i THEN j ELSE j + 1
<1>1. DOMAIN r = 1..(Len(q) - 1) /\ \A j \in 1..(Len(q) - 1) : r[j] = q[at(j)]
  BY RemovedFrom
<1> HIDE DEF r
<1>2. Len(q) \in Nat /\ i \in 1..Len(q) /\ DOMAIN q = 1..Len(q)
  OBVIOUS
<1>3. \A j, k \in 1..(Len(q) - 1) : j < k => at(j) \in DOMAIN q /\ at(k) \in DOMAIN q /\ at(j) < at(k)
  BY <1>2
<1> HIDE DEF at
<1> QED
  BY <1>1, <1>3 DEF Disjoint, r

(* A level whose items of one kind change. *)

Replaces(items, kind, r, n) == n = [items EXCEPT ![kind] = r]

LEMMA ItemsChanged ==
  ASSUME NEW items, ItemsOk(items), NEW kind \in Kinds, NEW r \in Seq(OkItems(kind)),
         NEW n, Replaces(items, kind, r, n)
  PROVE  ItemsOk(n) /\ n[kind] = r /\ \A k \in Kinds \ {kind} : n[k] = items[k]
<1>1. items = [k \in Kinds |-> items[k]] /\ \A k \in Kinds : items[k] \in Seq(OkItems(k))
  BY DEF ItemsOk
<1>2. n = [k \in Kinds |-> n[k]] /\ n[kind] = r /\ \A k \in Kinds \ {kind} : n[k] = items[k]
  BY <1>1 DEF Replaces
<1> QED
  BY <1>1, <1>2 DEF ItemsOk

LEMMA LevelChanged ==
  ASSUME NEW items, NEW typed, LevelOk(items, typed), NEW kind \in Kinds, NEW r \in Seq(OkItems(kind)),
         kind = "obstacle" /\ Disjoint(items["obstacle"]) => Disjoint(r),
         NEW n, Replaces(items, kind, r, n)
  PROVE  LevelOk(n, typed) /\ n[kind] = r /\ \A k \in Kinds \ {kind} : n[k] = items[k]
<1>1. ItemsOk(items) /\ (~typed => Disjoint(items["obstacle"]))
  BY DEF LevelOk
<1>2. ItemsOk(n) /\ n[kind] = r /\ \A k \in Kinds \ {kind} : n[k] = items[k]
  BY <1>1, ItemsChanged
<1>3. "obstacle" \in Kinds
  BY DEF Kinds
<1>4. Disjoint(items["obstacle"]) => Disjoint(n["obstacle"])
  BY <1>2, <1>3
<1> QED
  BY <1>1, <1>2, <1>4 DEF LevelOk

LEMMA ItemsListed ==
  ASSUME NEW items, NEW typed, LevelOk(items, typed), NEW kind \in Kinds
  PROVE  /\ items[kind] \in Seq(OkItems(kind)) /\ Len(items[kind]) \in Nat
         /\ DOMAIN items[kind] = 1..Len(items[kind])
<1>1. items[kind] \in Seq(OkItems(kind))
  BY DEF LevelOk, ItemsOk
<1> QED
  BY <1>1

LEMMA LevelPut ==
  ASSUME NEW items, NEW typed, LevelOk(items, typed), NEW kind \in Kinds, NEW i \in DOMAIN items[kind],
         NEW item \in OkItems(kind),
         kind = "obstacle" => \A j \in DOMAIN items[kind] \ {i} : ~Overlap(item, items[kind][j]),
         NEW n, Replaces(items, kind, [items[kind] EXCEPT ![i] = item], n)
  PROVE  LevelOk(n, typed) /\ \A k \in Kinds : DOMAIN n[k] = DOMAIN items[k]
<1> DEFINE q == items[kind]
           r == [q EXCEPT ![i] = item]
<1>1. q \in Seq(OkItems(kind)) /\ i \in DOMAIN q /\ Replaces(items, kind, r, n)
  BY ItemsListed
<1>2. kind = "obstacle" => \A j \in DOMAIN q \ {i} : ~Overlap(item, q[j])
  OBVIOUS
<1>3. kind = "obstacle" /\ Disjoint(items["obstacle"]) => Disjoint(q)
  OBVIOUS
<1> HIDE DEF q
<1>4. r \in Seq(OkItems(kind)) /\ DOMAIN r = DOMAIN q
  BY <1>1
<1>5. kind = "obstacle" /\ Disjoint(items["obstacle"]) => Disjoint(r)
  BY <1>1, <1>2, <1>3, DisjointPut
<1> HIDE DEF r
<1>6. LevelOk(n, typed) /\ n[kind] = r /\ \A k \in Kinds \ {kind} : n[k] = items[k]
  BY <1>1, <1>4, <1>5, LevelChanged
<1> QED
  BY <1>4, <1>6 DEF q

LEMMA LevelAdded ==
  ASSUME NEW items, NEW typed, LevelOk(items, typed), NEW kind \in Kinds, NEW item \in OkItems(kind),
         kind = "obstacle" => \A j \in DOMAIN items[kind] : ~Overlap(item, items[kind][j]),
         NEW n, Replaces(items, kind, Append(items[kind], item), n)
  PROVE  LevelOk(n, typed) /\ Len(items[kind]) + 1 \in DOMAIN n[kind] /\ Len(items[kind]) + 1 \in Nat
<1> DEFINE q == items[kind]
           r == Append(q, item)
<1>1. q \in Seq(OkItems(kind)) /\ Replaces(items, kind, r, n)
  BY ItemsListed
<1>2. kind = "obstacle" => \A j \in DOMAIN q : ~Overlap(item, q[j])
  OBVIOUS
<1>3. kind = "obstacle" /\ Disjoint(items["obstacle"]) => Disjoint(q)
  OBVIOUS
<1> HIDE DEF q
<1>4. r \in Seq(OkItems(kind)) /\ Len(q) + 1 \in DOMAIN r /\ Len(q) + 1 \in Nat
  BY <1>1
<1>5. kind = "obstacle" /\ Disjoint(items["obstacle"]) => Disjoint(r)
  BY <1>1, <1>2, <1>3, DisjointAppend
<1> HIDE DEF r
<1>6. LevelOk(n, typed) /\ n[kind] = r
  BY <1>1, <1>4, <1>5, LevelChanged
<1> QED
  BY <1>4, <1>6 DEF q

LEMMA LevelRemoved ==
  ASSUME NEW items, NEW typed, LevelOk(items, typed), NEW kind \in Kinds, NEW i \in DOMAIN items[kind],
         NEW n, Replaces(items, kind, RemoveAt(items[kind], i), n)
  PROVE  LevelOk(n, typed)
<1> DEFINE q == items[kind]
           r == RemoveAt(q, i)
<1>1. q \in Seq(OkItems(kind)) /\ i \in DOMAIN q /\ Replaces(items, kind, r, n)
  BY ItemsListed
<1>2. kind = "obstacle" /\ Disjoint(items["obstacle"]) => Disjoint(q)
  OBVIOUS
<1> HIDE DEF q
<1>3. r \in Seq(OkItems(kind)) /\ (Disjoint(q) => Disjoint(r))
  BY <1>1, RemovedFrom, DisjointRemove
<1> HIDE DEF r
<1> QED
  BY <1>1, <1>2, <1>3, LevelChanged

LEMMA ItemAt ==
  ASSUME NEW s, EditOk(s), NEW ref \in Refs, Exists(s, ref)
  PROVE  /\ ref.kind \in Kinds /\ ref.index \in DOMAIN s.items[ref.kind]
         /\ Item(s, ref) \in OkItems(ref.kind) /\ Item(s, ref).size \in Nat \ {0} /\ Item(s, ref).left \in Int
         /\ (ref.kind = "character" => Item(s, ref).size = 1)
<1>1. ref.kind \in Kinds /\ ref.index \in DOMAIN s.items[ref.kind]
  BY DEF Exists, Refs
<1>2. s.items[ref.kind] \in Seq(OkItems(ref.kind))
  BY <1>1 DEF EditOk, LevelOk, ItemsOk
<1>3. Item(s, ref) \in OkItems(ref.kind)
  BY <1>1, <1>2 DEF Item
<1> QED
  BY <1>1, <1>3 DEF OkItems, Items

\* n is s with other items in the same places.
Slid(s, n) ==
  /\ EditOk(n) /\ n.selection = s.selection /\ n.field = s.field /\ n.dragging = s.dragging
  /\ n.from = s.from /\ n.tool = s.tool /\ n.dragged = s.dragged /\ n.selector = s.selector
  /\ \A k \in Kinds : DOMAIN n.items[k] = DOMAIN s.items[k]

LEMMA SlidSelf == ASSUME NEW s, EditOk(s) PROVE Slid(s, s)
BY DEF Slid

LEMMA PutOk ==
  ASSUME NEW s, EditOk(s), NEW ref \in Refs, Exists(s, ref), NEW item \in OkItems(ref.kind),
         ~Collides(s, ref.kind, item, ref.index)
  PROVE  Slid(s, Put(s, ref, item))
<1> DEFINE items == [s.items EXCEPT ![ref.kind] = [s.items[ref.kind] EXCEPT ![ref.index] = item]]
           n == Put(s, ref, item)
<1>1. n = [s EXCEPT !.items = items]
  BY DEF Put, EditOk, Editors
<1>2. ref.kind \in Kinds /\ ref.index \in DOMAIN s.items[ref.kind]
  BY ItemAt
<1>3. LevelOk(items, s.typed) /\ \A k \in Kinds : DOMAIN items[k] = DOMAIN s.items[k]
  <2>1. ref.kind = "obstacle" => \A j \in DOMAIN s.items[ref.kind] \ {ref.index} : ~Overlap(item, s.items[ref.kind][j])
    BY DEF Collides
  <2>2. LevelOk(s.items, s.typed)
    BY DEF EditOk
  <2>3. Replaces(s.items, ref.kind, [s.items[ref.kind] EXCEPT ![ref.index] = item], items)
    BY DEF Replaces
  <2> HIDE DEF items
  <2> QED
    BY <1>2, <2>1, <2>2, <2>3, LevelPut
<1> HIDE DEF items, n
<1>4. n \in Editors(items) /\ n.items = items /\ n.typed = s.typed
  BY <1>1 DEF EditOk, Editors
<1>5. /\ n.selection = s.selection /\ n.field = s.field /\ n.dragging = s.dragging /\ n.tool = s.tool
      /\ n.from = s.from /\ n.dragged = s.dragged /\ n.selector = s.selector
  BY <1>1 DEF EditOk, Editors
<1>6. n.selection # NoSelection => Exists(n, n.selection)
  BY <1>3, <1>4, <1>5 DEF EditOk, Exists, Editors, Refs
<1>7. EditOk(n)
  BY <1>3, <1>4, <1>5, <1>6 DEF EditOk
<1> QED
  BY <1>3, <1>4, <1>5, <1>7 DEF Slid, n

LEMMA MovedOk ==
  ASSUME NEW s, EditOk(s), NEW ref \in Refs, NEW cell \in NearCells
  PROVE  Slid(s, Moved(s, ref, cell))
<1> DEFINE item == Placed(ref.kind, cell, Item(s, ref).size)
<1>1. CASE ~Exists(s, ref) \/ Collides(s, ref.kind, item, ref.index)
  BY <1>1, SlidSelf DEF Moved
<1>2. CASE Exists(s, ref) /\ ~Collides(s, ref.kind, item, ref.index)
  <2>1. item \in OkItems(ref.kind)
    BY <1>2, ItemAt, PlacedOk
  <2>2. Moved(s, ref, cell) = Put(s, ref, item)
    BY <1>2 DEF Moved
  <2> QED
    BY <1>2, <2>1, <2>2, PutOk
<1> QED
  BY <1>1, <1>2

LEMMA CellsNear ==
  /\ Cells \subseteq NearCells /\ Cells \subseteq Int /\ 0 \in Cells
  /\ \A cell \in Cells, by \in {-1, 1} : cell + by \in NearCells
BY EditorAssumption DEF Cells, NearCells

LEMMA DraggedOk ==
  ASSUME NEW s, EditOk(s), NEW cell \in Cells
  PROVE  Slid(s, Dragged(s, cell))
<1>1. s.dragged \in Refs /\ cell \in NearCells
  BY CellsNear DEF EditOk, Editors
<1> QED
  BY <1>1, MovedOk, SlidSelf DEF Dragged

LEMMA SelectionFound ==
  ASSUME NEW s, EditOk(s), NEW cell
  PROVE  SelectionAt(s, cell) \in Refs /\ (SelectionAt(s, cell) # NoSelection => Exists(s, SelectionAt(s, cell)))
<1> DEFINE ref(kind) == [kind |-> kind, index |-> Max(Under(s, kind, cell))]
<1>1. ASSUME NEW kind \in Kinds, Under(s, kind, cell) # {}
      PROVE  ref(kind) \in Refs /\ Exists(s, ref(kind))
  <2> DEFINE U == Under(s, kind, cell)
             q == s.items[kind]
  <2>1. q \in Seq(OkItems(kind))
    BY DEF EditOk, LevelOk, ItemsOk
  <2>2. U \subseteq DOMAIN q
    BY DEF Under
  <2> HIDE DEF U, q
  <2>3. Len(q) \in Nat /\ DOMAIN q = 1..Len(q) /\ U \in SUBSET (0..Len(q))
    BY <2>1, <2>2
  <2>4. U # {}
    BY <1>1 DEF U
  <2>5. Max(U) \in U
    BY <2>3, <2>4, GreatestOf
  <2>6. Max(U) \in DOMAIN q /\ Max(U) \in Nat
    BY <2>2, <2>3, <2>5
  <2>7. kind # "none"
    BY DEF Kinds
  <2> QED
    BY <2>6, <2>7 DEF Refs, Exists, U, q
<1>2. NoSelection \in Refs
  BY DEF NoSelection, Refs
<1>3. SelectionAt(s, cell) = NoSelection \/ \E kind \in Kinds : Under(s, kind, cell) # {} /\ SelectionAt(s, cell) = ref(kind)
  BY DEF SelectionAt, Kinds
<1> HIDE DEF ref
<1> QED
  BY <1>1, <1>2, <1>3

LEMMA Sizes == MaxUnits \in Nat /\ 1..MaxUnits \subseteq Nat \ {0}
BY EditorAssumption DEF MaxUnits

LEMMA ResizedOk ==
  ASSUME NEW s, EditOk(s), s.field, NEW size \in 1..MaxUnits
  PROVE  EditOk(Resized(s, size)) /\ ~Resized(s, size).field
<1> DEFINE ref == s.selection
           item == Clamped([left |-> Right(Item(s, ref)) - 2 * size, size |-> size])
           items == [s.items EXCEPT ![ref.kind] = [s.items[ref.kind] EXCEPT ![ref.index] = item]]
           typed == s.typed \/ ref.kind = "obstacle"
           n == Resized(s, size)
<1>1. ref \in Refs /\ ref.kind \in {"obstacle", "area"} /\ Exists(s, ref)
  BY DEF EditOk, Editors, NoSelection
<1>2. ref.kind \in Kinds /\ ref.index \in DOMAIN s.items[ref.kind] /\ ref.kind # "character"
  BY <1>1, ItemAt
<1>3. item \in OkItems(ref.kind)
  <2> DEFINE raw == [left |-> Right(Item(s, ref)) - 2 * size, size |-> size]
  <2>1. size \in Nat \ {0} /\ Item(s, ref).left \in Int /\ Item(s, ref).size \in Int
    BY <1>1, ItemAt, Sizes
  <2>2. raw \in Items
    BY <2>1 DEF Items, Right
  <2> QED
    BY <1>2, <2>2, ClampedOk
<1>4. n = [s EXCEPT !.items = items, !.field = FALSE, !.typed = typed]
  <2>1. Put(s, ref, item) = [s EXCEPT !.items = items]
    BY DEF Put, EditOk, Editors
  <2>2. n = [[s EXCEPT !.items = items] EXCEPT !.field = FALSE, !.typed = typed]
    BY <2>1 DEF Resized, EditOk, Editors
  <2> QED
    BY <2>2
<1>5. LevelOk(items, typed) /\ \A k \in Kinds : DOMAIN items[k] = DOMAIN s.items[k]
  <2> DEFINE q == s.items[ref.kind]
             r == [q EXCEPT ![ref.index] = item]
  <2>1. ItemsOk(s.items) /\ (~s.typed => Disjoint(s.items["obstacle"])) /\ Replaces(s.items, ref.kind, r, items)
    BY DEF EditOk, LevelOk, Replaces
  <2>2. q \in Seq(OkItems(ref.kind)) /\ ref.index \in DOMAIN q /\ ref.kind \in Kinds
    BY <1>2, <2>1 DEF ItemsOk
  <2> HIDE DEF q, item
  <2>3. r \in Seq(OkItems(ref.kind)) /\ DOMAIN r = DOMAIN q
    BY <1>3, <2>2
  <2> HIDE DEF r, items, ref
  <2>4. ItemsOk(items) /\ items[ref.kind] = r /\ \A k \in Kinds \ {ref.kind} : items[k] = s.items[k]
    BY <2>1, <2>2, <2>3, ItemsChanged
  <2>5. "obstacle" \in Kinds
    BY DEF Kinds
  <2>6. ~typed => Disjoint(items["obstacle"])
    BY <2>1, <2>4, <2>5
  <2> QED
    BY <2>3, <2>4, <2>6 DEF LevelOk, q
<1>6. typed \in BOOLEAN
  BY DEF EditOk, Editors
<1> HIDE DEF items, n, typed
<1>7. n \in Editors(items) /\ n.items = items
  BY <1>4, <1>6 DEF EditOk, Editors
<1>8. n.typed = typed
  BY <1>4, <1>6 DEF EditOk, Editors
<1>9. n.selection = s.selection /\ ~n.field /\ n.dragging = s.dragging /\ n.tool = s.tool
  BY <1>4 DEF EditOk, Editors
<1>10. Exists(n, n.selection)
  BY <1>1, <1>2, <1>5, <1>7, <1>9 DEF Exists
<1>11. LevelOk(n.items, n.typed)
  BY <1>5, <1>7, <1>8
<1> QED
  BY <1>7, <1>9, <1>10, <1>11 DEF EditOk, n

\* An item more, which is then what is selected.
LEMMA AddedOk ==
  ASSUME NEW s, EditOk(s), NEW kind \in Kinds, NEW item \in OkItems(kind), ~Collides(s, kind, item, 0),
         ~s.field \/ kind # "character"
  PROVE  EditOk(Added(s, kind, item))
<1> DEFINE items == [s.items EXCEPT ![kind] = Append(s.items[kind], item)]
           ref == [kind |-> kind, index |-> Len(s.items[kind]) + 1]
           n == Added(s, kind, item)
<1>1. n = [s EXCEPT !.items = items, !.selection = ref]
  BY DEF Added, EditOk, Editors
<1>2. LevelOk(items, s.typed) /\ ref.index \in DOMAIN items[kind] /\ ref.index \in Nat
  <2>1. LevelOk(s.items, s.typed)
    BY DEF EditOk
  <2>2. kind = "obstacle" => \A j \in DOMAIN s.items[kind] : ~Overlap(item, s.items[kind][j])
    <3>1. s.items[kind] \in Seq(OkItems(kind))
      BY <2>1 DEF LevelOk, ItemsOk
    <3>2. 0 \notin DOMAIN s.items[kind]
      BY <3>1
    <3> QED
      BY <3>2 DEF Collides
  <2>3. Replaces(s.items, kind, Append(s.items[kind], item), items) /\ ref.index = Len(s.items[kind]) + 1
    BY DEF Replaces
  <2> HIDE DEF items, ref
  <2> QED
    BY <2>1, <2>2, <2>3, LevelAdded
<1>3. ref \in Refs /\ ref.kind = kind /\ kind # "none"
  BY <1>2 DEF Refs, Kinds
<1> HIDE DEF items, ref, n
<1>4. n \in Editors(items) /\ n.items = items /\ n.typed = s.typed
  BY <1>1, <1>3 DEF EditOk, Editors
<1>5. n.selection = ref /\ n.field = s.field /\ n.dragging = s.dragging /\ n.tool = s.tool
  BY <1>1, <1>3 DEF EditOk, Editors
<1>6. n.field => kind \in {"obstacle", "area"}
  BY <1>5 DEF Kinds
<1> QED
  BY <1>2, <1>3, <1>4, <1>5, <1>6 DEF EditOk, Exists, n

\* What is selected, dragged and chosen, with the items as they are.
LEMMA Handled ==
  ASSUME NEW s, EditOk(s), NEW n, n \in Editors(s.items), n.items = s.items, n.typed = s.typed,
         n.selection # NoSelection => Exists(s, n.selection),
         n.field => n.selection.kind \in {"obstacle", "area"},
         n.dragging = "placement" => n.tool \in {"obstacle", "area"}
  PROVE  EditOk(n)
BY DEF EditOk, Exists

LEMMA EditFields ==
  ASSUME NEW s, EditOk(s)
  PROVE  /\ s.tool \in Tools /\ s.selection \in Refs /\ s.field \in BOOLEAN
         /\ s.dragging \in {"none", "selection", "placement"} /\ s.dragged \in Refs /\ s.from \in Int
         /\ s.selector \in {"none", "save", "load"} /\ NoSelection \in Refs /\ NoSelection.kind = "none"
         /\ 0 \in Int /\ s.open
         /\ s.selection # NoSelection => Exists(s, s.selection)
         /\ s.field => s.selection.kind \in {"obstacle", "area"}
         /\ s.dragging = "placement" => s.tool \in {"obstacle", "area"}
<1>1. NoSelection \in Refs /\ NoSelection.kind = "none" /\ 0 \in Int
  BY DEF NoSelection, Refs
<1>2. /\ s.tool \in Tools /\ s.selection \in Refs
      /\ s.dragging \in {"none", "selection", "placement"} /\ s.dragged \in Refs /\ s.from \in Int
      /\ s.selector \in {"none", "save", "load"}
  BY DEF EditOk, Editors
<1>3. s.field \in BOOLEAN /\ s.open
  BY DEF EditOk, Editors
<1> QED
  BY <1>1, <1>2, <1>3 DEF EditOk

LEMMA NotDraggingOk ==
  ASSUME NEW s, EditOk(s)
  PROVE  /\ EditOk(NotDragging(s)) /\ NotDragging(s).selection = s.selection /\ NotDragging(s).dragging = "none"
         /\ NotDragging(s).items = s.items
<1> DEFINE n == NotDragging(s)
<1>1. n = [s EXCEPT !.dragging = "none", !.dragged = NoSelection, !.from = 0]
  BY DEF NotDragging
<1> HIDE DEF n
<1>2. /\ n.items = s.items /\ n.selection = s.selection /\ n.dragging = "none" /\ n.tool = s.tool
      /\ n.typed = s.typed /\ n.field = s.field
  BY <1>1 DEF EditOk, Editors
<1>3. n \in Editors(s.items)
  BY <1>1, EditFields DEF EditOk, Editors
<1>4. EditOk(n)
  BY <1>2, <1>3, Handled DEF EditOk
<1> QED
  BY <1>2, <1>4 DEF n

LevelsOk ==
  /\ levels = [slot \in Slots |-> levels[slot]]
  /\ \A slot \in Slots : levels[slot] = NoLevel \/ (levels[slot].typed \in BOOLEAN /\ LevelOk(levels[slot].items, levels[slot].typed))

EditorInv == LevelsOk /\ (editor = EditorClosed \/ EditOk(editor))

LEMMA PressedOk ==
  ASSUME NEW s, EditOk(s), ~s.field, NEW cell \in Cells
  PROVE  EditOk(Pressed(s, cell))
<1> DEFINE n == Pressed(s, cell)
<1>1. cell \in Int /\ cell \in NearCells /\ 1 \in Nat \ {0}
  BY CellsNear
<1>2. CASE s.tool = "character"
  <2>1. n = Added(s, "character", Brush(cell, 1)) /\ "character" \in Kinds
    BY <1>2 DEF Pressed, Kinds
  <2>2. Placed("character", cell, 1) \in OkItems("character")
    BY <1>1, <2>1, PlacedOk
  <2>3. Brush(cell, 1) \in OkItems("character") /\ ~Collides(s, "character", Brush(cell, 1), 0)
    BY <2>2 DEF Placed, Collides
  <2> QED
    BY <2>1, <2>3, AddedOk
<1>3. CASE s.tool = "move"
  <2> DEFINE ref == SelectionAt(s, cell)
  <2>1. ref \in Refs /\ (ref # NoSelection => Exists(s, ref))
    BY SelectionFound
  <2> HIDE DEF ref
  <2>2. CASE ref = NoSelection
    <3>1. n = [s EXCEPT !.selection = NoSelection]
      BY <1>3, <2>2 DEF Pressed, ref
    <3> HIDE DEF n
    <3>2. n \in Editors(s.items) /\ n.items = s.items /\ n.typed = s.typed
      BY <3>1, EditFields DEF EditOk, Editors
    <3>3. n.selection = NoSelection /\ n.field = s.field /\ n.dragging = s.dragging /\ n.tool = s.tool
      BY <3>1, EditFields DEF EditOk, Editors
    <3>4. EditOk(n)
      BY <3>2, <3>3, EditFields, Handled
    <3> QED
      BY <3>4 DEF n
  <2>3. CASE ref # NoSelection
    <3>1. n = [s EXCEPT !.selection = ref, !.dragging = "selection", !.dragged = ref]
      BY <1>3, <2>3 DEF Pressed, ref
    <3> HIDE DEF n
    <3>2. n \in Editors(s.items) /\ n.items = s.items /\ n.typed = s.typed
      BY <2>1, <3>1 DEF EditOk, Editors
    <3>3. n.selection = ref /\ n.field = s.field /\ n.dragging = "selection"
      BY <2>1, <3>1 DEF EditOk, Editors
    <3>4. EditOk(n)
      BY <2>1, <3>2, <3>3, Handled
    <3> QED
      BY <3>4 DEF n
  <2> QED
    BY <2>2, <2>3
<1>4. CASE s.tool \notin {"character", "move"}
  <2>1. n = [s EXCEPT !.dragging = "placement", !.from = cell]
    BY <1>4 DEF Pressed
  <2> HIDE DEF n
  <2>2. n \in Editors(s.items) /\ n.items = s.items /\ n.typed = s.typed
    BY <1>1, <2>1 DEF EditOk, Editors
  <2>3. n.selection = s.selection /\ n.field = s.field /\ n.tool = s.tool
    BY <1>1, <2>1 DEF EditOk, Editors
  <2>4. s.tool \in {"obstacle", "area"}
    BY <1>4, EditFields DEF Tools
  <2>5. EditOk(n)
    BY <2>2, <2>3, <2>4, EditFields, Handled
  <2> QED
    BY <2>5 DEF n
<1> QED
  BY <1>2, <1>3, <1>4

LEMMA SweptOk ==
  ASSUME NEW from \in Int, NEW to \in Int, NEW size \in Nat \ {0}, NEW kind, kind # "character"
  PROVE  Swept(from, to, size) \in OkItems(kind)
<1> DEFINE raw == [left |-> Min({2 * from, 2 * to}) - size, size |-> Distance(from, to) + size]
<1>1. Min({2 * from, 2 * to}) \in Int
  BY IntPair
<1>2. Distance(from, to) + size \in Nat \ {0}
  BY DEF Distance
<1>3. raw \in Items
  BY <1>1, <1>2 DEF Items
<1> QED
  BY <1>3, ClampedOk DEF Swept

LEMMA CommittedOk ==
  ASSUME NEW s, EditOk(s), s.dragging = "placement", NEW cell \in Cells, NEW size \in 1..MaxUnits
  PROVE  EditOk(Committed(s, cell, size))
<1> DEFINE item == Swept(s.from, cell, size)
<1>1. s.tool \in Kinds /\ s.tool # "character" /\ s.from \in Int
  BY EditFields DEF Kinds
<1>2. item \in OkItems(s.tool)
  BY <1>1, CellsNear, Sizes, SweptOk
<1> HIDE DEF item
<1>3. Committed(s, cell, size) = IF Collides(s, s.tool, item, 0) THEN s ELSE Added(s, s.tool, item)
  BY DEF Committed, item
<1> QED
  BY <1>1, <1>2, <1>3, AddedOk

LEMMA ErasedOk ==
  ASSUME NEW s, EditOk(s), ~s.field, Exists(s, s.selection)
  PROVE  EditOk(Erased(s))
<1> DEFINE ref == s.selection
           items == [s.items EXCEPT ![ref.kind] = RemoveAt(s.items[ref.kind], ref.index)]
           n == Erased(s)
<1>1. ref.kind \in Kinds /\ ref.index \in DOMAIN s.items[ref.kind]
  BY EditFields, ItemAt
<1>2. n = [s EXCEPT !.items = items, !.selection = NoSelection]
  BY DEF Erased, EditOk, Editors
<1>3. LevelOk(items, s.typed)
  <2>1. Replaces(s.items, ref.kind, RemoveAt(s.items[ref.kind], ref.index), items) /\ LevelOk(s.items, s.typed)
    BY DEF Replaces, EditOk
  <2> HIDE DEF items, ref
  <2> QED
    BY <1>1, <2>1, LevelRemoved DEF ref
<1> HIDE DEF items, n
<1>4. n \in Editors(items) /\ n.items = items /\ n.typed = s.typed
  BY <1>2, EditFields DEF EditOk, Editors
<1>5. n.selection = NoSelection /\ n.field = s.field /\ n.dragging = s.dragging /\ n.tool = s.tool
  BY <1>2, EditFields DEF EditOk, Editors
<1> QED
  BY <1>3, <1>4, <1>5 DEF EditOk, n

LEMMA CentreNear ==
  ASSUME NEW item, item.left \in Int, item.size \in Int
  PROVE  CentreCell(item) \in Cells
<1> DEFINE c == item.left + item.size
           rounded == IF c >= 0 THEN (c + 1) \div 2 ELSE -((1 - c) \div 2)
<1>1. c \in Int
  OBVIOUS
<1> HIDE DEF c
<1>2. rounded \in Int /\ ArenaSize \in Nat
  BY <1>1, EditorAssumption
<1> HIDE DEF rounded
<1>3. -ArenaSize \in Int /\ ArenaSize \in Int /\ -ArenaSize <= ArenaSize
  BY <1>2
<1>4. CentreCell(item) = Clamp(rounded, -ArenaSize, ArenaSize)
  BY DEF CentreCell, rounded, c
<1>5. Clamp(rounded, -ArenaSize, ArenaSize) \in Int /\ Clamp(rounded, -ArenaSize, ArenaSize) <= ArenaSize
      /\ -ArenaSize <= Clamp(rounded, -ArenaSize, ArenaSize)
  BY <1>2, <1>3, ClampIs
<1> QED
  BY <1>3, <1>4, <1>5 DEF Cells

LEMMA WheeledOk ==
  ASSUME NEW s, EditOk(s), NEW by \in {-1, 1}
  PROVE  EditOk(Wheeled(s, by))
<1> DEFINE ref == s.selection
           item == Item(s, ref)
           sized == Clamped(Brush(CentreCell(item), Clamp(item.size + by, 1, MaxUnits)))
<1>1. CASE ~Adjustable(s) \/ ref.kind = "character" \/ Collides(s, ref.kind, sized, ref.index)
  BY <1>1 DEF Wheeled
<1>2. CASE Adjustable(s) /\ ref.kind # "character" /\ ~Collides(s, ref.kind, sized, ref.index)
  <2>1. ref \in Refs /\ Exists(s, ref)
    BY <1>2, EditFields DEF Adjustable
  <2>2. item.size \in Int /\ item.left \in Int
    BY <2>1, ItemAt
  <2> DEFINE size == Clamp(item.size + by, 1, MaxUnits)
             b == Brush(CentreCell(item), size)
  <2>3. size \in Nat \ {0}
    <3>1. item.size + by \in Int /\ 1 \in Int /\ MaxUnits \in Int /\ 1 <= MaxUnits
      BY <2>2, EditorAssumption DEF MaxUnits
    <3>2. size \in Int /\ 1 <= size
      BY <3>1, ClampIs
    <3> HIDE DEF size
    <3> QED
      BY <3>2
  <2> HIDE DEF size
  <2>4. CentreCell(item) \in Int
    BY <2>2, CentreNear, CellsNear
  <2>5. b \in Items
    BY <2>3, <2>4 DEF Brush, Items
  <2>6. sized \in OkItems(ref.kind)
    BY <1>2, <2>5, ClampedOk DEF size
  <2>7. Wheeled(s, by) = Put(s, ref, sized)
    BY <1>2 DEF Wheeled
  <2> HIDE DEF sized
  <2> QED
    BY <1>2, <2>1, <2>6, <2>7, PutOk DEF Slid
<1> QED
  BY <1>1, <1>2

LEMMA LoadedLevelOk ==
  ASSUME LevelsOk, NEW slot \in Slots, NEW s, EditOk(s)
  PROVE  EditOk(LoadedLevel(s, slot))
<1> DEFINE l == levels[slot]
           n == LoadedLevel(s, slot)
<1>1. CASE l = NoLevel
  BY <1>1 DEF LoadedLevel
<1>2. CASE l # NoLevel
  <2> DEFINE d == NotDragging(s)
             items == l.items
             typed == l.typed
  <2>1. typed \in BOOLEAN /\ LevelOk(items, typed)
    BY <1>2 DEF LevelsOk
  <2>2. EditOk(d) /\ d.dragging = "none"
    BY NotDraggingOk
  <2>3. n = [d EXCEPT !.items = items, !.typed = typed, !.selection = NoSelection, !.field = FALSE]
    BY <1>2 DEF LoadedLevel
  <2> HIDE DEF d, items, n, typed
  <2>4. n \in Editors(items) /\ n.items = items
    BY <2>1, <2>2, <2>3, EditFields DEF EditOk, Editors
  <2>5. n.typed = typed
    BY <2>1, <2>2, <2>3 DEF EditOk, Editors
  <2>6. n.selection = NoSelection /\ ~n.field /\ n.dragging = "none"
    BY <2>2, <2>3 DEF EditOk, Editors
  <2>7. LevelOk(n.items, n.typed)
    BY <2>1, <2>4, <2>5
  <2> QED
    BY <2>4, <2>6, <2>7 DEF EditOk, n
<1> QED
  BY <1>1, <1>2

LEMMA OpenedEditorOk ==
  ASSUME LevelsOk, NEW slot \in Slots
  PROVE  EditOk(OpenedEditor(slot))
<1> DEFINE n == [open |-> TRUE, items |-> EmptyLevel.items, typed |-> FALSE, tool |-> "obstacle",
                 selection |-> NoSelection, field |-> FALSE,
                 dragging |-> "none", dragged |-> NoSelection, from |-> 0, selector |-> "none"]
<1>1. n \in Editors(n.items) /\ n.selection = NoSelection /\ ~n.field /\ n.dragging = "none" /\ ~n.typed
  BY DEF Editors, NoSelection, Refs, Tools
<1>2. n.items = [k \in Kinds |-> <<>>]
  BY DEF EmptyLevel
<1> HIDE DEF n
<1>3. LevelOk(n.items, n.typed)
  <2> DEFINE items == n.items
  <2>1. items = [k \in Kinds |-> <<>>]
    BY <1>2
  <2> HIDE DEF items
  <2>2. ItemsOk(items)
    BY <2>1 DEF ItemsOk
  <2>3. Disjoint(items["obstacle"])
    BY <2>1 DEF Disjoint, Kinds
  <2> QED
    BY <2>2, <2>3 DEF LevelOk, items
<1>4. EditOk(n)
  BY <1>1, <1>3 DEF EditOk
<1> QED
  BY <1>4, LoadedLevelOk DEF OpenedEditor, n

LEMMA PointedCells == Pointed \subseteq Cells
BY CellsNear DEF Pointed

-----------------------------------------------------------------------------
(* Each key of the editor. *)

LEMMA EditsKeep ==
  ASSUME EditorInv, UNCHANGED levels, EditOk(editor')
  PROVE  EditorInv' /\ editor'.open
BY EditFields DEF EditorInv, LevelsOk

LEMMA ToolsKeep ==
  ASSUME EditorInv, ChooseTool \/ FocusField \/ RightPress \/ OpenSelector \/ CloseSelector
  PROVE  EditorInv' /\ editor'.open
<1>1. EditOk(editor) /\ UNCHANGED levels
  <2>1. editor.open /\ UNCHANGED levels
    BY DEF ChooseTool, FocusField, RightPress, OpenSelector, CloseSelector, Canvas, Edits
  <2> QED
    BY <2>1 DEF EditorInv, EditorClosed
<1> DEFINE d == NotDragging(editor)
<1>2. EditOk(d) /\ d.selection = editor.selection /\ d.dragging = "none" /\ d.items = editor.items
  BY <1>1, NotDraggingOk
<1> DEFINE n == editor'
<1>3. SUFFICES EditOk(n)
  BY <1>1, EditsKeep
<1>4. CASE ChooseTool
  <2>1. PICK tool \in Tools, selection \in {d.selection, NoSelection} :
          n = [d EXCEPT !.tool = tool, !.field = FALSE, !.selection = selection]
    <3>1. PICK tool \in Tools :
            n = [d EXCEPT !.tool = tool, !.field = FALSE, !.selection = IF tool = "move" THEN @ ELSE NoSelection]
      BY <1>4 DEF ChooseTool, Edits
    <3> HIDE DEF d, n
    <3>2. n = [d EXCEPT !.tool = tool, !.field = FALSE, !.selection = IF tool = "move" THEN d.selection ELSE NoSelection]
      BY <1>2, <3>1 DEF EditOk, Editors
    <3> QED
      BY <3>2
  <2> HIDE DEF d, n
  <2>2. selection \in Refs /\ (selection # NoSelection => Exists(d, selection))
    BY <1>2, EditFields
  <2>3. n \in Editors(d.items) /\ n.items = d.items /\ n.typed = d.typed
    BY <1>2, <2>1, <2>2 DEF EditOk, Editors
  <2>4. n.selection = selection /\ ~n.field /\ n.dragging = "none"
    BY <1>2, <2>1, <2>2 DEF EditOk, Editors
  <2> QED
    BY <1>2, <2>2, <2>3, <2>4, Handled
<1>5. CASE FocusField
  <2>1. n = [d EXCEPT !.field = TRUE] /\ Exists(editor, editor.selection) /\ editor.selection.kind # "character"
    BY <1>5 DEF FocusField, Edits
  <2>2. editor.selection.kind \in {"obstacle", "area"}
    BY <1>1, <2>1, EditFields, ItemAt DEF Kinds
  <2> HIDE DEF d, n
  <2>3. n \in Editors(d.items) /\ n.items = d.items /\ n.typed = d.typed
    BY <1>2, <2>1 DEF EditOk, Editors
  <2>4. n.selection = d.selection /\ n.dragging = "none"
    BY <1>2, <2>1 DEF EditOk, Editors
  <2> QED
    BY <1>2, <2>2, <2>3, <2>4, Handled, EditFields
<1>6. CASE RightPress
  <2>1. PICK cell \in Cells :
          n = Dragged([editor EXCEPT !.selection = SelectionAt(editor, cell), !.field = FALSE], cell)
    BY <1>6 DEF RightPress, Edits
  <2> DEFINE ref == SelectionAt(editor, cell)
             u == [editor EXCEPT !.selection = ref, !.field = FALSE]
  <2>2. ref \in Refs /\ (ref # NoSelection => Exists(editor, ref))
    BY <1>1, SelectionFound
  <2> HIDE DEF ref
  <2>3. u \in Editors(editor.items) /\ u.items = editor.items /\ u.typed = editor.typed
    BY <1>1, <2>2 DEF EditOk, Editors
  <2>4. u.selection = ref /\ ~u.field /\ u.dragging = editor.dragging /\ u.tool = editor.tool
    BY <1>1, <2>2 DEF EditOk, Editors
  <2>5. n = Dragged(u, cell)
    BY <2>1 DEF ref
  <2> HIDE DEF u, n
  <2>6. EditOk(u)
    BY <1>1, <2>2, <2>3, <2>4, Handled, EditFields
  <2> QED
    BY <2>5, <2>6, DraggedOk DEF Slid
<1>7. CASE OpenSelector \/ CloseSelector
  <2> HIDE DEF n, d
  <2>1. ASSUME NEW u, EditOk(u), NEW selector \in {"none", "save", "load"}, n = [u EXCEPT !.selector = selector]
        PROVE  EditOk(n)
    <3>1. n \in Editors(u.items) /\ n.items = u.items /\ n.typed = u.typed
      BY <2>1 DEF EditOk, Editors
    <3>2. n.selection = u.selection /\ n.field = u.field /\ n.dragging = u.dragging /\ n.tool = u.tool
      BY <2>1 DEF EditOk, Editors
    <3> QED
      BY <2>1, <3>1, <3>2, Handled, EditFields
  <2>2. CASE OpenSelector
    <3>1. PICK action \in {"save", "load"}, cell \in Pointed : n = [Dragged(editor, cell) EXCEPT !.selector = action]
      BY <2>2 DEF OpenSelector, Edits, n
    <3>2. EditOk(Dragged(editor, cell)) /\ action \in {"none", "save", "load"}
      BY <1>1, PointedCells, DraggedOk DEF Slid
    <3> QED
      BY <2>1, <3>1, <3>2
  <2>3. CASE CloseSelector
    <3>1. n = [editor EXCEPT !.selector = "none"] /\ "none" \in {"none", "save", "load"}
      BY <2>3 DEF CloseSelector, Edits, n
    <3> QED
      BY <1>1, <2>1, <3>1
  <2> QED
    BY <1>7, <2>2, <2>3
<1> QED
  BY <1>4, <1>5, <1>6, <1>7

LEMMA ItemsKeep ==
  ASSUME EditorInv, EnterField \/ Press \/ MouseMoves \/ Release \/ Delete \/ Wheel \/ Nudge
  PROVE  EditorInv' /\ editor'.open
<1>1. EditOk(editor) /\ UNCHANGED levels
  BY DEF EditorInv, EditorClosed, EnterField, Press, MouseMoves, Release, Delete, Wheel, Nudge, Canvas,
     Edits
<1>2. SUFFICES EditOk(editor')
  BY <1>1, EditsKeep
<1>3. ASSUME NEW s, EditOk(s), NEW cell \in Cells PROVE Slid(s, Dragged(s, cell)) /\ EditOk(Dragged(s, cell))
  BY <1>3, DraggedOk DEF Slid
<1>4. CASE EnterField
  <2>1. CASE \E size \in 1..MaxUnits : editor' = Resized(editor, size)
    BY <1>1, <1>4, <2>1, ResizedOk DEF EnterField
  <2>2. CASE \E cell \in Pointed : editor' = Dragged([editor EXCEPT !.field = FALSE], cell)
    <3> DEFINE u == [editor EXCEPT !.field = FALSE]
    <3>1. u \in Editors(editor.items) /\ u.items = editor.items /\ u.typed = editor.typed
      BY <1>1 DEF EditOk, Editors
    <3>2. ~u.field /\ u.selection = editor.selection /\ u.dragging = editor.dragging /\ u.tool = editor.tool
      BY <1>1 DEF EditOk, Editors
    <3>3. \E cell \in Pointed : editor' = Dragged(u, cell)
      BY <2>2
    <3> HIDE DEF u
    <3>4. EditOk(u)
      BY <1>1, <3>1, <3>2, Handled, EditFields
    <3> QED
      BY <1>3, <3>3, <3>4, PointedCells
  <2> QED
    BY <1>4, <2>1, <2>2 DEF EnterField, Edits
<1>5. CASE Press
  <2>1. PICK cell \in Cells :
          IF editor.field
          THEN \E size \in 1..MaxUnits : editor' = Dragged(Pressed(Resized(editor, size), cell), cell)
          ELSE editor' = Dragged(Pressed(editor, cell), cell)
    BY <1>5 DEF Press, Edits
  <2>2. PICK s : EditOk(s) /\ ~s.field /\ editor' = Dragged(Pressed(s, cell), cell)
    <3>1. CASE editor.field
      <4>1. PICK size \in 1..MaxUnits : editor' = Dragged(Pressed(Resized(editor, size), cell), cell)
        BY <2>1, <3>1
      <4>2. EditOk(Resized(editor, size)) /\ ~Resized(editor, size).field
        BY <1>1, <3>1, ResizedOk
      <4> QED
        BY <4>1, <4>2
    <3>2. CASE ~editor.field
      BY <1>1, <2>1, <3>2
    <3> QED
      BY <3>1, <3>2
  <2>3. EditOk(Pressed(s, cell))
    BY <2>2, PressedOk
  <2> QED
    BY <1>3, <2>2, <2>3
<1>6. CASE MouseMoves
  BY <1>1, <1>3, <1>6, PointedCells DEF MouseMoves, Edits
<1>7. CASE Release
  <2>1. PICK s : EditOk(s) /\ editor' = NotDragging(s)
    <3>1. CASE \E cell \in Cells : editor' = NotDragging(Dragged(editor, cell))
      BY <1>1, <1>3, <3>1
    <3>2. CASE editor.dragging = "placement"
               /\ \E cell \in Cells, size \in 1..MaxUnits : editor' = NotDragging(Committed(editor, cell, size))
      <4>1. PICK cell \in Cells, size \in 1..MaxUnits : editor' = NotDragging(Committed(editor, cell, size))
        BY <3>2
      <4>2. EditOk(Committed(editor, cell, size))
        BY <1>1, <3>2, CommittedOk
      <4> QED
        BY <4>1, <4>2
    <3> QED
      BY <1>7, <3>1, <3>2 DEF Release, Edits
  <2> QED
    BY <2>1, NotDraggingOk
<1>8. CASE Delete
  <2>1. PICK cell \in Pointed : editor' = Erased(Dragged(editor, cell))
    BY <1>8 DEF Delete, Edits
  <2> DEFINE s == Dragged(editor, cell)
  <2>2. Slid(editor, s) /\ EditOk(s) /\ ~editor.field /\ Exists(editor, editor.selection)
    BY <1>1, <1>3, <1>8, PointedCells DEF Delete
  <2> HIDE DEF s
  <2>3. editor.selection.kind \in Kinds
    BY <1>1, <2>2, EditFields, ItemAt
  <2>4. ~s.field /\ Exists(s, s.selection)
    BY <2>2, <2>3 DEF Slid, Exists
  <2> QED
    BY <2>1, <2>2, <2>4, ErasedOk DEF s
<1>9. CASE Wheel
  <2>1. PICK by \in {-1, 1}, cell \in Pointed : editor' = Wheeled(Dragged(editor, cell), by)
    BY <1>9 DEF Wheel, Edits
  <2>2. EditOk(Dragged(editor, cell))
    BY <1>1, <1>3, PointedCells
  <2> QED
    BY <2>1, <2>2, WheeledOk
<1>10. CASE Nudge
  <2>1. PICK by \in {-1, 1}, cell \in Pointed :
          LET s == Dragged(editor, cell) IN
          editor' = Moved(s, s.selection, CentreCell(Item(s, s.selection)) + by)
    BY <1>10 DEF Nudge, Edits
  <2> DEFINE s == Dragged(editor, cell)
  <2>2. Slid(editor, s) /\ EditOk(s) /\ Exists(editor, editor.selection)
    BY <1>1, <1>3, <1>10, PointedCells DEF Nudge, Adjustable
  <2>3. editor' = Moved(s, s.selection, CentreCell(Item(s, s.selection)) + by)
    BY <2>1
  <2> HIDE DEF s
  <2>4. editor.selection.kind \in Kinds
    BY <1>1, <2>2, EditFields, ItemAt
  <2>5. s.selection \in Refs /\ Exists(s, s.selection)
    BY <2>2, <2>4, EditFields DEF Slid, Exists
  <2>6. CentreCell(Item(s, s.selection)) \in Cells
    BY <2>2, <2>5, ItemAt, CentreNear
  <2>7. CentreCell(Item(s, s.selection)) + by \in NearCells
    BY <2>6, CellsNear
  <2> QED
    BY <2>2, <2>3, <2>5, <2>7, MovedOk DEF Slid
<1> QED
  BY <1>4, <1>5, <1>6, <1>7, <1>8, <1>9, <1>10

LEMMA SlotKeeps ==
  ASSUME EditorInv, ChooseSlot
  PROVE  EditorInv' /\ editor'.open
<1>1. EditOk(editor)
  BY DEF EditorInv, EditorClosed, ChooseSlot
<1> DEFINE s == [editor EXCEPT !.selector = "none"]
<1>2. s \in Editors(editor.items) /\ s.items = editor.items /\ s.typed = editor.typed
  BY <1>1 DEF EditOk, Editors
<1>3. s.selection = editor.selection /\ s.field = editor.field /\ s.dragging = editor.dragging /\ s.tool = editor.tool
  BY <1>1 DEF EditOk, Editors
<1>4. PICK slot \in Slots :
        \/ editor' = LoadedLevel(s, slot) /\ UNCHANGED levels
        \/ /\ editor' = s
           /\ \/ levels' = [levels EXCEPT ![slot] = [items |-> editor.items, typed |-> editor.typed]]
              \/ UNCHANGED levels
  BY DEF ChooseSlot, Edits
<1> HIDE DEF s
<1>5. EditOk(s)
  BY <1>1, <1>2, <1>3, Handled, EditFields
<1>6. EditOk(editor')
  BY <1>4, <1>5, LoadedLevelOk DEF EditorInv
<1>7. CASE UNCHANGED levels
  BY <1>6, <1>7, EditsKeep
<1>8. CASE levels' = [levels EXCEPT ![slot] = [items |-> editor.items, typed |-> editor.typed]]
  <2> DEFINE l == [items |-> editor.items, typed |-> editor.typed]
  <2>1. editor.typed \in BOOLEAN /\ LevelOk(editor.items, editor.typed)
    BY <1>1 DEF EditOk, Editors
  <2>2. l.typed \in BOOLEAN /\ LevelOk(l.items, l.typed)
    BY <2>1
  <2>3. levels' = [levels EXCEPT ![slot] = l]
    BY <1>8
  <2> HIDE DEF l
  <2>4. levels' = [x \in Slots |-> levels'[x]] /\ levels'[slot] = l /\ \A x \in Slots \ {slot} : levels'[x] = levels[x]
    BY <2>3 DEF EditorInv, LevelsOk
  <2>5. LevelsOk'
    BY <2>2, <2>4 DEF EditorInv, LevelsOk
  <2> QED
    BY <1>6, <2>5, EditFields DEF EditorInv
<1> QED
  BY <1>4, <1>7, <1>8

LEMMA EditorKeysKeep ==
  ASSUME EditorInv, EditorKeys
  PROVE  EditorInv' /\ editor'.open
BY ToolsKeep, ItemsKeep, SlotKeeps DEF EditorKeys

LEMMA EditorShown ==
  ASSUME EditorInv
  PROVE  EditingIsSound
<1>1. CASE editor = EditorClosed
  BY <1>1 DEF EditingIsSound, EditorClosed
<1>2. CASE EditOk(editor)
  <2>1. \A kind \in Kinds : \A i \in DOMAIN editor.items[kind] : editor.items[kind][i] \in OkItems(kind)
    BY <1>2, ItemsListed DEF EditOk
  <2>2. \A kind \in {"obstacle", "area"} : \A i \in DOMAIN editor.items[kind] : InArena(editor.items[kind][i])
    BY <2>1 DEF Kinds, OkItems
  <2>3. \A i \in DOMAIN editor.items["character"] :
          Distance(editor.items["character"][i].left, -1) <= 2 * (ArenaSize + 1)
    BY <2>1 DEF Kinds, OkItems
  <2> QED
    BY <1>2, <2>2, <2>3, Zenon DEF EditingIsSound, EditOk, LevelOk
<1> QED
  BY <1>1, <1>2 DEF EditorInv

-----------------------------------------------------------------------------
(***************************************************************************)
(* The shell.  Each screen is as its own invariant says just while it is   *)
(* shown, and the screens behind the one that is shown are one of three.   *)
(***************************************************************************)
AtRoot == <<>>
FromMain == <<"main">>
FromLevels == <<"main", "levels">>

LEMMA Histories ==
  /\ Append(AtRoot, "main") = FromMain /\ Append(FromMain, "levels") = FromLevels
  /\ Last(FromMain) = "main" /\ Front(FromMain) = AtRoot
  /\ Last(FromLevels) = "levels" /\ Front(FromLevels) = FromMain
  /\ AtRoot # FromMain /\ AtRoot # FromLevels /\ FromMain # FromLevels
<1> DEFINE S == {"main", "levels"}
<1>1. /\ AtRoot \in Seq(S) /\ FromMain \in Seq(S) /\ FromLevels \in Seq(S)
      /\ Len(AtRoot) = 0 /\ Len(FromMain) = 1 /\ Len(FromLevels) = 2
      /\ FromMain[1] = "main" /\ FromLevels[1] = "main" /\ FromLevels[2] = "levels"
  BY DEF AtRoot, FromMain, FromLevels
<1>2. Last(FromMain) = "main" /\ Last(FromLevels) = "levels"
  BY <1>1 DEF Last
<1>3. \A s, t \in Seq(S) : Len(s) = Len(t) /\ (\A i \in 1..Len(s) : s[i] = t[i]) => s = t
  BY SeqEqual
<1>4. \A s \in Seq(S), e \in S : /\ Append(s, e) \in Seq(S) /\ Len(Append(s, e)) = Len(s) + 1
                                 /\ Append(s, e)[Len(s) + 1] = e
                                 /\ \A i \in 1..Len(s) : Append(s, e)[i] = s[i]
  BY AppendProperties
<1>5. \A s \in Seq(S) : Len(s) > 0 => /\ Front(s) \in Seq(S) /\ Len(Front(s)) = Len(s) - 1
                                      /\ \A i \in 1..(Len(s) - 1) : Front(s)[i] = s[i]
  <2> TAKE s \in Seq(S)
  <2> HAVE Len(s) > 0
  <2> DEFINE n == Len(s) - 1
  <2>1. n \in 0..Len(s) /\ Len(s) \in Nat /\ 1 \in 1..(Len(s) + 1)
    OBVIOUS
  <2>2. SubSeq(s, 1, n) \in Seq(S) /\ Len(SubSeq(s, 1, n)) = n /\ \A i \in 1..n : SubSeq(s, 1, n)[i] = s[i]
    <3> HIDE DEF n
    <3>1. (IF 1 <= n THEN n - 1 + 1 ELSE 0) = n
      BY <2>1
    <3> QED
      BY <2>1, SubSeqProperties
  <2> QED
    BY <2>2 DEF Front
<1>6. "main" \in S /\ "levels" \in S
  OBVIOUS
<1> HIDE DEF S
<1>7. Append(AtRoot, "main") = FromMain
  BY <1>1, <1>3, <1>4, <1>6
<1>8. Append(FromMain, "levels") = FromLevels
  <2> DEFINE t == Append(FromMain, "levels")
  <2>1. t \in Seq(S) /\ Len(t) = 1 + 1 /\ t[1 + 1] = "levels" /\ t[1] = FromMain[1]
    <3>1. /\ t \in Seq(S) /\ Len(t) = Len(FromMain) + 1 /\ t[Len(FromMain) + 1] = "levels"
          /\ \A i \in 1..Len(FromMain) : t[i] = FromMain[i]
      BY <1>1, <1>4, <1>6, Zenon
    <3> HIDE DEF t
    <3> QED
      BY <1>1, <3>1
  <2> HIDE DEF t
  <2>2. Len(t) = Len(FromLevels) /\ \A i \in 1..Len(t) : t[i] = FromLevels[i]
    BY <1>1, <2>1
  <2>3. t = FromLevels
    BY <1>1, <1>3, <2>1, <2>2, Zenon
  <2> QED
    BY <2>3 DEF t
<1>9. Front(FromMain) = AtRoot
  <2> DEFINE t == Front(FromMain)
  <2>0. Len(FromMain) > 0
    BY <1>1
  <2>1. t \in Seq(S) /\ Len(t) = 1 - 1
    <3>1. /\ t \in Seq(S) /\ Len(t) = Len(FromMain) - 1 /\ \A i \in 1..(Len(FromMain) - 1) : t[i] = FromMain[i]
      BY <1>1, <1>5, <2>0, Zenon
    <3> HIDE DEF t
    <3> QED
      BY <1>1, <3>1
  <2> HIDE DEF t
  <2>2. Len(t) = Len(AtRoot) /\ \A i \in 1..Len(t) : t[i] = AtRoot[i]
    BY <1>1, <2>1
  <2>3. t = AtRoot
    BY <1>1, <1>3, <2>1, <2>2, Zenon
  <2> QED
    BY <2>3 DEF t
<1>10. Front(FromLevels) = FromMain
  <2> DEFINE t == Front(FromLevels)
  <2>0. Len(FromLevels) > 0
    BY <1>1
  <2>1. t \in Seq(S) /\ Len(t) = 2 - 1 /\ t[1] = FromLevels[1]
    <3>1. /\ t \in Seq(S) /\ Len(t) = Len(FromLevels) - 1 /\ \A i \in 1..(Len(FromLevels) - 1) : t[i] = FromLevels[i]
      BY <1>1, <1>5, <2>0, Zenon
    <3> HIDE DEF t
    <3> QED
      BY <1>1, <3>1
  <2> HIDE DEF t
  <2>2. Len(t) = Len(FromMain) /\ \A i \in 1..Len(t) : t[i] = FromMain[i]
    BY <1>1, <2>1
  <2>3. t = FromMain
    BY <1>1, <1>3, <2>1, <2>2, Zenon
  <2> QED
    BY <2>3 DEF t
<1> QED
  BY <1>1, <1>2, <1>7, <1>8, <1>9, <1>10

\* What is kept on disk and in the history variables.
KeptInv ==
  /\ FilesInv /\ saved \in Nat /\ LevelsOk
  /\ DiskOk(characters) /\ Cardinality(characters) = created

SettingsOk(s) == s \in [open : {TRUE}, working : {s.working}, capture : {s.capture}]

\* A screen exists just while it is shown.
ScreensInv ==
  /\ IF mode = "session" THEN MenuOk(menu) ELSE menu = MenuClosed
  /\ IF mode = "editor" THEN EditOk(editor) ELSE editor = EditorClosed
  /\ IF mode = "characters" THEN ScreenOk(screen, characters) ELSE screen = ScreenClosed
  /\ IF mode = "settings" THEN SettingsOk(settings) ELSE settings = SettingsClosed
  /\ studio = Closed \/ (mode = "replays" /\ StudioOk(studio))

\* Where the user is, and on which way.
Place ==
  \/ mode = "main" /\ history = AtRoot
  \/ mode \in {"levels", "replays", "characters", "settings"} /\ history = FromMain
  \/ mode = "session" /\ history \in {FromMain, FromLevels}
  \/ mode \in {"study", "editor"} /\ history = FromLevels

ShellInv ==
  /\ Place
  /\ (target # "none") <=> (mode = "levels" \/ history = FromLevels)
  /\ flow \in {"none", "starting", "running", "failed"} /\ cursor \in BOOLEAN
  /\ flow # "none" => mode \in {"session", "study"}
  /\ mode = "study" => flow # "none"
  /\ mode = "session" /\ flow = "starting" => menu.busy = TRUE
  /\ mode = "session" /\ flow = "none" => menu.busy = FALSE
  /\ cursor => flow # "none"

AppInv == KeptInv /\ ScreensInv /\ ShellInv

LEMMA KeptStays ==
  ASSUME KeptInv, UNCHANGED <<files, kept, saved, levels, characters, created>>
  PROVE  KeptInv'
BY DEF KeptInv, FilesInv, LevelsOk

LEMMA OthersStay ==
  ASSUME KeptInv, UNCHANGED OtherScreens
  PROVE  /\ KeptInv'
         /\ UNCHANGED <<studio, saved, editor, screen, characters, settings>>
<1>1. UNCHANGED <<files, kept, saved, levels, characters, created, studio, editor, screen, settings>>
  BY DEF OtherScreens, studioVars, editorVars, prefsVars
<1> QED
  BY <1>1, KeptStays

LEMMA MainMenuKeeps ==
  ASSUME AppInv, ToMainMenu \/ Restart
  PROVE  AppInv'
<1>1. /\ mode' = "main" /\ history' = AtRoot /\ target' = "none" /\ flow' = "none" /\ cursor' = FALSE
      /\ menu' = MenuClosed /\ studio' = Closed /\ editor' = EditorClosed
      /\ settings' = SettingsClosed /\ screen' = ScreenClosed
      /\ UNCHANGED <<files, kept, saved, levels, characters, created>>
  BY DEF ToMainMenu, Restart, AtRoot
<1>2. KeptInv'
  BY <1>1, KeptStays DEF AppInv
<1>3. ScreensInv'
  BY <1>1 DEF ScreensInv
<1>4. ShellInv'
  BY <1>1, Histories DEF ShellInv, Place
<1> QED
  BY <1>2, <1>3, <1>4 DEF AppInv

LEMMA NavigationKeeps ==
  ASSUME AppInv, SwitchView \/ OpenLevels \/ OpenJoin \/ LeaveLevels
  PROVE  AppInv'
<1>1. KeptInv' /\ UNCHANGED <<studio, saved, editor, screen, characters, settings>>
  BY OthersStay DEF AppInv, SwitchView, OpenLevels, OpenJoin, LeaveLevels
<1>2. CASE SwitchView
  BY <1>1, <1>2 DEF AppInv, SwitchView, ScreensInv, ShellInv, Place
<1>3. CASE OpenLevels
  <2>1. /\ mode = "main" /\ mode' = "levels" /\ history' = Append(history, "main") /\ target' # "none"
        /\ UNCHANGED <<flow, cursor, menu>>
    BY <1>3 DEF OpenLevels, Push
  <2>2. history = AtRoot /\ history' = FromMain
    BY <2>1, Histories DEF AppInv, ShellInv, Place
  <2>3. ScreensInv'
    BY <1>1, <2>1 DEF AppInv, ScreensInv
  <2>4. ShellInv'
    BY <2>1, <2>2 DEF AppInv, ShellInv, Place
  <2> QED
    BY <1>1, <2>3, <2>4 DEF AppInv
<1>4. CASE OpenJoin
  <2>1. /\ mode = "main" /\ mode' = "session" /\ history' = Append(history, "main") /\ target' = "none"
        /\ menu' = NewMenu("join", 0) /\ UNCHANGED <<flow, cursor>>
    BY <1>4 DEF OpenJoin, Push
  <2>2. history = AtRoot /\ history' = FromMain
    BY <2>1, Histories DEF AppInv, ShellInv, Place
  <2>3. MenuOk(menu') /\ menu'.busy = FALSE
    BY <2>1, NewMenuOk
  <2>4. ScreensInv'
    BY <1>1, <2>1, <2>3 DEF AppInv, ScreensInv
  <2>5. ShellInv'
    BY <2>1, <2>2, <2>3, Histories DEF AppInv, ShellInv, Place
  <2> QED
    BY <1>1, <2>4, <2>5 DEF AppInv
<1>5. CASE LeaveLevels
  <2>1. /\ mode = "levels" /\ mode' = Last(history) /\ history' = Front(history) /\ target' = "none"
        /\ cursor' = FALSE /\ UNCHANGED <<flow, menu>>
    BY <1>5 DEF LeaveLevels, Pop
  <2>2. mode' = "main" /\ history' = AtRoot
    BY <2>1, Histories DEF AppInv, ShellInv, Place
  <2>3. ScreensInv'
    BY <1>1, <2>1, <2>2 DEF AppInv, ScreensInv
  <2>4. ShellInv'
    BY <2>1, <2>2, Histories DEF AppInv, ShellInv, Place
  <2> QED
    BY <1>1, <2>3, <2>4 DEF AppInv
<1> QED
  BY <1>2, <1>3, <1>4, <1>5

LEMMA OpenScreenKeeps ==
  ASSUME AppInv, OpenScreen
  PROVE  AppInv'
<1>1. /\ mode = "main" /\ target' = "none" /\ UNCHANGED <<flow, cursor, menu>>
      /\ mode' \in {"replays", "characters", "settings"} /\ history' = Append(history, "main")
  BY DEF OpenScreen, Push
<1>2. history = AtRoot /\ history' = FromMain
  BY <1>1, Histories DEF AppInv, ShellInv, Place
<1>3. ShellInv'
  BY <1>1, <1>2, Histories DEF AppInv, ShellInv, Place
<1>4. /\ menu = MenuClosed /\ editor = EditorClosed /\ screen = ScreenClosed
      /\ settings = SettingsClosed /\ studio = Closed
  BY <1>1 DEF AppInv, ScreensInv
<1>5. CASE Push("replays") /\ Open /\ UNCHANGED <<editorVars, prefsVars>>
  <2>1. mode' = "replays" /\ UNCHANGED <<levels, editor, characters, created, screen, settings>>
    BY <1>5 DEF Push, editorVars, prefsVars
  <2>2. UNCHANGED <<files, kept, saved>>
    BY <1>5 DEF Open
  <2>3. StudioInv' /\ studio'.open
    BY <1>4, <1>5, OpenStudioKeeps DEF AppInv, KeptInv, StudioInv
  <2>4. StudioOk(studio')
    BY <2>3 DEF StudioInv, Closed
  <2>5. KeptInv'
    BY <2>1, <2>2, KeptStays DEF AppInv
  <2>6. ScreensInv'
    BY <1>1, <1>4, <2>1, <2>4 DEF ScreensInv
  <2> QED
    BY <1>3, <2>5, <2>6 DEF AppInv
<1>6. CASE Push("characters") /\ screen' = OpenedScreen
           /\ UNCHANGED <<studioVars, editorVars, OfSettings, characters, created>>
  <2>1. /\ mode' = "characters" /\ screen' = OpenedScreen
        /\ UNCHANGED <<files, kept, saved, studio, levels, editor, characters, created, settings>>
    BY <1>6 DEF Push, editorVars, studioVars, OfSettings
  <2>2. ScreenOk(screen', characters')
    BY <2>1, OpenedOk DEF AppInv, KeptInv
  <2>3. KeptInv'
    BY <2>1, KeptStays DEF AppInv
  <2>4. ScreensInv'
    BY <1>1, <1>4, <2>1, <2>2 DEF ScreensInv
  <2> QED
    BY <1>3, <2>3, <2>4 DEF AppInv
<1>7. CASE Push("settings") /\ settings' = OpenedSettings
           /\ UNCHANGED <<studioVars, editorVars, used, stored, OfCharacters>>
  <2>1. /\ mode' = "settings" /\ settings' = OpenedSettings
        /\ UNCHANGED <<files, kept, saved, studio, levels, editor, characters, created, screen>>
    BY <1>7 DEF Push, editorVars, studioVars, OfCharacters
  <2>2. SettingsOk(settings')
    BY <2>1 DEF OpenedSettings, SettingsOk
  <2>3. KeptInv'
    BY <2>1, KeptStays DEF AppInv
  <2>4. ScreensInv'
    BY <1>1, <1>4, <2>1, <2>2 DEF ScreensInv
  <2> QED
    BY <1>3, <2>3, <2>4 DEF AppInv
<1> QED
  BY <1>5, <1>6, <1>7 DEF OpenScreen

LEMMA ChooseLevelKeeps ==
  ASSUME AppInv, ChooseLevel
  PROVE  AppInv'
<1>1. CASE ToMainMenu
  BY <1>1, MainMenuKeeps
<1> SUFFICES ASSUME ~ToMainMenu PROVE AppInv'
  BY <1>1
<1>2. /\ mode = "levels" /\ target' = target /\ target # "none" /\ UNCHANGED cursor
      /\ mode' \in {"session", "study", "editor"} /\ history' = Append(history, "levels")
      /\ UNCHANGED <<files, kept, saved, levels, characters, created, studio, screen, settings>>
  BY DEF ChooseLevel, Push, OtherScreens, studioVars, editorVars, prefsVars
<1>6. flow = "none"
  BY <1>2 DEF AppInv, ShellInv
<1>3. history = FromMain /\ history' = FromLevels /\ cursor = FALSE
  BY <1>2, <1>6, Histories DEF AppInv, ShellInv, Place
<1>4. /\ menu = MenuClosed /\ editor = EditorClosed /\ screen = ScreenClosed
      /\ settings = SettingsClosed /\ studio = Closed
  BY <1>2 DEF AppInv, ScreensInv
<1>5. KeptInv'
  BY <1>2, KeptStays DEF AppInv
<1>7. CASE target = "host"
  <2>1. PICK slot \in Slots : menu' = NewMenu("host", slot)
    BY <1>7 DEF ChooseLevel
  <2>2. mode' = "session" /\ flow' = flow /\ editor' = editor
    BY <1>7 DEF ChooseLevel, Push, OtherScreens, editorVars
  <2>3. MenuOk(menu') /\ menu'.busy = FALSE
    BY <2>1, NewMenuOk, EditorAssumption
  <2>4. ScreensInv'
    BY <1>2, <1>4, <2>2, <2>3 DEF ScreensInv
  <2>5. ShellInv'
    BY <1>2, <1>3, <1>6, <1>7, <2>2, <2>3 DEF ShellInv, Place
  <2> QED
    BY <1>5, <2>4, <2>5 DEF AppInv
<1>8. CASE target = "study"
  <2>1. mode' = "study" /\ flow' = "starting" /\ editor' = editor /\ menu' = menu
    BY <1>8 DEF ChooseLevel, Push, OtherScreens, editorVars
  <2>2. ScreensInv'
    BY <1>2, <1>4, <2>1 DEF ScreensInv
  <2>3. ShellInv'
    BY <1>2, <1>3, <2>1 DEF ShellInv, Place
  <2> QED
    BY <1>5, <2>2, <2>3 DEF AppInv
<1>9. CASE target = "editor"
  <2>1. PICK slot \in Slots : editor' = OpenedEditor(slot)
    BY <1>9 DEF ChooseLevel
  <2>2. mode' = "editor" /\ flow' = flow /\ menu' = menu
    BY <1>9 DEF ChooseLevel, Push
  <2>3. EditOk(editor')
    BY <2>1, OpenedEditorOk DEF AppInv, KeptInv
  <2>4. ScreensInv'
    BY <1>2, <1>4, <2>2, <2>3 DEF ScreensInv
  <2>5. ShellInv'
    BY <1>2, <1>3, <1>6, <2>2 DEF ShellInv, Place
  <2> QED
    BY <1>5, <2>4, <2>5 DEF AppInv
<1> QED
  BY <1>7, <1>8, <1>9 DEF ChooseLevel

\* A frame of the menu of a session, whatever has become of the session.
LEMMA InMenuKeeps ==
  ASSUME AppInv, mode = "session", UNCHANGED <<mode, history, target>>, UNCHANGED OtherScreens,
         MenuOk(menu'), flow' \in {"none", "starting", "running", "failed"}, cursor' \in BOOLEAN,
         flow' = "starting" => menu'.busy = TRUE,
         flow' = "none" => menu'.busy = FALSE /\ cursor' = FALSE
  PROVE  AppInv'
<1>1. KeptInv' /\ UNCHANGED <<studio, saved, editor, screen, characters, settings>>
  BY OthersStay DEF AppInv
<1>2. ScreensInv'
  BY <1>1 DEF AppInv, ScreensInv
<1>3. Place' /\ (target' # "none" <=> (mode' = "levels" \/ history' = FromLevels))
  BY DEF AppInv, ShellInv, Place
<1>4. ShellInv'
  BY <1>3, Zenon DEF ShellInv
<1> QED
  BY <1>1, <1>2, <1>4 DEF AppInv

LEMMA UseMenuKeeps ==
  ASSUME AppInv, UseMenu \/ GoBackInMenu \/ BrowserGoesOn
  PROVE  AppInv'
<1>1. /\ mode = "session" /\ flow \in {"none", "starting"} /\ cursor \in BOOLEAN
      /\ UNCHANGED <<mode, history, target, flow, cursor>> /\ UNCHANGED OtherScreens
  BY DEF UseMenu, GoBackInMenu, BrowserGoesOn, shellVars, AppInv, ShellInv
<1>2. /\ MenuOk(menu) 
      /\ flow = "none" => menu.busy = FALSE /\ cursor = FALSE
      /\ flow = "starting" => menu.busy = TRUE
  BY <1>1 DEF AppInv, ScreensInv, ShellInv
<1>3. CASE GoBackInMenu
  <2>1. menu' = BackToSetup(menu) /\ flow = "none"
    BY <1>3 DEF GoBackInMenu
  <2>2. MenuOk(menu') /\ menu'.busy = FALSE
    BY <1>2, <2>1, BackOk
  <2> QED
    BY <1>1, <1>2, <2>1, <2>2, InMenuKeeps
<1>4. CASE UseMenu \/ BrowserGoesOn
  <2>1. MenuKeys
    BY <1>4 DEF UseMenu, BrowserGoesOn, MenuKeys
  <2>2. MenuOk(menu') /\ menu'.busy = menu.busy
    BY <1>2, <2>1, MenuKeysOk
  <2> QED
    BY <1>1, <1>2, <2>2, InMenuKeeps
<1> QED
  BY <1>3, <1>4

LEMMA SubmitKeeps ==
  ASSUME AppInv, SubmitMenu \/ StartSession
  PROVE  AppInv'
<1>1. mode = "session" /\ UNCHANGED <<mode, history, target>> /\ UNCHANGED OtherScreens
  BY DEF SubmitMenu, StartSession
<1>2. MenuOk(menu) /\ flow \in {"none", "starting", "running", "failed"} /\ cursor \in BOOLEAN
  BY <1>1 DEF AppInv, ScreensInv, ShellInv
<1>3. ASSUME NEW m, MenuOk(m)
      PROVE  /\ MenuOk(WithStatus(m, TRUE)) /\ WithStatus(m, TRUE).busy = TRUE
             /\ MenuOk(WithStatus(m, FALSE)) /\ WithStatus(m, FALSE).busy = FALSE
  BY <1>3, StatusOk
<1>4. ASSUME NEW m, MenuOk(m), Retry(m)
      PROVE  AppInv'
  <2>1. menu' = WithStatus(m, FALSE) /\ flow' = "none" /\ cursor' = FALSE
    BY <1>4 DEF Retry
  <2>2. MenuOk(menu') /\ menu'.busy = FALSE
    BY <1>3, <1>4, <2>1
  <2> QED
    BY <1>1, <2>1, <2>2, InMenuKeeps
<1>5. CASE SubmitMenu
  <2>1. CASE Retry(menu)
    BY <1>2, <1>4, <2>1
  <2>2. CASE menu' = WithStatus(menu, TRUE) /\ flow' = "starting" /\ cursor' = FALSE
    BY <1>1, <1>2, <1>3, <2>2, InMenuKeeps
  <2> QED
    BY <1>5, <2>1, <2>2 DEF SubmitMenu
<1>6. CASE StartSession
  <2>1. PICK m \in {WithStatus(menu, TRUE)}
                    \cup (IF menu.step = "team" THEN {BackToSetup(WithStatus(menu, TRUE))} ELSE {}) :
          \/ Retry(m)
          \/ flow = "starting" /\ flow' = "running" /\ cursor' = TRUE /\ menu' = m
          \/ flow = "starting" /\ menu' = WithStatus(m, TRUE) /\ UNCHANGED <<flow, cursor>>
    BY <1>6 DEF StartSession
  <2>2. MenuOk(m)
    BY <1>2, <1>3, <2>1, BackOk
  <2>3. CASE Retry(m)
    BY <1>4, <2>2, <2>3
  <2>4. CASE flow' = "running" /\ cursor' = TRUE /\ menu' = m
    BY <1>1, <2>2, <2>4, InMenuKeeps
  <2>5. CASE flow = "starting" /\ menu' = WithStatus(m, TRUE) /\ UNCHANGED <<flow, cursor>>
    BY <1>1, <1>2, <1>3, <2>2, <2>5, InMenuKeeps
  <2> QED
    BY <2>1, <2>3, <2>4, <2>5
<1> QED
  BY <1>5, <1>6

LEMMA LeaveMenuKeeps ==
  ASSUME AppInv, LeaveMenu
  PROVE  AppInv'
<1>1. /\ mode = "session" /\ menu' = MenuClosed /\ flow' = "none" /\ cursor' = FALSE
      /\ mode' = Last(history) /\ history' = Front(history) /\ target' = target
      /\ UNCHANGED OtherScreens
  BY DEF LeaveMenu, Pop
<1>2. KeptInv' /\ UNCHANGED <<studio, saved, editor, screen, characters, settings>>
  BY <1>1, OthersStay DEF AppInv
<1>3. \/ history = FromMain /\ mode' = "main" /\ history' = AtRoot
      \/ history = FromLevels /\ mode' = "levels" /\ history' = FromMain
  BY <1>1, Histories DEF AppInv, ShellInv, Place
<1>4. ScreensInv'
  BY <1>1, <1>2, <1>3 DEF AppInv, ScreensInv
<1>5. ShellInv'
  BY <1>1, <1>3, Histories DEF AppInv, ShellInv, Place
<1> QED
  BY <1>2, <1>4, <1>5 DEF AppInv

LEMMA PlayKeeps ==
  ASSUME AppInv, PlaySession \/ StartStudy
  PROVE  AppInv'
<1>1. CASE ToMainMenu
  BY <1>1, MainMenuKeeps
<1>2. CASE /\ mode \in {"session", "study"} /\ flow' \in {"running", "failed"} /\ cursor' = TRUE
           /\ UNCHANGED <<mode, history, target, menu, OtherScreens>>
  <2>1. KeptInv' /\ UNCHANGED <<studio, saved, editor, screen, characters, settings>>
    BY <1>2, OthersStay DEF AppInv
  <2>2. ScreensInv'
    BY <1>2, <2>1 DEF AppInv, ScreensInv
  <2>3. ShellInv'
    BY <1>2 DEF AppInv, ShellInv, Place
  <2> QED
    BY <2>1, <2>2, <2>3 DEF AppInv
<1> QED
  BY <1>1, <1>2 DEF PlaySession, StartStudy

LEMMA LeaveStudyKeeps ==
  ASSUME AppInv, LeaveStudy
  PROVE  AppInv'
<1>1. /\ mode = "study" /\ menu' = menu /\ flow' = "none" /\ cursor' = FALSE
      /\ mode' = Last(history) /\ history' = Front(history) /\ target' = target
      /\ UNCHANGED OtherScreens
  BY DEF LeaveStudy, Pop
<1>2. KeptInv' /\ UNCHANGED <<studio, saved, editor, screen, characters, settings>>
  BY <1>1, OthersStay DEF AppInv
<1>3. history = FromLevels /\ mode' = "levels" /\ history' = FromMain
  BY <1>1, Histories DEF AppInv, ShellInv, Place
<1>4. ScreensInv'
  BY <1>1, <1>2, <1>3 DEF AppInv, ScreensInv
<1>5. ShellInv'
  BY <1>1, <1>3, Histories DEF AppInv, ShellInv, Place
<1> QED
  BY <1>2, <1>4, <1>5 DEF AppInv

LEMMA SettingsKeysOk ==
  ASSUME SettingsOk(settings), SettingsKeys
  PROVE  SettingsOk(settings') /\ UNCHANGED OfCharacters
<1> DEFINE s == settings
<1>1. s \in [open : {TRUE}, working : {s.working}, capture : {s.capture}]
  BY DEF SettingsOk
<1>2. UNCHANGED OfCharacters
  BY DEF SettingsKeys, BeginCapture, EndCapture, RestoreDefaults, Apply
<1>3. ASSUME NEW d, settings' = [s EXCEPT !.capture = d]
      PROVE  SettingsOk(settings')
  <2> DEFINE t == [s EXCEPT !.capture = d]
  <2>1. t \in [open : {TRUE}, working : {s.working}, capture : {d}]
    BY <1>1
  <2> HIDE DEF t
  <2>2. t.working = s.working /\ t.capture = d
    BY <2>1
  <2> QED
    BY <1>3, <2>1, <2>2 DEF SettingsOk, t
<1>4. ASSUME NEW v, settings' = [s EXCEPT !.working = v]
      PROVE  SettingsOk(settings')
  <2> DEFINE t == [s EXCEPT !.working = v]
  <2>1. t \in [open : {TRUE}, working : {v}, capture : {s.capture}]
    BY <1>1
  <2> HIDE DEF t
  <2>2. t.working = v /\ t.capture = s.capture
    BY <2>1
  <2> QED
    BY <1>4, <2>1, <2>2 DEF SettingsOk, t
<1>5. ASSUME NEW v, NEW d, settings' = [s EXCEPT !.capture = d, !.working = v]
      PROVE  SettingsOk(settings')
  <2> DEFINE t == [s EXCEPT !.capture = d, !.working = v]
  <2>1. t \in [open : {TRUE}, working : {v}, capture : {d}]
    BY <1>1
  <2> HIDE DEF t
  <2>2. t.working = v /\ t.capture = d
    BY <2>1
  <2> QED
    BY <1>5, <2>1, <2>2 DEF SettingsOk, t
<1>6. CASE BeginCapture
  BY <1>3, <1>6, Zenon DEF BeginCapture
<1>7. CASE EndCapture
  <2>1. CASE settings' = [s EXCEPT !.capture = NotCapturing]
    BY <1>2, <1>3, <2>1
  <2>2. CASE \E b \in Bindings : settings' = [s EXCEPT !.capture = NotCapturing, !.working = b]
    <3>1. PICK b \in Bindings : settings' = [s EXCEPT !.capture = NotCapturing, !.working = b]
      BY <2>2
    <3> QED
      BY <1>2, <1>5, <3>1
  <2> QED
    BY <1>7, <2>1, <2>2 DEF EndCapture
<1>8. CASE RestoreDefaults
  BY <1>4, <1>8 DEF RestoreDefaults
<1>9. CASE Apply
  BY <1>9 DEF Apply
<1> QED
  BY <1>2, <1>6, <1>7, <1>8, <1>9 DEF SettingsKeys

LEMMA UseScreenKeeps ==
  ASSUME AppInv, UseScreen
  PROVE  AppInv'
<1>1. UNCHANGED <<mode, history, target, flow, cursor, menu>> /\ mode # "session"
  BY DEF UseScreen, shellVars
<1>2. ShellInv'
  BY <1>1 DEF AppInv, ShellInv, Place
<1>3. CASE mode = "replays" /\ StudioKeys /\ UNCHANGED <<shellVars, menu, editorVars, prefsVars>>
  <2>1. UNCHANGED <<levels, editor, characters, created, screen, settings>>
    BY <1>3 DEF editorVars, prefsVars
  <2>2. StudioInv
    BY DEF AppInv, KeptInv, ScreensInv, StudioInv
  <2>3. StudioInv' /\ FilesInv'
    BY <1>3, <2>2, StudioKeysKeep, KeysKeepFiles DEF AppInv, KeptInv, FilesInv, Complete
  <2>4. KeptInv'
    BY <2>1, <2>3 DEF AppInv, KeptInv, LevelsOk, StudioInv
  <2>5. ScreensInv'
    BY <1>1, <1>3, <2>1, <2>3 DEF AppInv, ScreensInv, StudioInv
  <2> QED
    BY <1>2, <2>4, <2>5 DEF AppInv
<1>4. CASE mode = "editor" /\ EditorKeys /\ UNCHANGED <<shellVars, menu, studioVars, prefsVars>>
  <2>1. UNCHANGED <<files, kept, saved, studio, characters, created, screen, settings>>
    BY <1>4 DEF studioVars, prefsVars
  <2>2. EditorInv
    BY <1>4 DEF AppInv, KeptInv, ScreensInv, EditorInv
  <2>3. EditorInv' /\ editor'.open
    BY <1>4, <2>2, EditorKeysKeep
  <2>4. EditOk(editor')
    BY <2>3 DEF EditorInv, EditorClosed
  <2>5. KeptInv'
    BY <2>1, <2>3 DEF AppInv, KeptInv, FilesInv, EditorInv
  <2>6. ScreensInv'
    BY <1>1, <1>4, <2>1, <2>4 DEF AppInv, ScreensInv
  <2> QED
    BY <1>2, <2>5, <2>6 DEF AppInv
<1>5. CASE mode = "settings" /\ SettingsKeys /\ UNCHANGED <<shellVars, menu, studioVars, editorVars>>
  <2>1. UNCHANGED <<files, kept, saved, studio, levels, editor>>
    BY <1>5 DEF studioVars, editorVars
  <2>2. SettingsOk(settings') /\ UNCHANGED <<characters, screen, created>>
    BY <1>5, SettingsKeysOk DEF AppInv, ScreensInv, OfCharacters
  <2>3. KeptInv'
    BY <2>1, <2>2, KeptStays DEF AppInv
  <2>4. ScreensInv'
    BY <1>1, <1>5, <2>1, <2>2 DEF AppInv, ScreensInv
  <2> QED
    BY <1>2, <2>3, <2>4 DEF AppInv
<1>6. CASE mode = "characters" /\ ScreenKeys /\ UNCHANGED <<shellVars, menu, studioVars, editorVars>>
  <2>1. UNCHANGED <<files, kept, saved, studio, levels, editor>>
    BY <1>6 DEF studioVars, editorVars
  <2>2. CharactersInv
    BY <1>6 DEF AppInv, KeptInv, ScreensInv, CharactersInv
  <2>3. CharactersInv' /\ screen'.open = TRUE
    BY <1>6, <2>2, ScreenKeysOk
  <2>4. settings' = settings
    BY <1>6 DEF ScreenKeys, SelectCharacter, ClickName, Edit, CreateCharacter, SaveCharacter,
                DeleteCharacter, OfSettings
  <2>5. ScreenOk(screen', characters')
    BY <2>3 DEF CharactersInv, ScreenClosed
  <2>6. KeptInv'
    BY <2>1, <2>3 DEF AppInv, KeptInv, FilesInv, LevelsOk, CharactersInv
  <2>7. ScreensInv'
    BY <1>1, <1>6, <2>1, <2>4, <2>5 DEF AppInv, ScreensInv
  <2> QED
    BY <1>2, <2>6, <2>7 DEF AppInv
<1> QED
  BY <1>3, <1>4, <1>5, <1>6 DEF UseScreen

LEMMA LeavesScreenKeeps ==
  ASSUME AppInv, LeavesScreen
  PROVE  AppInv'
<1>1. /\ mode \in {"replays", "editor", "settings", "characters"}
      /\ mode' = Last(history) /\ history' = Front(history) /\ target' = target /\ cursor' = FALSE
      /\ flow' = flow /\ menu' = menu
  BY DEF LeavesScreen, Pop
<1>2. \/ mode # "editor" /\ history = FromMain /\ mode' = "main" /\ history' = AtRoot
      \/ mode = "editor" /\ history = FromLevels /\ mode' = "levels" /\ history' = FromMain
  BY <1>1, Histories DEF AppInv, ShellInv, Place
<1>3. ShellInv'
  BY <1>1, <1>2, Histories DEF AppInv, ShellInv, Place
<1>4. menu = MenuClosed
  BY <1>1 DEF AppInv, ScreensInv
<1>5. /\ UNCHANGED <<files, kept, saved, levels, characters, created>>
      /\ IF mode = "replays" THEN studio' = Closed ELSE studio' = studio
      /\ IF mode = "editor" THEN editor' = EditorClosed ELSE editor' = editor
      /\ IF mode = "characters" THEN screen' = ScreenClosed ELSE screen' = screen
      /\ IF mode = "settings" THEN settings' = SettingsClosed ELSE settings' = settings
  <2>1. CASE mode = "replays" /\ Back /\ UNCHANGED <<editorVars, prefsVars>>
    BY <2>1 DEF Back, Becomes, editorVars, prefsVars
  <2>2. CASE mode = "editor" /\ EditorBack /\ UNCHANGED <<studioVars, prefsVars>>
    BY <2>2 DEF EditorBack, Edits, studioVars, prefsVars
  <2>3. CASE mode = "settings" /\ LeaveSettings /\ UNCHANGED <<studioVars, editorVars>>
    BY <2>3 DEF LeaveSettings, OfCharacters, studioVars, editorVars
  <2>4. CASE mode = "characters" /\ LeaveScreen /\ UNCHANGED <<studioVars, editorVars>>
    BY <2>4 DEF LeaveScreen, OfSettings, studioVars, editorVars
  <2> QED
    BY <2>1, <2>2, <2>3, <2>4 DEF LeavesScreen
<1>6. KeptInv'
  BY <1>5, KeptStays DEF AppInv
<1>7. studio' = Closed /\ editor' = EditorClosed /\ screen' = ScreenClosed /\ settings' = SettingsClosed
  BY <1>1, <1>5 DEF AppInv, ScreensInv
<1>8. ScreensInv'
  BY <1>1, <1>2, <1>4, <1>7 DEF ScreensInv
<1> QED
  BY <1>3, <1>6, <1>8 DEF AppInv

LEMMA NextKeeps ==
  ASSUME AppInv, [Next]_vars
  PROVE  AppInv'
<1>1. CASE SwitchView \/ OpenLevels \/ OpenJoin \/ LeaveLevels
  BY <1>1, NavigationKeeps
<1>2. CASE OpenScreen \/ ChooseLevel
  BY <1>2, OpenScreenKeeps, ChooseLevelKeeps
<1>3. CASE UseMenu \/ GoBackInMenu \/ LeaveMenu \/ BrowserGoesOn
  BY <1>3, UseMenuKeeps, LeaveMenuKeeps
<1>4. CASE SubmitMenu \/ StartSession \/ PlaySession
  BY <1>4, SubmitKeeps, PlayKeeps
<1>5. CASE StartStudy \/ LeaveStudy
  BY <1>5, PlayKeeps, LeaveStudyKeeps
<1>6. CASE UseScreen \/ LeavesScreen \/ Restart
  BY <1>6, UseScreenKeeps, LeavesScreenKeeps, MainMenuKeeps
<1>7. CASE UNCHANGED vars
  <2>1. /\ UNCHANGED <<mode, history, target, flow, cursor, menu, files, kept, saved, studio>>
        /\ UNCHANGED <<levels, editor, settings, characters, screen, created>>
    BY <1>7 DEF vars, shellVars, studioVars, editorVars, prefsVars
  <2>2. KeptInv'
    BY <2>1, KeptStays DEF AppInv
  <2> QED
    BY <2>1, <2>2 DEF AppInv, ScreensInv, ShellInv, Place
<1> QED
  BY <1>1, <1>2, <1>3, <1>4, <1>5, <1>6, <1>7 DEF Next

LEMMA InitHolds ==
  ASSUME Init
  PROVE  AppInv
<1>1. FilesInv
  <2>1. /\ files = {[path |-> r, rec |-> r, temp |-> FALSE] : r \in Recordings}
        /\ kept = Recordings
    BY DEF Init, FilesInit
  <2>2. files \subseteq Files
    <3>1. \A r \in Recordings : r \in 1..MaxPaths
      BY StudioAssumption
    <3>2. \A r \in Recordings : [path |-> r, rec |-> r, temp |-> FALSE] \in Files
      BY <3>1 DEF Files
    <3> QED
      BY <2>1, <3>2
  <2>3. \A r \in kept : \E f \in files : f.rec = r
    <3> TAKE r \in kept
    <3>1. [path |-> r, rec |-> r, temp |-> FALSE] \in files
      BY <2>1
    <3> QED
      BY <3>1
  <2> QED
    BY <2>2, <2>3 DEF FilesInv, Complete
<1>2. LevelsOk
  BY DEF Init, LevelsInit, LevelsOk
<1>3. DiskOk(characters) /\ Cardinality(characters) = created
  <2>1. characters = {} /\ created = 0
    BY DEF Init, PrefsInit
  <2>2. IsFiniteSet(characters) /\ Cardinality(characters) = 0
    BY <2>1, FS_EmptySet
  <2> QED
    BY <2>1, <2>2 DEF DiskOk
<1>4. KeptInv
  BY <1>1, <1>2, <1>3 DEF KeptInv, Init, FilesInit
<1>5. ScreensInv
  BY DEF ScreensInv, Init, PrefsInit
<1>6. ShellInv
  BY Histories DEF ShellInv, Place, Init, AtRoot
<1> QED
  BY <1>4, <1>5, <1>6 DEF AppInv

LEMMA ShellShown ==
  ASSUME AppInv
  PROVE  ShellIsSound
<1>1. ToSet(history) = IF history = FromMain THEN {"main"}
                       ELSE IF history = FromLevels THEN {"main", "levels"} ELSE {}
  <2>1. CASE history = AtRoot
    BY <2>1, Histories DEF ToSet, AtRoot
  <2>2. CASE history = FromMain
    <3>1. FromMain[1] = "main" /\ DOMAIN FromMain = {1}
      BY DEF FromMain
    <3>2. ToSet(FromMain) = {"main"}
      BY <3>1 DEF ToSet
    <3> QED
      BY <2>2, <3>2
  <2>3. CASE history = FromLevels
    <3>1. Len(FromLevels) = 2 /\ FromLevels[1] = "main" /\ FromLevels[2] = "levels" /\ DOMAIN FromLevels = 1..2
      BY DEF FromLevels
    <3>2. ToSet(FromLevels) = {FromLevels[i] : i \in {1, 2}}
      BY <3>1 DEF ToSet
    <3> QED
      BY <2>3, <3>1, <3>2, Histories
  <2> QED
    BY <2>1, <2>2, <2>3 DEF AppInv, ShellInv, Place
<1>2. /\ Len(history) = (IF history = FromMain THEN 1 ELSE IF history = FromLevels THEN 2 ELSE 0)
      /\ history # <<>> => history[1] = "main"
  <2>1. CASE history = AtRoot
    BY <2>1, Histories DEF AtRoot
  <2>2. CASE history = FromMain
    BY <2>2 DEF FromMain
  <2>3. CASE history = FromLevels
    BY <2>3, Histories DEF FromLevels
  <2> QED
    BY <2>1, <2>2, <2>3 DEF AppInv, ShellInv, Place
<1>3. Cardinality(Behind) = Len(history) + 1
  <2>1. IsFiniteSet({}) /\ Cardinality({}) = 0
    BY FS_EmptySet
  <2>2. \A S, x : IsFiniteSet(S) /\ x \notin S => IsFiniteSet(S \cup {x}) /\ Cardinality(S \cup {x}) = Cardinality(S) + 1
    BY FS_AddElement
  <2>3. IsFiniteSet({mode}) /\ Cardinality({mode}) = 1
    BY <2>1, <2>2
  <2>4. mode # "main" => IsFiniteSet({"main", mode}) /\ Cardinality({"main", mode}) = 2
    <3>1. {mode} \cup {"main"} = {"main", mode}
      OBVIOUS
    <3> QED
      BY <2>2, <2>3, <3>1
  <2>5. mode \notin {"main", "levels"} => Cardinality({"main", "levels", mode}) = 3
    <3>1. {"main", mode} \cup {"levels"} = {"main", "levels", mode}
      OBVIOUS
    <3> QED
      BY <2>2, <2>4, <3>1
  <2>6. \/ history = AtRoot /\ Behind = {mode}
        \/ history = FromMain /\ mode # "main" /\ Behind = {"main", mode}
        \/ history = FromLevels /\ mode \notin {"main", "levels"} /\ Behind = {"main", "levels", mode}
    BY <1>1, Histories DEF Behind, AppInv, ShellInv, Place
  <2>7. CASE history = AtRoot
    <3>1. Behind = {mode}
      BY <2>6, <2>7, Histories
    <3>2. Len(history) = 0
      BY <1>2, <2>7, Histories
    <3> QED
      BY <2>3, <3>1, <3>2
  <2>8. CASE history = FromMain
    <3>1. Behind = {"main", mode}
      BY <2>6, <2>8, Histories
    <3>2. Cardinality({"main", mode}) = 2
      BY <2>4, <2>6, <2>8, Histories
    <3>3. Len(history) = 1
      BY <1>2, <2>8, Histories
    <3> QED
      BY <3>1, <3>2, <3>3
  <2>9. CASE history = FromLevels
    <3>1. Behind = {"main", "levels", mode}
      BY <2>6, <2>9, Histories
    <3>2. Cardinality({"main", "levels", mode}) = 3
      BY <2>5, <2>6, <2>9, Histories
    <3>3. Len(history) = 2
      BY <1>2, <2>9, Histories
    <3> QED
      BY <3>1, <3>2, <3>3
  <2> QED
    BY <2>6, <2>7, <2>8, <2>9
<1>4. /\ "session" \in Behind <=> mode = "session"
      /\ "editor" \in Behind <=> mode = "editor"
      /\ "settings" \in Behind <=> mode = "settings"
      /\ "characters" \in Behind <=> mode = "characters"
      /\ mode = "replays" => "replays" \in Behind
      /\ "levels" \in Behind <=> (mode = "levels" \/ history = FromLevels)
  BY <1>1, Histories DEF Behind, AppInv, ShellInv, Place
<1>5. menu.open <=> mode = "session"
  <2>1. CASE mode = "session"
    <3>1. MenuOk(menu)
      BY <2>1 DEF AppInv, ScreensInv
    <3>2. menu.open = TRUE
      BY <3>1 DEF MenuOk, Menus
    <3> QED
      BY <2>1, <3>2
  <2>2. CASE mode # "session"
    <3>1. menu.open = FALSE
      BY <2>2 DEF AppInv, ScreensInv, MenuClosed
    <3> QED
      BY <2>2, <3>1
  <2> QED
    BY <2>1, <2>2
<1>6. editor.open <=> mode = "editor"
  BY EditFields DEF AppInv, ScreensInv, EditorClosed
<1>7. settings.open <=> mode = "settings"
  <2>1. CASE mode = "settings"
    <3>1. SettingsOk(settings)
      BY <2>1 DEF AppInv, ScreensInv
    <3>2. settings.open = TRUE
      BY <3>1 DEF SettingsOk
    <3> QED
      BY <2>1, <3>2
  <2>2. CASE mode # "settings"
    <3>1. settings.open = FALSE
      BY <2>2 DEF AppInv, ScreensInv, SettingsClosed
    <3> QED
      BY <2>2, <3>1
  <2> QED
    BY <2>1, <2>2
<1>8. screen.open <=> mode = "characters"
  <2>1. CASE mode = "characters"
    <3>1. ScreenOk(screen, characters)
      BY <2>1 DEF AppInv, ScreensInv
    <3>2. screen.open = TRUE
      BY <3>1 DEF ScreenOk, Screens
    <3> QED
      BY <2>1, <3>2
  <2>2. CASE mode # "characters"
    <3>1. screen.open = FALSE
      BY <2>2 DEF AppInv, ScreensInv, ScreenClosed
    <3> QED
      BY <2>2, <3>1
  <2> QED
    BY <2>1, <2>2
<1>9. studio.open => mode = "replays"
  BY DEF AppInv, ScreensInv, Closed
<1>10. StudioFreesCursor
  BY StudioShown DEF AppInv, KeptInv, ScreensInv, StudioInv
<1>11. /\ flow # "none" => mode \in {"session", "study"}
       /\ mode = "study" => flow # "none"
       /\ mode = "session" /\ flow = "starting" => menu.busy
       /\ flow = "none" /\ menu.open => ~menu.busy
       /\ (target # "none") <=> ("levels" \in Behind)
       /\ cursor => flow # "none"
  BY <1>4, <1>5 DEF AppInv, ShellInv
<1> QED
  BY <1>2, <1>3, <1>4, <1>5, <1>6, <1>7, <1>8, <1>9, <1>10, <1>11, Zenon DEF ShellIsSound

-----------------------------------------------------------------------------
\* The invariant of the program, of which each screen's is a part: what is kept on disk is
\* sound, every screen is sound and exists just while it is shown, and the shell, its menu
\* and its session agree (main, MultiplayerSessionMenu, ReplayStudio, LevelEditor,
\* CharacterEditorScreen).
THEOREM ProgramInvariant == Spec => []AppInv
<1>1. Init => AppInv
  BY InitHolds
<1>2. AppInv /\ [Next]_vars => AppInv'
  BY NextKeeps
<1> QED
  BY <1>1, <1>2, PTL DEF Spec

\* Whatever is typed and chosen, the menu submits what it shows, for any list of rates, any
\* number of profiles and any sessions that advertise themselves (MultiplayerSessionMenu).
THEOREM LaunchesAsShown == Spec => []LaunchesWhatIsShown
<1>1. AppInv => LaunchesWhatIsShown
  BY MenuShowsLaunch DEF AppInv, ScreensInv, MenuInv
<1> QED
  BY <1>1, ProgramInvariant, PTL

\* No character is overwritten by another, whatever their names, and the editor shows what is
\* on disk (CharacterEditorScreen, CharacterPresetStore).
THEOREM NoCharacterLost == Spec => []CharactersSurvive
<1>1. AppInv => CharactersSurvive
  <2> SUFFICES ASSUME AppInv PROVE CharactersSurvive
    OBVIOUS
  <2>1. screen.open => ScreenOk(screen, characters)
    BY DEF AppInv, ScreensInv, ScreenClosed
  <2>2. Cardinality(characters) = created
    BY DEF AppInv, KeptInv
  <2> QED
    BY <2>1, <2>2 DEF CharactersSurvive, ScreenOk
<1> QED
  BY <1>1, ProgramInvariant, PTL

\* RecordingsSurvive for any number of recordings, any file that fails and any crash
\* (ReplayStudio::renameReplay, applyRenameSelectedReplay).
THEOREM NoRecordingLost == Spec => []RecordingsSurvive
<1>1. AppInv => RecordingsSurvive
  BY DEF AppInv, KeptInv, FilesInv, Complete, RecordingsSurvive
<1> QED
  BY <1>1, ProgramInvariant, PTL

\* Inside a replay of any length, with any participants and any checkpoints, what is shown and
\* followed is there (ReplayStudio::update).
THEOREM InsideSound == Spec => []InsideIsSound
<1>1. AppInv => InsideIsSound
  BY StudioShown DEF AppInv, KeptInv, ScreensInv, StudioInv
<1> QED
  BY <1>1, ProgramInvariant, PTL

\* However items are placed, dragged, sized and removed, in an arena of any size, a level that
\* is not typed keeps its obstacles apart and everything inside (LevelEditor::update).
THEOREM EditingSound == Spec => []EditingIsSound
<1>1. AppInv => EditingIsSound
  BY EditorShown DEF AppInv, KeptInv, ScreensInv, EditorInv
<1> QED
  BY <1>1, ProgramInvariant, PTL

\* Whatever screens are opened and left and whenever a session fails, the shell shows one screen,
\* remembers the way back and leaves no session behind a menu (main, popMenuMode).
THEOREM ShellSound == Spec => []ShellIsSound
<1>1. AppInv => ShellIsSound
  BY ShellShown
<1> QED
  BY <1>1, ProgramInvariant, PTL
=============================================================================
