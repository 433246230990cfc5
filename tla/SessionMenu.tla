----------------------------- MODULE SessionMenu -----------------------------
(***************************************************************************)
(* The menu that hosts or joins a session (MultiplayerSessionMenu): its    *)
(* fields, choices and two steps, the browser of the sessions that         *)
(* advertise themselves (SessionDiscovery), and the launch configuration   *)
(* it submits (SessionLaunchConfig).                                       *)
(* A text is what it parses to, or "bad", NotANumber or FALSE.             *)
(* One key or button acts per frame; advertisements come and expire in     *)
(* frames of their own, whenever the queries of the browser let them.      *)
(* Left out: the session label, the shot rule, which player names and      *)
(* labels are shown, protocol and study options.                           *)
(***************************************************************************)
EXTENDS Integers, Sequences, SequencesExt, FiniteSetsExt

CONSTANTS
  HostTexts,      \* what may be typed as a host: [host, port], the port "none" if not given
  PortTexts,      \* what may be typed as a port
  Advertisers,    \* the sessions around: numbers
  EndpointOf,     \* of each of them, [host, port]
  Labels,         \* numbers a session may be listed under, and sorted by
  CapTexts, BotTexts,  \* numbers, or NotANumber
  Locals,         \* localParticipantCount_
  Rates,          \* kSessionTickRateChoicesHz, ascending
  DefaultTick, DefaultSnapshot,
  Profiles,       \* the number of character profiles
  Rows            \* maxVisibleCharacterDropdownRows

Hosts == {"none"} \cup {t.host : t \in HostTexts} \cup {EndpointOf[a].host : a \in Advertisers}
Ports == {"none"} \cup PortTexts \cup {t.port : t \in HostTexts} \cup {EndpointOf[a].port : a \in Advertisers}
Texts == [host : Hosts, port : Ports]

ASSUME MenuAssumption ==
  /\ HostTexts \subseteq Texts
  /\ \E t \in HostTexts : t.host # "bad" /\ t.port = "none"
  /\ \E p \in PortTexts : p # "bad"
  /\ Advertisers \subseteq Int /\ Labels \subseteq Int /\ EndpointOf \in [Advertisers -> Texts]
  /\ CapTexts \subseteq Nat /\ CapTexts # {} /\ BotTexts \subseteq Nat /\ BotTexts # {}
  /\ Locals \in Nat /\ Profiles \in Nat \ {0} /\ Rows \in Nat \ {0}
  /\ Rates \in Seq(Nat) /\ \A i, j \in 1..Len(Rates) : i < j => Rates[i] < Rates[j]
  /\ {DefaultTick, DefaultSnapshot} \subseteq ToSet(Rates) /\ DefaultSnapshot <= DefaultTick

VARIABLE menu     \* the open menu, or MenuClosed

MenuClosed == [open |-> FALSE]
Teams == <<"attacker", "defender", "spectator">>
NotANumber == 100   \* or beyond the maximum
NoEndpoint == [host |-> "none", port |-> "none"]

\* Fields in the order the tab key visits them.
FieldOrder(m) ==
  IF m.mode = "host"
  THEN IF m.advanced THEN <<"port", "name", "profile", "label", "tick", "snapshot", "cap", "shot", "bots">>
       ELSE <<"port", "name", "profile", "bots">>
  ELSE IF m.subview = "direct" THEN <<"host", "port", "name">> ELSE <<"name">>

\* shouldRenderField
Shown(m) == IF m.step = "setup" THEN ToSet(FieldOrder(m)) ELSE {}

\* defaultActiveField
DefaultField(m) == IF m.step = "setup" THEN FieldOrder(m)[1] ELSE "none"
Refocused(m) == [m EXCEPT !.field = DefaultField(m), !.dropdown = FALSE]

\* The constructor.
NewMenu(mode, slot) ==
  Refocused(
    [open |-> TRUE, mode |-> mode, step |-> "setup", subview |-> "browser", advanced |-> FALSE,
     field |-> "none", busy |-> FALSE, slot |-> slot,
     host |-> CHOOSE t \in HostTexts : t.host # "bad" /\ t.port = "none",
     port |-> CHOOSE p \in PortTexts : p # "bad", name |-> TRUE,
     cap |-> Min(CapTexts), bots |-> Min(BotTexts), tick |-> DefaultTick, snapshot |-> DefaultSnapshot,
     team |-> IF mode = "host" THEN "attacker" ELSE "defender",
     profile |-> 1, first |-> 1, dropdown |-> FALSE,
     listed |-> <<>>, selected |-> 0, chosen |-> NoEndpoint])

-----------------------------------------------------------------------------
(* The browser.  listed holds the compatible sessions as they are shown,   *)
(* by label, then by endpoint.                                             *)

Above(e, f) == e.label < f.label \/ (e.label = f.label /\ e.who < f.who)
Endpoint(e) == EndpointOf[e.who]
Sorted(entries) ==
  CHOOSE s \in [1..Cardinality(entries) -> entries] :
    ToSet(s) = entries /\ \A i, j \in DOMAIN s : i < j => Above(s[i], s[j])

\* SessionBrowserCache::upsert of what a session advertises; the incompatible are hidden.
Upserted(listed, who, label, compatible) ==
  LET others == {e \in ToSet(listed) : e.who # who}
      entries == IF compatible THEN others \cup {[who |-> who, label |-> label]} ELSE others
  IN Sorted(entries)

\* SessionBrowserCache::expireStale
Expired(listed, who) == Sorted({e \in ToSet(listed) : e.who # who})

\* reconcileSelectedDiscoveryEntry
RowsOf(m, endpoint) == {i \in 1..Len(m.listed) : Endpoint(m.listed[i]) = endpoint}
Reconciled(m) ==
  IF RowsOf(m, m.chosen) = {} THEN [m EXCEPT !.selected = 0, !.chosen = NoEndpoint]
  ELSE [m EXCEPT !.selected = Min(RowsOf(m, m.chosen))]

\* tickDiscoveryBrowser, in either step.
Listens ==
  /\ menu.open /\ menu.mode = "join"
  /\ \E who \in Advertisers :
       \/ \E label \in Labels, compatible \in BOOLEAN :
            menu' = Reconciled([menu EXCEPT !.listed = Upserted(@, who, label, compatible)])
       \/ menu' = Reconciled([menu EXCEPT !.listed = Expired(@, who)])

\* selectDiscoveryEntry
Chosen(m, row) ==
  LET endpoint == Endpoint(m.listed[row]) IN
  [m EXCEPT !.host = [host |-> endpoint.host, port |-> "none"], !.port = endpoint.port,
            !.selected = row, !.chosen = endpoint]

-----------------------------------------------------------------------------
(* What the texts come to. *)

\* resolveJoinEndpoint; [host |-> "none"] is a failure.
Resolved(m) ==
  LET port == IF m.host.port = "none" THEN m.port ELSE m.host.port IN
  IF m.host.host = "bad" \/ port = "bad" THEN NoEndpoint ELSE [host |-> m.host.host, port |-> port]

\* normalizeJoinEndpointFields
Normalized(m) ==
  IF m.mode = "join" /\ m.subview = "direct" /\ Resolved(m) # NoEndpoint
  THEN [m EXCEPT !.host = [host |-> Resolved(m).host, port |-> "none"], !.port = Resolved(m).port]
  ELSE m

\* validateInternal
Valid(m) ==
  /\ m.name
  /\ CASE m.mode = "host" -> m.port # "bad" /\ m.slot > 0 /\ m.bots # NotANumber /\ m.cap # NotANumber /\ m.cap >= Locals
       [] m.mode = "join" /\ m.subview = "browser" -> m.selected \in 1..Len(m.listed)
       [] OTHER -> Resolved(m) # NoEndpoint

\* balancedBotTeamCounts: an odd bot is against the player.
Bots(total, team) ==
  [attackers |-> IF team = "defender" THEN (total + 1) \div 2 ELSE total \div 2,
   defenders |-> IF team = "defender" THEN total \div 2 ELSE (total + 1) \div 2]

ParsedPort(m) == IF m.port = "bad" THEN "default" ELSE m.port

\* normalizeSessionLaunchConfig: supported rates, no more snapshots than ticks, room for the
\* local participants; whether a server is started goes by the entry.
Supported(rate, default) == IF rate \in ToSet(Rates) THEN rate ELSE default
NormalizedLaunch(c) ==
  LET tick == Supported(c.tick, DefaultTick) IN
  [c EXCEPT !.tick = tick, !.snapshot = Min({Supported(@, DefaultSnapshot), tick}),
            !.cap = Max({@, Locals}), !.server = c.entry = "host"]

\* makeHostSessionLaunchConfig: the host's own client joins through its own proxy.
HostConfig(m) ==
  [entry |-> "host", slot |-> m.slot, team |-> m.team, server |-> TRUE, profile |-> m.profile,
   endpoint |-> [host |-> "local", port |-> ParsedPort(m)], upstream |-> "local",
   tick |-> m.tick, snapshot |-> m.snapshot, cap |-> m.cap, bots |-> Bots(m.bots, m.team)]

\* makeJoinSessionLaunchConfig: the proxy relays to the endpoint.
JoinConfig(m, endpoint) ==
  [entry |-> "join", slot |-> 0, team |-> m.team, server |-> FALSE, profile |-> m.profile,
   endpoint |-> endpoint, upstream |-> endpoint.host,
   tick |-> DefaultTick, snapshot |-> DefaultSnapshot, cap |-> Locals, bots |-> Bots(0, m.team)]

\* buildLaunchConfigInternal
LaunchConfig(m) ==
  NormalizedLaunch(
    IF m.mode = "host" THEN HostConfig(m)
    ELSE JoinConfig(m, IF m.subview = "direct" /\ Resolved(m) # NoEndpoint THEN Resolved(m)
                       ELSE [host |-> m.host.host, port |-> ParsedPort(m)]))

-----------------------------------------------------------------------------
(* Keys and buttons. *)

Usable == menu.open /\ ~menu.busy
InSetup == Usable /\ menu.step = "setup"
Shows(m) == menu' = m

Type ==
  /\ InSetup
  /\ CASE menu.field = "host" -> \E t \in HostTexts : Shows([menu EXCEPT !.host = t])
       [] menu.field = "port" -> \E t \in PortTexts : Shows([menu EXCEPT !.port = t])
       [] menu.field = "name" -> \E t \in BOOLEAN : Shows([menu EXCEPT !.name = t])
       [] menu.field = "cap" -> \E t \in CapTexts : Shows([menu EXCEPT !.cap = t])
       [] menu.field = "bots" -> \E t \in BotTexts : Shows([menu EXCEPT !.bots = t])
       [] OTHER -> FALSE

\* Mutant: the snapshot rate stays what it was.
MutTickChosen(m, rate) == [m EXCEPT !.tick = rate]

\* setTickRateChoice
TickChosen(m, rate) == [m EXCEPT !.tick = rate, !.snapshot = Min({@, rate})]

\* The choices of cycleSnapshotRateChoice: rates up to the tick rate.
RatesUpTo(tick) == SubSeq(Rates, 1, Max({i \in 1..Len(Rates) : Rates[i] <= tick}))

\* cycleTickRateChoice and cycleSnapshotRateChoice.
Beside(rates, rate, by) ==
  LET at == Max({1} \cup {i \in 1..Len(rates) : rates[i] = rate}) IN   \* or the first
  rates[((at - 1 + by) % Len(rates)) + 1]

\* ensureSelectedCharacterProfileVisible
InView(m) ==
  [m EXCEPT !.first = IF m.profile < @ THEN m.profile
                      ELSE IF m.profile >= @ + Rows THEN m.profile - Rows + 1 ELSE @]
ProfileChosen(m, profile) == InView([m EXCEPT !.profile = profile])

\* cycleChoiceField
Cycled(m, by) ==
  CASE m.field = "tick" -> TickChosen(m, Beside(Rates, m.tick, by))
    [] m.field = "snapshot" ->
         [m EXCEPT !.snapshot = Beside(RatesUpTo(m.tick), @, by)]
    [] m.field = "profile" -> ProfileChosen(m, ((m.profile - 1 + by) % Profiles) + 1)
    [] OTHER -> m

CycleChoice ==
  InSetup /\ menu.field \in {"tick", "snapshot", "profile"} /\ \E by \in {-1, 1} : Shows(Cycled(menu, by))

\* A click outside an open dropdown closes it; one on the profile's own field toggles it, and
\* one on a choice takes the next.
ClickField ==
  /\ InSetup
  /\ \E f \in Shown(menu) :
       LET m == [menu EXCEPT !.field = f, !.dropdown = FALSE] IN
       Shows(IF f # "profile" THEN Cycled(m, 1)
             ELSE IF menu.dropdown THEN m ELSE InView([m EXCEPT !.dropdown = TRUE]))

ClickElsewhere == InSetup /\ menu.dropdown /\ Shows([menu EXCEPT !.dropdown = FALSE])

ClickProfile ==
  /\ InSetup /\ menu.dropdown
  /\ \E row \in 0..(Min({Rows, Profiles}) - 1) :
       Shows([ProfileChosen(menu, menu.first + row) EXCEPT !.dropdown = FALSE, !.field = "profile"])

\* scrollCharacterDropdown
Scroll ==
  /\ InSetup /\ menu.dropdown
  /\ \E first \in {menu.first - 1, menu.first + 1} \cap 1..Max({1, Profiles - Rows + 1}) :
       Shows([menu EXCEPT !.first = first])

\* cycleField: from a field that is not in the order, to the first.
NextField(m) ==
  LET order == FieldOrder(m)
      at == {i \in 1..Len(order) : order[i] = m.field}
  IN IF at = {} THEN order[1] ELSE order[(Max(at) % Len(order)) + 1]
Tab == InSetup /\ Shows([menu EXCEPT !.field = NextField(menu), !.dropdown = FALSE])

\* setHostAdvancedExpandedInternal
ToggleAdvanced ==
  InSetup /\ menu.mode = "host" /\ Shows(Refocused([menu EXCEPT !.advanced = ~@]))

\* setJoinSubviewInternal
ChooseSubview ==
  /\ InSetup /\ menu.mode = "join"
  /\ \E v \in {"browser", "direct"} : Shows(Refocused([menu EXCEPT !.subview = v]))

ClickSession ==
  /\ InSetup /\ menu.mode = "join" /\ menu.subview = "browser"
  /\ \E row \in 1..Len(menu.listed) : Shows(Chosen(menu, row))

\* selectTeamChoice and cyclePreferredTeamChoice
ChooseTeam ==
  Usable /\ menu.step = "team" /\ \E team \in ToSet(Teams) : Shows([menu EXCEPT !.team = team])

AtStep(m, step) == Refocused([m EXCEPT !.step = step])

\* trySubmit in the setup step; in the other one it submits LaunchConfig(menu).
Continue ==
  /\ InSetup
  /\ LET m == Normalized(menu) IN Shows(IF Valid(m) THEN AtStep(m, "team") ELSE m)
Submits == Usable /\ menu.step = "team"

\* setStatusMessage
WithStatus(m, busy) == [m EXCEPT !.busy = busy, !.field = IF busy THEN "none" ELSE @]

\* handleBackShortcutPressed in the team step; in the setup step the menu is left.
BackToSetup(m) == AtStep([m EXCEPT !.busy = FALSE], "setup")

\* Escape leaves a field first.  The host's menu is left by Q, and both by the button, also
\* from a field.
LeaveField ==
  InSetup /\ menu.field # "none" /\ Shows([menu EXCEPT !.field = "none", !.dropdown = FALSE])

MenuKeys ==
  \/ Listens \/ Type \/ CycleChoice \/ ClickField \/ ClickElsewhere \/ ClickProfile \/ Scroll
  \/ Tab \/ ToggleAdvanced \/ ChooseSubview \/ ClickSession \/ ChooseTeam \/ Continue \/ LeaveField

-----------------------------------------------------------------------------
(* Properties. *)

\* Whatever is typed and chosen in whatever order: the keys go to a field that is shown, the
\* row selected in the browser is the session that was chosen however the list changes, and
\* once the team is to be chosen what would be launched is what the menu shows: no value falls
\* back to a default or is adjusted behind it (MultiplayerSessionMenu::buildLaunchConfigInternal).
LaunchesWhatIsShown ==
  menu.open =>
    /\ menu.field # "none" => menu.field \in Shown(menu)
    /\ menu.dropdown => menu.mode = "host" /\ menu.step = "setup"
    /\ menu.profile \in 1..Profiles /\ menu.first \in 1..Max({1, Profiles - Rows + 1})
    /\ menu.selected # 0 => Endpoint(menu.listed[menu.selected]) = menu.chosen
    /\ menu.step = "team" =>
         LET c == LaunchConfig(menu) IN
         IF menu.mode = "host"
         THEN /\ c.server /\ c.endpoint.port = menu.port /\ c.cap = menu.cap /\ c.slot > 0
              /\ c.tick = menu.tick /\ c.snapshot = menu.snapshot
              /\ c.bots.attackers + c.bots.defenders = menu.bots
              /\ c.bots.attackers - c.bots.defenders \in -1..1
         ELSE ~c.server /\ (menu.subview = "direct" =>
                /\ c.endpoint = [host |-> menu.host.host, port |-> menu.port]
                /\ c.endpoint.host # "bad")

\* A join from the browser goes to the session that is selected in it
\* (tests/MultiplayerSessionMenuTests.cpp:1083: "browser-selected joins should launch against
\* the discovered host endpoint").
BrowserJoinsSelected ==
  menu.open /\ menu.mode = "join" /\ menu.step = "team" /\ menu.subview = "browser" /\ menu.selected # 0
    => LaunchConfig(menu).endpoint = menu.chosen
=============================================================================
