--------------------------- MODULE RuntimeSettings ---------------------------
(***************************************************************************)
(* The runtime settings of a hosted session: what the host's client shows, *)
(* previews and requests, what the server makes of a request, and how      *)
(* results and snapshots bring the two together again.  Requests and       *)
(* answers travel in order and may be lost; the client's own copies are    *)
(* the roster entry it shows, the values it plays with and the panel of    *)
(* the selected participant's link (DiagnosticsModel).                     *)
(* Left out: clients that are not the host (they may edit nothing but what *)
(* ServerSessions models), overrides of one direction of a link, the       *)
(* widths and labels of values.                                            *)
(***************************************************************************)
EXTENDS Integers, Sequences, FiniteSets, SequencesExt

CONSTANTS
  Me,           \* the host's peer id, the client modelled
  Bots,         \* bot targets (their link is simulated by the server)
  SyncKeys,     \* prediction and interpolation settings of a participant
  Flags,        \* session parameters the server applies at once
  Rates,        \* tick and snapshot rates
  MaxChanges,   \* bound: changes the user makes
  MaxLosses     \* bound: messages lost

Values == {0, 1}
LinkKeys == {"latency_ms", "loss_pct"}
RateKeys == {"tick", "snapshot"}
Targets == {Me} \cup Bots
Session == -1
None == 0

\* A setting is known by its key.
ConstantsAssumption ==
  /\ Me \in Nat \ {0} /\ Bots \subseteq Nat \ {0, Me} /\ Rates \subseteq Nat \ {0}
  /\ IsFiniteSet(Bots)
  /\ SyncKeys \cap (Flags \cup LinkKeys \cup RateKeys) = {} /\ Flags \cap (LinkKeys \cup RateKeys) = {}
  /\ MaxChanges \in Nat /\ MaxLosses \in Nat

VARIABLES
  server,    \* own settings (sync), reported link per target, flags, live and pending rates
  client,    \* the client's copies; panel is of the selected target, authority what it last heard
  link,      \* the host proxy's configuration of this client's link
  up, down,  \* requests and answers under way, in order
  changes, losses,
  missed     \* history: settings whose last request or answer was lost

vars == <<server, client, link, up, down, changes, losses, missed>>

NoRates == [k \in RateKeys |-> None]
NoLink == [k \in LinkKeys |-> 0]
Sync == [k \in SyncKeys |-> 1]
Links == [t \in Targets |-> NoLink]

Init ==
  /\ \E rate \in Rates :
       server = [sync |-> Sync, link |-> Links, flags |-> [f \in Flags |-> 0],
                 live |-> [k \in RateKeys |-> rate], pending |-> NoRates]
  /\ client = [local |-> Sync, authority |-> Sync, roster |-> Sync, linkRoster |-> Links,
               flags |-> server.flags, live |-> server.live, staged |-> NoRates,
               target |-> Me, panel |-> NoLink, panelAuthority |-> NoLink]
  /\ link = NoLink /\ up = <<>> /\ down = <<>> /\ changes = 0 /\ losses = 0 /\ missed = {}

-----------------------------------------------------------------------------
(* Changes: ClientRuntime::applyRuntimeSettingsAction and its helpers. *)

Request(target, key, value) == [target |-> target, key |-> key, value |-> value]
Setting(message) == <<message.target, message.key>>

\* sendRuntimeParamChangeRequest for each of requests; a new request supersedes a lost one.
Send(requests) ==
  /\ changes < MaxChanges /\ changes' = changes + 1
  /\ up' = up \o requests
  /\ missed' = missed \ {Setting(r) : r \in ToSet(requests)}
  /\ UNCHANGED <<server, down, losses>>

\* The rate the overlay shows as chosen, and the choices it offers.
Displayed(kind) == IF client.staged[kind] # None THEN client.staged[kind] ELSE client.live[kind]
Offered(kind) == IF kind = "tick" THEN Rates ELSE {r \in Rates : r <= Displayed("tick")}

\* A toggle that counts up instead of flipping.
MutChangeSync(key) ==
  LET value == 1 + client.roster[key] IN
  /\ Send(<<Request(Me, key, value)>>)
  /\ client' = [client EXCEPT !.local[key] = value, !.roster[key] = value]
  /\ UNCHANGED link

\* A toggle of the client's own prediction or interpolation: asked for and previewed.
ChangeSync(key) ==
  LET value == 1 - client.roster[key] IN
  /\ Send(<<Request(Me, key, value)>>)
  /\ client' = [client EXCEPT !.local[key] = value, !.roster[key] = value]
  /\ UNCHANGED link

ChangeFlag(flag) ==
  /\ Send(<<Request(Session, flag, 1 - client.flags[flag])>>)
  /\ UNCHANGED <<client, link>>

ChangeRate(kind, rate) ==
  /\ rate \in Offered(kind)
  /\ Send(<<Request(Session, kind, rate)>>)
  /\ UNCHANGED <<client, link>>

\* buildLocalNetworkRequests: both fields of the panel, whichever slider moved.
LinkRequests(target, panel) ==
  <<Request(target, "latency_ms", panel["latency_ms"]), Request(target, "loss_pct", panel["loss_pct"])>>

\* A slider of the selected target: this client's link at once, both values to the server.
ChangeLink(key, value) ==
  LET panel == [client.panel EXCEPT ![key] = value] IN
  /\ value # client.panel[key]
  /\ client' = [client EXCEPT !.panel = panel]
  /\ link' = IF client.target = Me THEN panel ELSE link
  /\ Send(LinkRequests(client.target, panel))

\* The global slider asks the server and leaves the proxy's link alone.
MutChangeGlobalLatency(value) ==
  /\ client' = [client EXCEPT !.panel["latency_ms"] = value]
  /\ Send([i \in DOMAIN SetToSeq(Targets) |-> Request(SetToSeq(Targets)[i], "latency_ms", value)])
  /\ UNCHANGED link

\* The global slider: one latency for every participant and bot.
ChangeGlobalLatency(value) ==
  /\ client' = [client EXCEPT !.panel["latency_ms"] = value]
  /\ link' = [link EXCEPT !["latency_ms"] = value]
  /\ Send([i \in DOMAIN SetToSeq(Targets) |-> Request(SetToSeq(Targets)[i], "latency_ms", value)])

\* setTargetPeerId: the panel starts from what the roster says of the new target.
Retargeted(t) ==
  [client EXCEPT !.target = t, !.panel = client.linkRoster[t],
                 !.panelAuthority = client.linkRoster[t]]

SelectTarget(t) ==
  /\ t # client.target
  /\ client' = Retargeted(t)
  /\ UNCHANGED <<server, link, up, down, changes, losses, missed>>

-----------------------------------------------------------------------------
(* The server: handleControlPayload and what it hands a request to. *)

AppliedSync(r) == [server EXCEPT !.sync[r.key] = r.value]
AppliedTransport(r) == [server EXCEPT !.link[r.target][r.key] = r.value]
AppliedBotTransport(r) == [server EXCEPT !.link[r.target][r.key] = r.value]
AppliedFlag(r) == [server EXCEPT !.flags[r.key] = r.value]
StagedRate(r) == [server EXCEPT !.pending[r.key] = r.value]

\* A snapshot rate may not exceed the tick rate that is live or about to be.
RateAccepted(r) ==
  r.key = "snapshot" =>
    r.value <= (IF server.pending["tick"] # None THEN server.pending["tick"] ELSE server.live["tick"])

ServerAfter(r) ==
  CASE r.key \in SyncKeys -> AppliedSync(r)
    [] r.key \in LinkKeys /\ r.target = Me -> AppliedTransport(r)
    [] r.key \in LinkKeys /\ r.target \in Bots -> AppliedBotTransport(r)
    [] r.key \in Flags -> AppliedFlag(r)
    [] r.key \in RateKeys -> IF RateAccepted(r) THEN StagedRate(r) ELSE server

\* A rate is never "applied" by its answer, be it staged or refused.
Result(r) ==
  [kind |-> "result", target |-> r.target, key |-> r.key, value |-> r.value,
   applied |-> r.key \notin RateKeys, accepted |-> r.key \in RateKeys => RateAccepted(r)]

HandleRequest ==
  /\ up # <<>>
  /\ server' = ServerAfter(Head(up))
  /\ up' = Tail(up)
  /\ down' = Append(down, Result(Head(up)))
  /\ UNCHANGED <<client, link, changes, losses, missed>>

\* A tick commits the pending rates; a snapshot rate is held under the tick rate.
CommitRates ==
  LET chosen(k) == IF server.pending[k] # None THEN server.pending[k] ELSE server.live[k]
      least(a, b) == IF a <= b THEN a ELSE b
  IN
  /\ server.pending # NoRates
  /\ server' = [server EXCEPT !.pending = NoRates,
                  !.live = [tick |-> chosen("tick"),
                            snapshot |-> least(chosen("snapshot"), chosen("tick"))]]
  /\ UNCHANGED <<client, link, up, down, changes, losses, missed>>

\* Bound: one snapshot under way.
Publish ==
  /\ \A i \in DOMAIN down : down[i].kind # "snapshot"
  /\ down' = Append(down, [kind |-> "snapshot", sync |-> server.sync, link |-> server.link,
                           flags |-> server.flags, live |-> server.live])
  /\ UNCHANGED <<server, client, link, up, changes, losses, missed>>

-----------------------------------------------------------------------------
(* The client hears of it: handlePacket, applySnapshot. *)

\* Whatever is neither applied nor immediate counts as staged.
StagedByResult(m) ==
  IF m.key \in RateKeys /\ ~m.applied THEN [client.staged EXCEPT ![m.key] = m.value]
  ELSE client.staged

\* consumeRuntimeParamApplyResult: both fields of the panel become the authority's.
PanelByResult(m) ==
  IF m.key \in LinkKeys /\ m.target = client.target /\ m.applied
  THEN [client.panelAuthority EXCEPT ![m.key] = m.value]
  ELSE client.panel

ReceiveResult ==
  LET m == Head(down) IN
  /\ down # <<>> /\ m.kind = "result"
  /\ client' = [client EXCEPT
       !.staged = StagedByResult(m),
       !.flags = IF m.key \in Flags THEN [@ EXCEPT ![m.key] = m.value] ELSE @,
       !.panel = PanelByResult(m),
       !.panelAuthority = IF m.key \in LinkKeys /\ m.target = client.target
                          THEN [@ EXCEPT ![m.key] = m.value] ELSE @]
  /\ down' = Tail(down)
  /\ UNCHANGED <<server, link, up, changes, losses, missed>>

\* An override still differs from what the server said last and now says.
Overridden(local, authority, heard) == local # authority /\ local # heard

\* The roster keeps what the snapshot says while the override is played with.
MutShownSettings(sync) == sync

\* applyAuthoritativeLocalParticipantSettings: an override stays, and the roster shows it.
ShownSettings(sync) ==
  IF Overridden(client.local, client.authority, sync) THEN client.local ELSE sync

\* syncAuthoritativeLocalNetworkSettings, for the entry of the selected target.
ShownPanel(entry) ==
  IF Overridden(client.panel, client.panelAuthority, entry) THEN client.panel ELSE entry

ReceiveSnapshot ==
  LET m == Head(down) IN
  /\ down # <<>> /\ m.kind = "snapshot"
  /\ client' = [client EXCEPT
       !.local = IF Overridden(client.local, client.authority, m.sync) THEN @ ELSE m.sync,
       !.roster = ShownSettings(m.sync), !.authority = m.sync,
       !.linkRoster = m.link,
       !.panel = ShownPanel(m.link[client.target]), !.panelAuthority = m.link[client.target],
       !.flags = m.flags, !.live = m.live,
       !.staged = [k \in RateKeys |-> IF @[k] = m.live[k] THEN None ELSE @[k]]]
  /\ down' = Tail(down)
  /\ UNCHANGED <<server, link, up, changes, losses, missed>>

-----------------------------------------------------------------------------
(* The network: the proxy drops what it carries. *)

Superseded(queue) == \E i \in 2 .. Len(queue) : Setting(queue[i]) = Setting(Head(queue))

LoseRequest ==
  /\ up # <<>> /\ losses < MaxLosses
  /\ losses' = losses + 1 /\ up' = Tail(up)
  /\ missed' = IF Superseded(up) THEN missed ELSE missed \cup {Setting(Head(up))}
  /\ UNCHANGED <<server, client, link, down, changes>>

LoseResult ==
  /\ down # <<>> /\ Head(down).kind = "result" /\ losses < MaxLosses
  /\ losses' = losses + 1 /\ down' = Tail(down)
  /\ missed' = IF Head(down).key \in RateKeys \cup LinkKeys THEN missed \cup {Setting(Head(down))} ELSE missed
  /\ UNCHANGED <<server, client, link, up, changes>>

-----------------------------------------------------------------------------
TheHostChanges ==
  \/ \E k \in SyncKeys : ChangeSync(k)
  \/ \E f \in Flags : ChangeFlag(f)
  \/ \E k \in RateKeys, r \in Rates : ChangeRate(k, r)
  \/ \E k \in LinkKeys, v \in Values : ChangeLink(k, v)
  \/ \E v \in Values : ChangeGlobalLatency(v)
  \/ \E t \in Targets : SelectTarget(t)

Next ==
  \/ TheHostChanges
  \/ HandleRequest \/ CommitRates \/ Publish
  \/ ReceiveResult \/ ReceiveSnapshot
  \/ LoseRequest \/ LoseResult

\* The server runs its ticks and the client drains its packets every frame.
Fairness ==
  /\ WF_vars(HandleRequest) /\ WF_vars(CommitRates) /\ WF_vars(Publish)
  /\ WF_vars(ReceiveResult) /\ WF_vars(ReceiveSnapshot)

Spec == Init /\ [][Next]_vars /\ Fairness

-----------------------------------------------------------------------------
SyncSettings == [SyncKeys -> Values]
LinkSettings == [LinkKeys -> Values]
RateSettings == [RateKeys -> Rates \cup {None}]

TypeOKServer ==
  /\ server.sync \in SyncSettings /\ server.link \in [Targets -> LinkSettings]
  /\ server.flags \in [Flags -> Values]
  /\ server.live \in [RateKeys -> Rates] /\ server.pending \in RateSettings
TypeOKClient ==
  /\ {client.local, client.authority, client.roster} \subseteq SyncSettings
  /\ client.linkRoster \in [Targets -> LinkSettings] /\ client.flags \in [Flags -> Values]
  /\ client.live \in [RateKeys -> Rates] /\ client.staged \in RateSettings
  /\ client.target \in Targets /\ {client.panel, client.panelAuthority, link} \subseteq LinkSettings

\* Every copy of a setting holds a value it may have, and no snapshot rate is
\* live above the tick rate (ServerRuntime::applyTickRateHz, applySnapshotRateHz).
TypeOK ==
  /\ TypeOKServer /\ TypeOKClient
  /\ server.live["snapshot"] <= server.live["tick"]
  /\ changes \in 0 .. MaxChanges /\ losses \in 0 .. MaxLosses

\* The settings a player sees of himself are those he plays with, whatever
\* snapshots are still under way from before his change
\* (ClientRuntime::applyAuthoritativeLocalParticipantSettings).
ShownIsUsed == client.roster = client.local

Settled(target, key) == <<target, key>> \notin missed

SyncAgrees == \A k \in SyncKeys : Settled(Me, k) => client.local[k] = server.sync[k]
FlagsAgree == \A f \in Flags : client.flags[f] = server.flags[f]
LinkAgrees ==
  /\ \A k \in LinkKeys : Settled(Me, k) => link[k] = server.link[Me][k]
  /\ client.linkRoster = server.link
  /\ (\A k \in LinkKeys : Settled(client.target, k)) => client.panel = server.link[client.target]
TickRateAgrees ==
  Settled(Session, "tick") => client.staged["tick"] = None /\ client.live = server.live

\* When the user has finished, what he sees, what he plays with, what the proxy
\* does and what the server says agree for good, save where a message was lost:
\* previews, late answers and old snapshots leave nothing behind.
SettingsSettle == <>[](SyncAgrees /\ FlagsAgree /\ LinkAgrees /\ TickRateAgrees)

=============================================================================
