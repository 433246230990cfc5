---------------------------- MODULE MCClientView ----------------------------
(***************************************************************************)
(* TLC instance of three parts of a client that share nothing: another     *)
(* actor is shown from the snapshots that come; the host changes settings, *)
(* two of synchronisation, one flag, two rates, links of himself and of    *)
(* one bot; or somebody works with the mouse on the settings panel.        *)
(***************************************************************************)
EXTENDS InterpolationBuffer, SettingsPanel

CONSTANTS SyncKeys, Flags, Rates, MaxChanges, MaxLosses
VARIABLES
  server, client, link, up, down, changes, losses, missed,
  views  \* what happens: "actors", "settings" or "panel"

Settings == INSTANCE RuntimeSettings

ASSUME SettingsAssumption == Settings!ConstantsAssumption /\ PeersAssumption

settingsVars == <<server, client, link, up, down, changes, losses, missed>>

SomeRate == CHOOSE r \in Rates : TRUE

ViewInit ==
  /\ Init /\ Settings!Init /\ PanelInit
  /\ views \in {"actors", "settings", "panel"}
  /\ views # "settings" => server.live["tick"] = SomeRate
  /\ views # "panel" => host

ViewNext ==
  \/ views = "actors" /\ Next /\ UNCHANGED <<settingsVars, panelVars, views>>
  \/ views = "settings" /\ Settings!Next /\ UNCHANGED <<vars, panelVars, views>>
  \/ views = "panel" /\ PanelNext /\ UNCHANGED <<vars, settingsVars, views>>

Changing(A) == views = "settings" /\ A

\* The fairness of RuntimeSettings, where the settings are what happens.
ViewFairness ==
  /\ WF_settingsVars(Changing(Settings!HandleRequest))
  /\ WF_settingsVars(Changing(Settings!CommitRates))
  /\ WF_settingsVars(Changing(Settings!Publish))
  /\ WF_settingsVars(Changing(Settings!ReceiveResult))
  /\ WF_settingsVars(Changing(Settings!ReceiveSnapshot))

ViewSpec == ViewInit /\ [][ViewNext]_<<vars, settingsVars, panelVars, views>> /\ ViewFairness

\* The settings a player sees of himself are those he plays with
\* (RuntimeSettings: ClientRuntime::applyAuthoritativeLocalParticipantSettings).
ShownIsUsed == Settings!ShownIsUsed

\* When the host has finished, what he sees, what he plays with and what the server says agree
\* (RuntimeSettings: the results and snapshots of ServerRuntime, applied by ClientRuntime).
SettingsSettle == Settings!SettingsSettle
=============================================================================
