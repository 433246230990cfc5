---------------------------- MODULE SettingsPanel ----------------------------
(***************************************************************************)
(* The mouse on the runtime settings panel (RuntimeSettingsOverlay) and    *)
(* what ClientRuntime makes of it: the rows of participants, the controls  *)
(* of the selected one, sliders that are dragged, and the request each     *)
(* frame sends.  Snapshots change roster and settings between frames, and  *)
(* the panel comes and goes while the button is held.  The participant     *)
(* shown as selected is computed in one place, the one that is edited in   *)
(* another, and the panel of a link keeps a target of its own.             *)
(* Left out: the places and values of the controls, scrolling, and what    *)
(* becomes of a request (RuntimeSettings).                                 *)
(***************************************************************************)
EXTENDS Integers

CONSTANTS Me, OtherHumans, Bots

PeersAssumption ==
  Me \in Nat \ {0} /\ OtherHumans \subseteq Nat \ {0, Me} /\ Bots \subseteq Nat \ ({0, Me} \cup OtherHumans)

Humans == {Me} \cup OtherHumans
Peers == Humans \cup Bots

Toggles == {"interpolation", "prediction", "strategy"}
SessionControls == {"event_logging", "tick_rate", "snapshot_rate", "visualization", "shot_mode"}
LinkSliders == {"latency", "loss"}
AdvancedSliders == {"up_delay", "down_loss"}  \* two of six: delay, loss and reordering each way
Sliders == {"smooth_window", "global_latency"} \cup LinkSliders \cup AdvancedSliders
Controls == Toggles \cup SessionControls \cup Sliders

Everybody == -1  \* target of a setting of the session
NoDrag == "none"

VARIABLES
  host, linked,  \* this client is the host; it has a proxy
  roster,        \* peers of the newest snapshot
  predicts, smooths, \* humans whose entry says so
  panel,         \* visible, drag (activeDrag_), target (runtimeSettingsTargetId_), link (the diagnostics')
  pressed, grip, \* the user: his button is down; the slider he holds and whose it was then
  asked, row     \* the last frame: what it requested, of whom, and the row it showed as selected

panelVars == <<host, linked, roster, predicts, smooths, panel, pressed, grip, asked, row>>

Nobody == 0
NoGrip == <<NoDrag, Nobody>>

\* A client that has just been welcomed.
PanelInit ==
  /\ host \in BOOLEAN /\ linked \in BOOLEAN /\ (host => linked)
  /\ roster = {} /\ predicts = {} /\ smooths = {}
  /\ panel = [visible |-> FALSE, drag |-> NoDrag, target |-> Me, link |-> IF linked THEN Me ELSE Nobody]
  /\ pressed = FALSE /\ grip = NoGrip /\ asked = {} /\ row = Nobody

-----------------------------------------------------------------------------
(* What the panel shows: buildRuntimeSettingsOverlayState. *)

MayShow(t) == host \/ t = Me
MayEditSync(t) == host /\ t \in roster \cap Humans
MayEditLink(t) == linked /\ (host \/ t = Me)

Rows == {t \in roster : MayShow(t)}
\* Of the roster in the server's order, which ids stand for here.
First(rows) == CHOOSE t \in rows : \A u \in rows : t <= u

\* The selected row, or the first one where the selected participant has left.
Selected ==
  IF Rows = {} THEN Nobody ELSE IF panel.target \in Rows THEN panel.target ELSE First(Rows)

SyncEnabled(t) ==
  IF ~MayEditSync(t) THEN {}
  ELSE {"interpolation", "prediction"}
       \cup (IF t \in predicts THEN {"strategy"} ELSE {})
       \cup (IF t \in predicts \cap smooths THEN {"smooth_window"} ELSE {})

SessionEnabled == IF host THEN SessionControls \cup {"global_latency"} ELSE {}
LinkEnabled(t) == IF MayEditLink(t) THEN LinkSliders ELSE {}
AdvancedEnabled(t) == IF host /\ panel.link = t /\ t \in Humans THEN AdvancedSliders ELSE {}

Enabled ==
  IF Selected = Nobody THEN {}
  ELSE SyncEnabled(Selected) \cup SessionEnabled \cup LinkEnabled(Selected) \cup AdvancedEnabled(Selected)

-----------------------------------------------------------------------------
(* What the mouse does: handleMouse. *)

Nothing == [kind |-> "none"]
Close == [kind |-> "close"]
Select(t) == [kind |-> "select", target |-> t]
Edit(control) == [kind |-> "edit", control |-> control]

\* handleDrag, while the button is down.
Dragged(drag) == IF drag \in Enabled THEN Edit(drag) ELSE Nothing

-----------------------------------------------------------------------------
(* What becomes of it: applyRuntimeSettingsAction, once for each action. *)

\* A mutant: a drag survives the panel.
MutSetUiMode(p, active) == p

\* A captured mouse lets go of the slider.
SetUiMode(p, active) == IF active THEN p ELSE [p EXCEPT !.drag = NoDrag]

Closed(p) == SetUiMode([p EXCEPT !.visible = FALSE], FALSE)

\* The last selected participant that may be shown, whether or not he is in the roster.
Edited(p) == IF p.target # Nobody /\ MayShow(p.target) THEN p.target ELSE Me

Requests(p, control) ==
  CASE control \in Toggles \cup {"smooth_window"} /\ MayEditSync(Edited(p)) -> {<<control, Edited(p)>>}
    [] control \in SessionControls /\ host -> {<<control, Everybody>>}
    [] control = "global_latency" /\ linked /\ host -> {<<control, t>> : t \in Rows}
    [] control \in LinkSliders /\ MayEditLink(Edited(p)) -> {<<control, Edited(p)>>}
    [] control \in AdvancedSliders /\ host /\ MayEditLink(Edited(p)) -> {<<control, Edited(p)>>}
    [] OTHER -> {}

\* The panel and the requests after one action; the panel of the link follows first.
Applied(done, action) ==
  LET p == IF linked THEN [done.panel EXCEPT !.link = Edited(done.panel)] ELSE done.panel IN
  CASE action.kind = "none" -> done
    [] action.kind = "close" -> [done EXCEPT !.panel = Closed(p)]
    [] action.kind = "select" ->
         [done EXCEPT !.panel = [p EXCEPT !.target = action.target,
                                          !.link = IF linked THEN action.target ELSE @]]
    [] action.kind = "edit" ->
         [panel |-> p, asked |-> done.asked \cup Requests(p, action.control)]

\* previewLocalParticipantRuntimeSetting: one's own entry shows the change at once.
Flipped(humans, control) == IF <<control, Me>> \in asked' THEN (humans \ {Me}) \cup ({Me} \ humans) ELSE humans

-----------------------------------------------------------------------------
(* A frame with the panel open: the mouse on it. *)

\* Whatever is pressed comes before the drag.
Work(press, dragged, drag) ==
  LET start == [panel |-> [panel EXCEPT !.drag = drag], asked |-> {}]
      done  == Applied(Applied(start, press), dragged)
  IN
  /\ panel.visible
  /\ panel' = done.panel /\ asked' = done.asked /\ row' = Selected
  /\ predicts' = Flipped(predicts, "prediction") /\ smooths' = Flipped(smooths, "strategy")
  /\ UNCHANGED <<host, linked, roster>>

PressSlider(slider) ==
  /\ slider \in Enabled \cap Sliders
  /\ Work(Edit(slider), Dragged(slider), slider)
  /\ ~pressed /\ pressed' = TRUE /\ grip' = <<slider, Edited(panel)>>

\* Anything else is pressed; a drag that was under way would go on.
PressOther(press) ==
  /\ Work(press, Dragged(panel.drag), panel.drag)
  /\ ~pressed /\ pressed' = TRUE /\ grip' = NoGrip

PressControl(control) == control \in Enabled \ Sliders /\ PressOther(Edit(control))
PressRow(t) == t \in Rows /\ PressOther(Select(t))
PressClose == PressOther(Close)
PressNothing == PressOther(Nothing)

Hold == pressed /\ Work(Nothing, Dragged(panel.drag), panel.drag) /\ UNCHANGED <<pressed, grip>>
Release == pressed /\ Work(Nothing, Nothing, NoDrag) /\ pressed' = FALSE /\ grip' = NoGrip

-----------------------------------------------------------------------------
\* The key, or Escape.
Toggle ==
  /\ panel' = IF panel.visible THEN Closed(panel) ELSE SetUiMode([panel EXCEPT !.visible = TRUE], TRUE)
  /\ asked' = {} /\ row' = Nobody
  /\ UNCHANGED <<host, linked, roster, predicts, smooths, pressed, grip>>

\* The button is pressed or let go where no panel sees it.
Unseen ==
  /\ ~panel.visible /\ pressed' = ~pressed /\ grip' = NoGrip /\ asked' = {} /\ row' = Nobody
  /\ UNCHANGED <<host, linked, roster, predicts, smooths, panel>>

\* applySnapshot: who is there and what their entries say.
ReceiveSnapshot(present, predicting, smoothing) ==
  /\ Me \in present
  /\ roster' = present /\ predicts' = predicting /\ smooths' = smoothing
  /\ asked' = {} /\ row' = Nobody
  /\ UNCHANGED <<host, linked, panel, pressed, grip>>

PanelNext ==
  \/ \E slider \in Sliders : PressSlider(slider)
  \/ \E control \in Controls \ Sliders : PressControl(control)
  \/ \E t \in Peers : PressRow(t)
  \/ PressClose \/ PressNothing \/ Hold \/ Release
  \/ Toggle \/ Unseen
  \/ \E present \in SUBSET Peers, predicting, smoothing \in SUBSET Humans :
       ReceiveSnapshot(present, predicting, smoothing)

PanelSpec == PanelInit /\ [][PanelNext]_panelVars

-----------------------------------------------------------------------------
Holds(request) == request[1] = grip[1] /\ (request[1] = "global_latency" \/ request[2] = grip[2])

\* Only the slider in the user's hand moves, and only for the participant he took
\* it for, although panels close, participants leave and the selection changes
\* while the button is down (RuntimeSettingsOverlay::handleMouse, setUiMode).
OnlyTheHeldMoves == \A request \in asked : request[1] \in Sliders => Holds(request)

\* What is edited is what the panel shows as selected, as long as the participant
\* is there at all, and it may be edited (applyRuntimeSettingsAction against
\* buildRuntimeSettingsOverlayState).
EditsTheSelected ==
  \A request \in asked :
    request[2] \notin {Everybody, row} /\ request[1] # "global_latency" => request[2] \notin roster

\* Both, and a panel that is not shown drags nothing (RuntimeSettingsOverlay and
\* ClientRuntime::applyRuntimeSettingsAction).
PanelIsSound == OnlyTheHeldMoves /\ EditsTheSelected /\ (panel.drag # NoDrag => panel.visible)
=============================================================================
