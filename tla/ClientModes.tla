---------------------------- MODULE ClientModes ----------------------------
(***************************************************************************)
(* What ClientRuntime::update does with the keys of one frame: overlays,   *)
(* the captured mouse, the free camera, checkpoints and the in-session     *)
(* recording.  The frame is a pipeline of stages over the client's state,  *)
(* in the order of the code; each stage is an operator.  Snapshots arrive  *)
(* between frames (the code drains them at the start of a frame).          *)
(* Left out: the settings the overlay edits (RuntimeSettings,              *)
(* SettingsPanel), what is predicted and sent (CommandPipeline), look      *)
(* angles, texts and drawing.                                              *)
(***************************************************************************)
EXTENDS Integers, FiniteSets

CONSTANTS
  Host,            \* BOOLEAN: the client is the session's host
  Inputs,          \* the sets of keys a frame may carry
  MaxFrames,       \* bound: frames of a recording
  MaxCheckpoints,  \* bound: stored camera checkpoints
  SeekFrames       \* kReplaySeekFrameCount, scaled to MaxFrames

Keys == {"quit", "keyboard", "confirm", "settings", "close", "score", "team",
         "spectator", "record", "playback", "reset", "stop", "forward", "backward",
         "addCheckpoint", "prevCheckpoint", "nextCheckpoint", "deleteCheckpoint"}
Teams == {"Attacker", "Defender", "Spectator"}

ASSUME InputsAssumption == Inputs \subseteq SUBSET Keys
ASSUME BoundsAssumption ==
  Host \in BOOLEAN /\ MaxFrames \in Nat \ {0} /\ MaxCheckpoints \in Nat \ {0} /\ SeekFrames \in Nat \ {0}

VARIABLE client

Min2(a, b) == IF a < b THEN a ELSE b
Max2(a, b) == IF a < b THEN b ELSE a

-----------------------------------------------------------------------------
(* Small helpers of the runtime. *)

SetUiMode(c, active) == [c EXCEPT !.uiMode = active]

OpenKeyboardOverlay(c) ==
  [c EXCEPT !.restore = ~c.uiMode, !.keyboard = TRUE, !.uiMode = TRUE,
            !.scoreboard = FALSE, !.scoreCursor = FALSE]

CloseKeyboardOverlay(c) ==
  LET restores == c.restore /\ ~c.settings /\ ~c.teamMenu /\ ~c.scoreCursor
  IN IF c.keyboard
     THEN [c EXCEPT !.keyboard = FALSE, !.restore = FALSE, !.uiMode = c.uiMode /\ ~restores]
     ELSE c

ShowsHostAdmin(c) == c.scoreboard /\ c.conn = "Connected" /\ Host

StopPlayback(c) == [c EXCEPT !.play = FALSE, !.playing = FALSE, !.index = 0]

StartPlayback(c, autoPlay) ==
  IF c.frames = 0 THEN c
  ELSE [c EXCEPT !.rec = FALSE, !.play = TRUE, !.playing = autoPlay, !.index = 0]

\* Mutant: a new recording clears the frames under a running playback.
MutStartRecording(c) == [c EXCEPT !.rec = TRUE, !.frames = 0]

StartRecording(c) == [StopPlayback(c) EXCEPT !.rec = TRUE, !.frames = 0]

ResetPlayback(c) ==
  [(IF c.play THEN c ELSE StartPlayback(c, FALSE)) EXCEPT !.play = TRUE, !.playing = FALSE, !.index = 0]

SeekBy(c, delta) ==
  [c EXCEPT !.playing = FALSE, !.index = Max2(0, Min2(@ + delta, c.frames - 1))]

\* passed: the time stamps the timer runs past, one more than there are at the end.
UpdatePlayback(c, passed) ==
  IF c.playing /\ c.index + 1 < c.frames
  THEN [c EXCEPT !.index = Min2(@ + passed, c.frames - 1), !.playing = c.index + passed < c.frames]
  ELSE c

CaptureReplayFrame(c) ==
  IF c.rec /\ c.conn = "Connected" /\ c.snapshot THEN [c EXCEPT !.frames = @ + 1] ELSE c

-----------------------------------------------------------------------------
(* Free camera and its checkpoints. *)

ToggleSpectatorInPlayback(c) ==
  IF c.observer THEN [c EXCEPT !.observer = FALSE, !.transition = FALSE]
  ELSE IF c.frames = 0 THEN c
  ELSE [c EXCEPT !.observer = TRUE, !.locked = FALSE, !.transition = FALSE]

ToggleSpectatorLive(c) ==
  IF c.observer
  THEN IF c.locked \/ c.team = "Spectator" THEN c
       ELSE [c EXCEPT !.observer = FALSE, !.transition = FALSE]
  ELSE IF c.team = "Spectator"
       THEN [c EXCEPT !.observer = TRUE, !.locked = TRUE, !.transition = FALSE]
       ELSE IF c.snapshot THEN [c EXCEPT !.observer = TRUE, !.transition = FALSE] ELSE c

ToggleSpectatorMode(c) ==
  LET closed == [c EXCEPT !.teamMenu = FALSE, !.scoreboard = FALSE]
  IN IF c.play THEN ToggleSpectatorInPlayback(closed) ELSE ToggleSpectatorLive(closed)

SyncSessionSpectator(c, team) ==
  IF team = "Spectator"
  THEN IF c.locked THEN c
       ELSE [c EXCEPT !.observer = TRUE, !.locked = TRUE, !.transition = FALSE]
  ELSE IF c.locked
       THEN [c EXCEPT !.observer = FALSE, !.locked = FALSE, !.transition = @ /\ ~c.observer]
       ELSE c

\* Index arithmetic of CheckpointStore; -1 where there is no current checkpoint.
CycleCheckpoint(c, direction) ==
  LET base == IF c.current \in 0 .. c.checkpoints - 1 THEN c.current ELSE 0
  IN (base + direction + c.checkpoints) % c.checkpoints

CreateCheckpoint(c) ==
  [c EXCEPT !.checkpoints = @ + 1, !.current = c.checkpoints, !.transition = FALSE]

\* Mutant: the index is not brought back into the shorter list.
MutDeleteCheckpoint(c) ==
  IF c.current \in 0 .. c.checkpoints - 1
  THEN [c EXCEPT !.checkpoints = @ - 1, !.transition = FALSE]
  ELSE [c EXCEPT !.transition = FALSE]

DeleteCheckpoint(c) ==
  IF c.current \in 0 .. c.checkpoints - 1
  THEN [c EXCEPT !.checkpoints = @ - 1, !.transition = FALSE,
                 !.current = IF c.checkpoints = 1 THEN -1 ELSE @ % (c.checkpoints - 1)]
  ELSE [c EXCEPT !.transition = FALSE]

BeginTransition(c, target) == [c EXCEPT !.transition = TRUE, !.current = target]

-----------------------------------------------------------------------------
(* The stages of a frame. *)

\* Mutant: the locked camera of a session spectator takes the Escape too.
MutHandlesBack(c) ==
  c.keyboard \/ c.observer \/ c.teamMenu \/ c.settings \/ c.scoreCursor \/ c.uiMode

\* SessionFlowController hands "quit" to the runtime before the frame.
HandlesBack(c) ==
  c.keyboard \/ (c.observer /\ ~c.locked) \/ c.teamMenu \/ c.settings \/ c.scoreCursor \/ c.uiMode

HandleBackAction(c) ==
  IF c.keyboard THEN CloseKeyboardOverlay(c)
  ELSE IF c.observer /\ ~c.locked THEN ToggleSpectatorMode(c)
  ELSE IF c.teamMenu THEN [c EXCEPT !.teamMenu = FALSE, !.scoreboard = FALSE]
  ELSE IF c.settings THEN SetUiMode([c EXCEPT !.settings = FALSE], FALSE)
  ELSE SetUiMode([c EXCEPT !.scoreboard = @ /\ ~c.scoreCursor, !.scoreCursor = FALSE], FALSE)

TogglesKeyboard(c, in) == "keyboard" \in in /\ ~c.settings /\ ~c.teamMenu /\ ~c.scoreCursor

KeyboardStage(c) == IF c.keyboard THEN CloseKeyboardOverlay(c) ELSE OpenKeyboardOverlay(c)

\* Mutant: Enter captures the mouse again with the settings open.
MutMouseStage(c, in) ==
  CASE "confirm" \in in /\ ~c.uiMode -> [SetUiMode(c, TRUE) EXCEPT !.scoreCursor = FALSE]
    [] "settings" \in in /\ ("confirm" \notin in \/ c.uiMode) ->
         [SetUiMode(c, ~c.settings) EXCEPT !.settings = ~@, !.teamMenu = @ /\ c.settings]
    [] "confirm" \in in /\ c.uiMode /\ "settings" \notin in -> SetUiMode(c, FALSE)
    [] OTHER -> c

\* Enter frees a captured mouse; Tab opens and closes the settings; Enter captures again.
MouseStage(c, in) ==
  CASE "confirm" \in in /\ ~c.uiMode -> [SetUiMode(c, TRUE) EXCEPT !.scoreCursor = FALSE]
    [] "settings" \in in /\ ("confirm" \notin in \/ c.uiMode) ->
         [SetUiMode(c, ~c.settings) EXCEPT !.settings = ~@, !.teamMenu = @ /\ c.settings,
                                           !.scoreboard = FALSE, !.scoreCursor = FALSE]
    [] in \cap {"confirm", "settings", "score"} = {"confirm"} /\ c.uiMode
         /\ ~c.teamMenu /\ ~c.settings /\ ~c.scoreboard ->
         [SetUiMode(c, FALSE) EXCEPT !.scoreboard = FALSE, !.scoreCursor = FALSE]
    [] OTHER -> c

ScoreboardStage(c, in) ==
  LET shown == [c EXCEPT !.scoreboard = "score" \in in /\ ~c.teamMenu /\ ~c.settings]
  IN CASE ShowsHostAdmin(shown) /\ ~c.uiMode -> [SetUiMode(shown, TRUE) EXCEPT !.scoreCursor = TRUE]
       [] ~ShowsHostAdmin(shown) /\ c.scoreCursor -> [SetUiMode(shown, FALSE) EXCEPT !.scoreCursor = FALSE]
       [] OTHER -> shown

ToggleTeamMenu(c) ==
  [c EXCEPT !.teamMenu = ~@, !.scoreboard = @ /\ c.teamMenu]

TeamAndSpectatorStage(c, in) ==
  LET menu == IF "team" \in in /\ ~c.uiMode THEN ToggleTeamMenu(c) ELSE c
  IN IF "spectator" \in in THEN ToggleSpectatorMode(menu) ELSE menu

CheckpointStage(c, in) ==
  LET added == IF "addCheckpoint" \in in /\ c.checkpoints < MaxCheckpoints THEN CreateCheckpoint(c) ELSE c
      back == IF "prevCheckpoint" \in in /\ added.checkpoints > 0
              THEN BeginTransition(added, CycleCheckpoint(added, -1)) ELSE added
      forth == IF "nextCheckpoint" \in in /\ back.checkpoints > 0
               THEN BeginTransition(back, CycleCheckpoint(back, 1)) ELSE back
  IN IF ~c.observer THEN c
     ELSE IF "deleteCheckpoint" \in in /\ forth.checkpoints > 0 THEN DeleteCheckpoint(forth) ELSE forth

\* released: this frame's Enter freed the mouse, so it does not confirm the menu as well.
TeamMenuStage(c, in, released) ==
  IF c.teamMenu /\ "confirm" \in in /\ ~released THEN [c EXCEPT !.teamMenu = FALSE] ELSE c

\* The settings overlay's close button.
SettingsStage(c, in) ==
  IF c.settings /\ "close" \in in THEN SetUiMode([c EXCEPT !.settings = FALSE], FALSE) ELSE c

ToggleReplayRecording(c) ==
  IF c.rec THEN [StopPlayback(c) EXCEPT !.rec = FALSE] ELSE StartRecording(c)

ToggleReplayPlayback(c) ==
  IF c.rec THEN c
  ELSE IF c.frames = 0 THEN StopPlayback(c)
  ELSE IF c.play THEN [c EXCEPT !.playing = ~@]
  ELSE StartPlayback(c, TRUE)

\* Leaving playback leaves a free camera that was entered in it or before it.
StopReplayPlayback(c) ==
  IF c.rec \/ ~c.play THEN c
  ELSE [StopPlayback(c) EXCEPT !.observer = FALSE, !.locked = @ /\ ~c.observer,
                               !.transition = @ /\ ~c.observer]

StepReplay(c, delta) ==
  IF c.frames = 0 THEN c ELSE SeekBy(IF c.play THEN c ELSE StartPlayback(c, FALSE), delta)

RecordingStage(c, in) ==
  LET recorded == IF "record" \in in THEN ToggleReplayRecording(c) ELSE c
      played == IF "playback" \in in THEN ToggleReplayPlayback(recorded) ELSE recorded
      rewound == IF "reset" \in in /\ played.frames > 0 THEN ResetPlayback(played) ELSE played
      stopped == IF "stop" \in in THEN StopReplayPlayback(rewound) ELSE rewound
  IN IF "forward" \in in THEN StepReplay(stopped, SeekFrames)
     ELSE IF "backward" \in in THEN StepReplay(stopped, -SeekFrames) ELSE stopped

StartsPlayback(c, in) ==
  LET recorded == IF "record" \in in THEN ToggleReplayRecording(c) ELSE c
  IN "playback" \in in /\ ~recorded.rec /\ ~recorded.play /\ recorded.frames > 0

\* Mutant: the return of a dead player's frame forgets the recording.
MutFinalStage(c, passed, arrived) ==
  IF ~c.alive THEN [c EXCEPT !.sent = "keepalive"]
  ELSE IF c.play THEN [UpdatePlayback(c, passed) EXCEPT !.sent = "keepalive"]
  ELSE CaptureReplayFrame([c EXCEPT !.sent = "input"])

\* What the frame moves and sends, and whether it records; arrived: the camera
\* has reached the checkpoint it was moving to.
FinalStage(c, passed, arrived) ==
  LET moved == [c EXCEPT !.transition = @ /\ ~(c.observer /\ arrived)]
  IN IF ~c.alive THEN CaptureReplayFrame([c EXCEPT !.sent = "keepalive"])
     ELSE IF c.play THEN [UpdatePlayback(moved, passed) EXCEPT !.sent = "keepalive"]
     ELSE IF c.uiMode \/ c.teamMenu THEN CaptureReplayFrame([c EXCEPT !.sent = "keepalive"])
     ELSE IF c.observer THEN CaptureReplayFrame([moved EXCEPT !.sent = "keepalive"])
     ELSE CaptureReplayFrame([c EXCEPT !.sent = "input"])

\* A frame of the keyboard map stops there; any other runs every stage.
FrameOf(c, in, passed, arrived) ==
  LET mouse == MouseStage(c, in)
      play == TeamAndSpectatorStage(ScoreboardStage(mouse, in), in)
      menus == SettingsStage(TeamMenuStage(CheckpointStage(play, in), in, ~c.uiMode), in)
      timeline == RecordingStage(menus, in)
  IN IF TogglesKeyboard(c, in) THEN CaptureReplayFrame([KeyboardStage(c) EXCEPT !.sent = "keepalive"])
     ELSE IF c.keyboard THEN CaptureReplayFrame([c EXCEPT !.sent = "keepalive"])
     ELSE FinalStage(timeline, IF StartsPlayback(menus, in) THEN 0 ELSE passed, arrived)

-----------------------------------------------------------------------------
Fresh(stored) ==
  [conn |-> "Connecting", snapshot |-> FALSE, team |-> "Attacker", alive |-> TRUE,
   uiMode |-> FALSE, settings |-> FALSE, teamMenu |-> FALSE, scoreboard |-> FALSE,
   scoreCursor |-> FALSE, keyboard |-> FALSE, restore |-> FALSE,
   observer |-> FALSE, locked |-> FALSE, transition |-> FALSE,
   checkpoints |-> stored, current |-> IF stored = 0 THEN -1 ELSE 0,
   rec |-> FALSE, play |-> FALSE, playing |-> FALSE, index |-> 0, frames |-> 0, sent |-> "none"]

ModesInit == \E stored \in 0 .. MaxCheckpoints : client = Fresh(stored)

\* A snapshot is applied: the roster's team, life and death, the session spectator.
ReceiveSnapshot(team, alive) ==
  /\ client.conn # "Ended"
  /\ team = "Spectator" => alive
  /\ client' = SyncSessionSpectator([client EXCEPT !.conn = "Connected", !.snapshot = TRUE,
                                                   !.team = team, !.alive = alive, !.sent = "none"], team)

\* One frame of a running session with these keys; an Escape nothing closes ends it.
Update(in) ==
  LET backed == IF "quit" \in in THEN HandleBackAction(client) ELSE client IN
  /\ client.conn = "Connected"
  /\ "quit" \in in => HandlesBack(client)
  /\ \E passed \in 0 .. 2, arrived \in BOOLEAN : client' = FrameOf(backed, in, passed, arrived)
  /\ client'.frames <= MaxFrames

\* The session is left by an Escape that closes nothing, or the server falls silent.
EndSession ==
  /\ client.conn = "Connected"
  /\ client' = [Fresh(client.checkpoints) EXCEPT !.conn = "Ended"]

ModesNext ==
  \/ \E team \in Teams, alive \in BOOLEAN : ReceiveSnapshot(team, alive)
  \/ \E in \in Inputs : Update(in)
  \/ EndSession

ModesSpec == ModesInit /\ [][ModesNext]_client

-----------------------------------------------------------------------------
(* Properties *)

\* Every field has its type, and the current checkpoint is a stored one or none.
ModesTypeOK ==
  /\ client.conn \in {"Connecting", "Connected", "Ended"}
  /\ client.team \in Teams
  /\ client.sent \in {"none", "keepalive", "input"}
  /\ \A flag \in DOMAIN client \ {"conn", "team", "sent", "checkpoints", "current", "index", "frames"} :
       client[flag] \in BOOLEAN
  /\ client.checkpoints \in 0 .. MaxCheckpoints
  /\ client.current \in -1 .. client.checkpoints - 1
  /\ client.frames \in 0 .. MaxFrames

\* Whatever the order in which overlays, the host's scoreboard and Enter are
\* used, an overlay that is worked with the mouse never shows while the mouse
\* is captured by the game, and no two overlays share it
\* (ClientRuntime::update, openKeyboardOverlay, closeKeyboardOverlay, handleBackAction).
OverlaysFreeCursor ==
  /\ client.settings \/ client.keyboard \/ client.scoreCursor => client.uiMode
  /\ ~(client.settings /\ client.teamMenu)
  /\ ~(client.keyboard /\ (client.settings \/ client.scoreCursor))
  /\ client.restore => client.keyboard

BackOnce(c) == IF HandlesBack(c) THEN HandleBackAction(c) ELSE c

\* Escape always gets the user out: from every state, once a snapshot has set the
\* spectator lock, at most four presses close everything that takes an Escape and
\* the next one leaves the session (handleBackAction, toggleSpectatorMode).
BackLeaves ==
  LET synced == SyncSessionSpectator(client, client.team)
  IN ~HandlesBack(BackOnce(BackOnce(BackOnce(BackOnce(synced)))))

\* Recording and playback never run together, whichever of the five keys that
\* start and stop them are pressed in one frame, and the frame shown exists
\* although a new recording clears the frames (ReplayTimeline, toggleReplayRecording).
PlaybackWithinRecording ==
  /\ ~(client.rec /\ client.play)
  /\ client.play => client.index < client.frames
  /\ client.playing => client.play

\* While a recording runs every frame adds exactly one, dead, in a menu or
\* watching: no return of update() forgets captureReplayFrame.
RecordingHasNoGaps ==
  [][(client.rec /\ client'.rec /\ client'.sent # "none") => client'.frames = client.frames + 1]_client

\* A session spectator stays in the free camera and sends no input of a player:
\* "session spectators should remain in free-fly mode instead of toggling back
\* into player-style control" (tests/ClientRuntimeJoinTests.cpp:3025).
SpectatorsStayDetached ==
  client.team = "Spectator" => client.sent # "input"
=============================================================================
