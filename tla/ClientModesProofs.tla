-------------------------- MODULE ClientModesProofs --------------------------
(***************************************************************************)
(* The modes of a client are sound whatever keys a frame carries, however  *)
(* many, and for any number of checkpoints and frames: each stage of the   *)
(* frame keeps the invariant that the stages after it rely on.             *)
(***************************************************************************)
EXTENDS ClientModes, TLAPS

States ==
  [conn : {"Connecting", "Connected", "Ended"}, snapshot : BOOLEAN, team : Teams, alive : BOOLEAN,
   uiMode : BOOLEAN, settings : BOOLEAN, teamMenu : BOOLEAN, scoreboard : BOOLEAN,
   scoreCursor : BOOLEAN, keyboard : BOOLEAN, restore : BOOLEAN,
   observer : BOOLEAN, locked : BOOLEAN, transition : BOOLEAN,
   checkpoints : Nat, current : Int,
   rec : BOOLEAN, play : BOOLEAN, playing : BOOLEAN, index : Nat, frames : Nat,
   sent : {"none", "keepalive", "input"}]

\* The overlays: who needs the cursor has it, and they exclude each other.
Overlays(c) ==
  /\ c.settings \/ c.keyboard \/ c.scoreCursor => c.uiMode
  /\ ~(c.settings /\ c.teamMenu) /\ ~(c.settings /\ c.scoreCursor)
  /\ ~(c.keyboard /\ (c.settings \/ c.scoreCursor))
  /\ c.restore => c.keyboard

\* Recording and playback.
Timeline(c) ==
  /\ ~(c.rec /\ c.play)
  /\ c.play => c.index < c.frames
  /\ c.playing => c.play

Sound(c) == c \in States /\ Overlays(c) /\ Timeline(c)

ModesInv == Sound(client) /\ (client.conn = "Connected" => client.snapshot)

\* A step of a stage that leaves the timeline alone, and one that leaves the overlays alone.
SameTimeline(c, d) ==
  /\ d.conn = c.conn /\ d.snapshot = c.snapshot
  /\ d.rec = c.rec /\ d.play = c.play /\ d.playing = c.playing
  /\ d.index = c.index /\ d.frames = c.frames
SameOverlays(c, d) ==
  /\ d.uiMode = c.uiMode /\ d.settings = c.settings /\ d.teamMenu = c.teamMenu
  /\ d.scoreboard = c.scoreboard /\ d.scoreCursor = c.scoreCursor
  /\ d.keyboard = c.keyboard /\ d.restore = c.restore

\* What the stages before the recording's do: they leave the timeline alone.
Beside(c, d) == Sound(d) /\ d.keyboard = c.keyboard /\ SameTimeline(c, d)

\* What the keys of the timeline do but the one that starts a recording: a
\* recording that runs after them ran before and has the same frames.
Continues(c, d) ==
  /\ d.conn = c.conn /\ d.snapshot = c.snapshot
  /\ d.rec => c.rec /\ d.frames = c.frames
Follows(c, d) == Sound(d) /\ d.keyboard = c.keyboard /\ Continues(c, d)

-----------------------------------------------------------------------------
(***************************************************************************)
(* What leaves one half alone keeps it.                                    *)
(***************************************************************************)
LEMMA TimelineKept ==
  ASSUME NEW c, NEW d, Timeline(c), SameTimeline(c, d)
  PROVE  Timeline(d)
BY DEF Timeline, SameTimeline

LEMMA SameTimelineOn ==
  ASSUME NEW c, NEW d, NEW e, SameTimeline(c, d), SameTimeline(d, e)
  PROVE  SameTimeline(c, e)
BY DEF SameTimeline

LEMMA BesideOn ==
  ASSUME NEW c, NEW d, NEW e, Beside(c, d), Beside(d, e)
  PROVE  Beside(c, e)
BY SameTimelineOn DEF Beside

LEMMA BesideSelf ==
  ASSUME NEW c, Sound(c)
  PROVE  Beside(c, c)
BY DEF Beside, SameTimeline

LEMMA BesideFollows ==
  ASSUME NEW c, NEW d, Beside(c, d)
  PROVE  Follows(c, d)
BY DEF Beside, Follows, SameTimeline, Continues

LEMMA FollowsOn ==
  ASSUME NEW c, NEW d, NEW e, Follows(c, d), Follows(d, e)
  PROVE  Follows(c, e)
BY DEF Follows, Continues

LEMMA FollowsSelf ==
  ASSUME NEW c, Sound(c)
  PROVE  Follows(c, c)
BY DEF Follows, Continues

LEMMA OverlaysKept ==
  ASSUME NEW c, NEW d, Overlays(c), SameOverlays(c, d)
  PROVE  Overlays(d)
BY DEF Overlays, SameOverlays

(***************************************************************************)
(* The overlays.                                                           *)
(***************************************************************************)
LEMMA CloseKeyboardSound ==
  ASSUME NEW c, Sound(c), c.keyboard
  PROVE  LET d == CloseKeyboardOverlay(c) IN
           Sound(d) /\ SameTimeline(c, d) /\ ~d.keyboard /\ d.locked = c.locked /\ d.team = c.team
<1> DEFINE d == CloseKeyboardOverlay(c)
           u == c.uiMode /\ ~(c.restore /\ ~c.settings /\ ~c.teamMenu /\ ~c.scoreCursor)
<1>1. c \in States /\ Overlays(c) /\ Timeline(c) /\ u \in BOOLEAN
  BY DEF Sound, States
<1>2. d = [c EXCEPT !.keyboard = FALSE, !.restore = FALSE, !.uiMode = u]
  BY DEF CloseKeyboardOverlay
<1> HIDE DEF d, u
<1>3. d \in States
  <2> DEFINE closed == [c EXCEPT !.keyboard = FALSE]
             told == [closed EXCEPT !.restore = FALSE]
  <2>1. closed \in States
    BY <1>1 DEF States
  <2> HIDE DEF closed
  <2>2. told \in States
    BY <2>1 DEF States
  <2>3. d = [told EXCEPT !.uiMode = u]
    BY <1>2 DEF closed
  <2> HIDE DEF told
  <2> QED
    BY <1>1, <2>2, <2>3 DEF States
<1>4. SameTimeline(c, d) /\ ~d.keyboard /\ d.locked = c.locked /\ d.team = c.team
  BY <1>1, <1>2 DEF States, SameTimeline
<1>5. Overlays(d)
  BY <1>1, <1>2 DEF States, Overlays
<1>6. Sound(d)
  BY <1>1, <1>3, <1>4, <1>5, TimelineKept DEF Sound
<1> QED
  BY <1>4, <1>6 DEF d

LEMMA KeyboardStageSound ==
  ASSUME NEW c, Sound(c), ~c.settings, ~c.scoreCursor
  PROVE  Sound(KeyboardStage(c)) /\ SameTimeline(c, KeyboardStage(c))
<1> DEFINE d == OpenKeyboardOverlay(c)
           r == ~c.uiMode
<1>1. c \in States /\ Overlays(c) /\ Timeline(c) /\ r \in BOOLEAN
  BY DEF Sound, States
<1>2. d = [c EXCEPT !.restore = r, !.keyboard = TRUE, !.uiMode = TRUE,
                    !.scoreboard = FALSE, !.scoreCursor = FALSE]
  BY DEF OpenKeyboardOverlay
<1> HIDE DEF d, r
<1>3. d \in States /\ SameTimeline(c, d)
  BY <1>1, <1>2 DEF States, SameTimeline
<1>4. Overlays(d)
  BY <1>1, <1>2 DEF States, Overlays
<1>5. Sound(d)
  BY <1>1, <1>3, <1>4, TimelineKept DEF Sound
<1> QED
  BY <1>3, <1>5, CloseKeyboardSound DEF KeyboardStage, d

LEMMA MouseStageSound ==
  ASSUME NEW c, Sound(c), ~c.keyboard, NEW in
  PROVE  LET d == MouseStage(c, in) IN Sound(d) /\ SameTimeline(c, d) /\ ~d.keyboard
<1> DEFINE d == MouseStage(c, in)
           s == ~c.settings
           t == c.teamMenu /\ c.settings
           freed == [c EXCEPT !.uiMode = TRUE, !.scoreCursor = FALSE]
           tabbed == [c EXCEPT !.uiMode = s, !.settings = s, !.teamMenu = t,
                               !.scoreboard = FALSE, !.scoreCursor = FALSE]
           captured == [c EXCEPT !.uiMode = FALSE, !.scoreboard = FALSE, !.scoreCursor = FALSE]
<1>1. c \in States /\ Overlays(c) /\ Timeline(c) /\ s \in BOOLEAN /\ t \in BOOLEAN
  BY DEF Sound, States
<1>2. d = c \/ (~c.uiMode /\ d = freed) \/ d = tabbed \/ (~c.settings /\ d = captured)
  BY DEF MouseStage, SetUiMode
<1> HIDE DEF d, s, t
<1>3. ~c.uiMode => freed \in States /\ SameTimeline(c, freed) /\ ~freed.keyboard /\ Overlays(freed)
  BY <1>1 DEF States, SameTimeline, Overlays
<1>4. tabbed \in States /\ SameTimeline(c, tabbed) /\ ~tabbed.keyboard /\ Overlays(tabbed)
  <2>1. tabbed \in States
    BY <1>1 DEF States
  <2>2. SameTimeline(c, tabbed) /\ ~tabbed.keyboard
    BY <1>1 DEF States, SameTimeline
  <2>3. Overlays(tabbed)
    BY <1>1 DEF States, Overlays, s, t
  <2> QED
    BY <2>1, <2>2, <2>3
<1>5. ~c.settings => captured \in States /\ SameTimeline(c, captured)
                     /\ ~captured.keyboard /\ Overlays(captured)
  BY <1>1 DEF States, SameTimeline, Overlays
<1> HIDE DEF freed, tabbed, captured
<1>6. Sound(d) /\ SameTimeline(c, d) /\ ~d.keyboard
  BY <1>1, <1>2, <1>3, <1>4, <1>5, TimelineKept DEF Sound, SameTimeline
<1> QED
  BY <1>6 DEF d

LEMMA ScoreboardStageSound ==
  ASSUME NEW c, Sound(c), ~c.keyboard, NEW in
  PROVE  LET d == ScoreboardStage(c, in) IN Sound(d) /\ SameTimeline(c, d) /\ ~d.keyboard
<1> DEFINE d == ScoreboardStage(c, in)
           b == "score" \in in /\ ~c.teamMenu /\ ~c.settings
           shown == [c EXCEPT !.scoreboard = b]
           opened == [c EXCEPT !.scoreboard = b, !.uiMode = TRUE, !.scoreCursor = TRUE]
           closed == [c EXCEPT !.scoreboard = b, !.uiMode = FALSE, !.scoreCursor = FALSE]
<1>1. c \in States /\ Overlays(c) /\ Timeline(c) /\ b \in BOOLEAN /\ (b => ~c.settings)
  BY DEF Sound, States
<1> HIDE DEF b
<1>2. shown \in States /\ SameTimeline(c, shown) /\ ~shown.keyboard /\ Overlays(shown)
      /\ shown.scoreboard = b
  BY <1>1 DEF States, SameTimeline, Overlays
<1>3. b => opened \in States /\ SameTimeline(c, opened) /\ ~opened.keyboard /\ Overlays(opened)
  BY <1>1 DEF States, SameTimeline, Overlays
<1>4. c.scoreCursor => closed \in States /\ SameTimeline(c, closed)
                       /\ ~closed.keyboard /\ Overlays(closed)
  BY <1>1 DEF States, SameTimeline, Overlays
<1>5. d = shown \/ (b /\ d = opened) \/ (c.scoreCursor /\ d = closed)
  <2>1. ShowsHostAdmin(shown) => b
    BY <1>2 DEF ShowsHostAdmin
  <2> QED
    BY <2>1 DEF ScoreboardStage, SetUiMode, b
<1> HIDE DEF d, shown, opened, closed
<1>6. Sound(d) /\ SameTimeline(c, d) /\ ~d.keyboard
  BY <1>1, <1>2, <1>3, <1>4, <1>5, TimelineKept DEF Sound
<1> QED
  BY <1>6 DEF d

LEMMA ToggleTeamMenuSound ==
  ASSUME NEW c, Sound(c), ~c.uiMode
  PROVE  LET d == ToggleTeamMenu(c) IN Sound(d) /\ SameTimeline(c, d) /\ ~d.keyboard
<1> DEFINE d == ToggleTeamMenu(c)
           t == ~c.teamMenu
           b == c.scoreboard /\ c.teamMenu
<1>1. c \in States /\ Overlays(c) /\ Timeline(c) /\ t \in BOOLEAN /\ b \in BOOLEAN
  BY DEF Sound, States
<1>2. d = [c EXCEPT !.teamMenu = t, !.scoreboard = b]
  BY DEF ToggleTeamMenu
<1> HIDE DEF d, t, b
<1>3. d \in States /\ SameTimeline(c, d)
  BY <1>1, <1>2 DEF States, SameTimeline
<1>4. Overlays(d) /\ ~d.keyboard
  BY <1>1, <1>2 DEF States, Overlays
<1> QED
  BY <1>1, <1>3, <1>4, TimelineKept DEF Sound, d

\* Closing the menu for a team closes the scoreboard with it.
LEMMA MenuClosedSound ==
  ASSUME NEW c, Sound(c)
  PROVE  Beside(c, [c EXCEPT !.teamMenu = FALSE, !.scoreboard = FALSE])
<1> DEFINE d == [c EXCEPT !.teamMenu = FALSE, !.scoreboard = FALSE]
<1>1. c \in States /\ Overlays(c) /\ Timeline(c)
  BY DEF Sound
<1>2. d \in States /\ SameTimeline(c, d) /\ d.keyboard = c.keyboard
  BY <1>1 DEF States, SameTimeline
<1>3. Overlays(d)
  BY <1>1 DEF States, Overlays
<1> HIDE DEF d
<1>4. Beside(c, d)
  BY <1>1, <1>2, <1>3, TimelineKept DEF Sound, Beside
<1> QED
  BY <1>4 DEF d

\* The menu for a team and the settings close by keys of their own.
LEMMA MenusSound ==
  ASSUME NEW c, Sound(c), ~c.keyboard, NEW in, NEW released
  PROVE  Beside(c, TeamMenuStage(c, in, released)) /\ Beside(c, SettingsStage(c, in))
<1> DEFINE d == [c EXCEPT !.teamMenu = FALSE]
           e == [c EXCEPT !.settings = FALSE, !.uiMode = FALSE]
<1>1. c \in States /\ Overlays(c) /\ Timeline(c)
  BY DEF Sound
<1>2. d \in States /\ SameTimeline(c, d) /\ d.keyboard = c.keyboard /\ Overlays(d)
  BY <1>1 DEF States, SameTimeline, Overlays
<1>3. c.settings => e \in States /\ SameTimeline(c, e) /\ e.keyboard = c.keyboard /\ Overlays(e)
  BY <1>1 DEF States, SameTimeline, Overlays
<1>4. TeamMenuStage(c, in, released) \in {c, d}
  BY DEF TeamMenuStage
<1>5. SettingsStage(c, in) = c \/ (c.settings /\ SettingsStage(c, in) = e)
  BY DEF SettingsStage, SetUiMode
<1> HIDE DEF d, e
<1>6. Beside(c, d)
  BY <1>1, <1>2, TimelineKept DEF Sound, Beside
<1>7. c.settings => Beside(c, e)
  BY <1>1, <1>3, TimelineKept DEF Sound, Beside
<1> QED
  BY <1>4, <1>5, <1>6, <1>7, BesideSelf

(***************************************************************************)
(* The camera and its checkpoints touch neither half.                      *)
(***************************************************************************)
LEMMA BothKept ==
  ASSUME NEW c, Sound(c), NEW d \in States, SameTimeline(c, d), SameOverlays(c, d)
  PROVE  Beside(c, d)
BY TimelineKept, OverlaysKept DEF Sound, SameOverlays, Beside

LEMMA CameraSound ==
  ASSUME NEW c, Sound(c), NEW o \in BOOLEAN, NEW l \in BOOLEAN, NEW t \in BOOLEAN
  PROVE  LET d == [c EXCEPT !.observer = o, !.locked = l, !.transition = t]
             e == [c EXCEPT !.observer = o, !.transition = t]
             f == [c EXCEPT !.transition = t]
         IN  /\ Beside(c, d)
             /\ Beside(c, e)
             /\ Beside(c, f)
<1> DEFINE d == [c EXCEPT !.observer = o, !.locked = l, !.transition = t]
           e == [c EXCEPT !.observer = o, !.transition = t]
           f == [c EXCEPT !.transition = t]
<1>1. c \in States
  BY DEF Sound
<1>2. d \in States /\ SameTimeline(c, d) /\ SameOverlays(c, d)
  <2>1. d \in States
    BY <1>1 DEF States
  <2>2. SameTimeline(c, d) /\ SameOverlays(c, d)
    BY <1>1 DEF States, SameTimeline, SameOverlays
  <2> QED
    BY <2>1, <2>2
<1>3. e \in States /\ SameTimeline(c, e) /\ SameOverlays(c, e)
  BY <1>1 DEF States, SameTimeline, SameOverlays
<1>4. f \in States /\ SameTimeline(c, f) /\ SameOverlays(c, f)
  BY <1>1 DEF States, SameTimeline, SameOverlays
<1> HIDE DEF d, e, f
<1>5. /\ Beside(c, d)
      /\ Beside(c, e)
      /\ Beside(c, f)
  BY <1>2, <1>3, <1>4, BothKept
<1> QED
  BY <1>5 DEF d, e, f

LEMMA ToggleSpectatorSound ==
  ASSUME NEW c, Sound(c)
  PROVE  Beside(c, ToggleSpectatorMode(c))
<1> DEFINE closed == [c EXCEPT !.teamMenu = FALSE, !.scoreboard = FALSE]
           d == ToggleSpectatorMode(c)
<1>1. Beside(c, closed)
  BY MenuClosedSound
<1>2. d = ToggleSpectatorInPlayback(closed) \/ d = ToggleSpectatorLive(closed)
  BY DEF ToggleSpectatorMode
<1> HIDE DEF closed, d
<1>3. \/ d = closed
      \/ \E o \in BOOLEAN : d = [closed EXCEPT !.observer = o, !.transition = FALSE]
      \/ \E o, l \in BOOLEAN : d = [closed EXCEPT !.observer = o, !.locked = l, !.transition = FALSE]
  BY <1>2 DEF ToggleSpectatorInPlayback, ToggleSpectatorLive
<1>4. Beside(closed, d)
  <2>1. \A o, l \in BOOLEAN :
          LET e == [closed EXCEPT !.observer = o, !.transition = FALSE]
              f == [closed EXCEPT !.observer = o, !.locked = l, !.transition = FALSE]
          IN  /\ Beside(closed, e)
              /\ Beside(closed, f)
    BY <1>1, CameraSound DEF Beside
  <2> QED
    BY <1>1, <1>3, <2>1, BesideSelf DEF Beside
<1> QED
  BY <1>1, <1>4, BesideOn DEF d

LEMMA TeamAndSpectatorSound ==
  ASSUME NEW c, Sound(c), ~c.keyboard, NEW in
  PROVE  LET d == TeamAndSpectatorStage(c, in) IN Sound(d) /\ SameTimeline(c, d) /\ ~d.keyboard
<1> DEFINE menu == IF "team" \in in /\ ~c.uiMode THEN ToggleTeamMenu(c) ELSE c
<1>1. Sound(menu) /\ SameTimeline(c, menu) /\ ~menu.keyboard
  BY ToggleTeamMenuSound, BesideSelf DEF Beside
<1> HIDE DEF menu
<1>2. TeamAndSpectatorStage(c, in) = IF "spectator" \in in THEN ToggleSpectatorMode(menu) ELSE menu
  BY DEF TeamAndSpectatorStage, menu
<1> QED
  BY <1>1, <1>2, ToggleSpectatorSound, SameTimelineOn DEF Beside

LEMMA SyncSound ==
  ASSUME NEW c, Sound(c), NEW team
  PROVE  LET d == SyncSessionSpectator(c, team) IN Beside(c, d) /\ d.sent = c.sent
<1> DEFINE d == SyncSessionSpectator(c, team)
           t == c.transition /\ ~c.observer
           on == [c EXCEPT !.observer = TRUE, !.locked = TRUE, !.transition = FALSE]
           off == [c EXCEPT !.observer = FALSE, !.locked = FALSE, !.transition = t]
<1>1. t \in BOOLEAN /\ c \in States
  BY DEF Sound, States
<1>2. d \in {c, on, off}
  BY DEF SyncSessionSpectator
<1> HIDE DEF d, t
<1>3. Beside(c, on) /\ Beside(c, off)
  BY <1>1, CameraSound
<1>4. on.sent = c.sent /\ off.sent = c.sent
  BY <1>1 DEF States
<1> HIDE DEF on, off
<1> QED
  BY <1>2, <1>3, <1>4, BesideSelf DEF d

\* The four ways in which the checkpoints and the transition change.
Longer(c, n, k) == [c EXCEPT !.checkpoints = n, !.current = k, !.transition = FALSE]
Shorter(c, n, k) == [c EXCEPT !.checkpoints = n, !.transition = FALSE, !.current = k]
Moving(c, k) == [c EXCEPT !.transition = TRUE, !.current = k]
Halted(c) == [c EXCEPT !.transition = FALSE]

LEMMA PointsSound ==
  ASSUME NEW c, Sound(c), NEW n \in Nat, NEW k \in Int
  PROVE  /\ Beside(c, Longer(c, n, k))
         /\ Beside(c, Shorter(c, n, k))
         /\ Beside(c, Moving(c, k))
         /\ Beside(c, Halted(c))
<1> DEFINE d == Longer(c, n, k)
           e == Shorter(c, n, k)
           f == Moving(c, k)
           g == Halted(c)
<1>1. c \in States
  BY DEF Sound
<1>2. d \in States /\ SameTimeline(c, d) /\ SameOverlays(c, d)
  BY <1>1 DEF States, SameTimeline, SameOverlays, Longer
<1>3. e \in States /\ SameTimeline(c, e) /\ SameOverlays(c, e)
  BY <1>1 DEF States, SameTimeline, SameOverlays, Shorter
<1>4. f \in States /\ SameTimeline(c, f) /\ SameOverlays(c, f)
  BY <1>1 DEF States, SameTimeline, SameOverlays, Moving
<1>5. g \in States /\ SameTimeline(c, g) /\ SameOverlays(c, g)
  BY <1>1 DEF States, SameTimeline, SameOverlays, Halted
<1> HIDE DEF d, e, f, g
<1>6. /\ Beside(c, d) /\ Beside(c, e)
      /\ Beside(c, f) /\ Beside(c, g)
  BY <1>2, <1>3, <1>4, <1>5, BothKept
<1> QED
  BY <1>6 DEF d, e, f, g

LEMMA CycleSound ==
  ASSUME NEW c, Sound(c), c.checkpoints > 0, NEW direction \in Int
  PROVE  LET d == BeginTransition(c, CycleCheckpoint(c, direction)) IN
           Beside(c, d)
<1>1. c.checkpoints \in Nat /\ c.current \in Int
  BY DEF Sound, States
<1>2. CycleCheckpoint(c, direction) \in Int
  BY <1>1 DEF CycleCheckpoint
<1>3. BeginTransition(c, CycleCheckpoint(c, direction)) = Moving(c, CycleCheckpoint(c, direction))
  BY DEF BeginTransition, Moving
<1> QED
  BY <1>1, <1>2, <1>3, PointsSound

LEMMA CheckpointStageSound ==
  ASSUME NEW c, Sound(c), NEW in
  PROVE  Beside(c, CheckpointStage(c, in))
<1> DEFINE added == IF "addCheckpoint" \in in /\ c.checkpoints < MaxCheckpoints
                    THEN CreateCheckpoint(c) ELSE c
           back == IF "prevCheckpoint" \in in /\ added.checkpoints > 0
                   THEN BeginTransition(added, CycleCheckpoint(added, -1)) ELSE added
           forth == IF "nextCheckpoint" \in in /\ back.checkpoints > 0
                    THEN BeginTransition(back, CycleCheckpoint(back, 1)) ELSE back
           less == IF "deleteCheckpoint" \in in /\ forth.checkpoints > 0
                   THEN DeleteCheckpoint(forth) ELSE forth
<1>1. Beside(c, added)
  <2> DEFINE n == c.checkpoints + 1
             k == c.checkpoints
  <2>1. n \in Nat /\ k \in Int
    BY DEF Sound, States
  <2>2. added = c \/ added = Longer(c, n, k)
    BY DEF CreateCheckpoint, Longer
  <2> HIDE DEF n, k, added
  <2> QED
    BY <2>1, <2>2, PointsSound, BesideSelf
<1> HIDE DEF added
<1>2. Beside(c, back)
  BY <1>1, CycleSound, BesideOn DEF Beside
<1> HIDE DEF back
<1>3. Beside(c, forth)
  BY <1>2, CycleSound, BesideOn DEF Beside
<1> HIDE DEF forth
<1>4. Beside(c, less)
  <2> DEFINE n == forth.checkpoints - 1
             k == IF forth.checkpoints = 1 THEN -1 ELSE forth.current % (forth.checkpoints - 1)
  <2>1. forth.checkpoints \in Nat /\ forth.current \in Int
    BY <1>3 DEF Beside, Sound, States
  <2>2. forth.checkpoints > 0 => n \in Nat /\ k \in Int
    BY <2>1
  <2>3. less = forth \/ (forth.checkpoints > 0 /\ less \in {Shorter(forth, n, k), Halted(forth)})
    BY DEF DeleteCheckpoint, Shorter, Halted
  <2> HIDE DEF n, k, less
  <2>4. Sound(forth)
    BY <1>3 DEF Beside
  <2>5. Beside(forth, less)
    BY <2>2, <2>3, <2>4, PointsSound, BesideSelf
  <2> QED
    BY <1>3, <2>5, BesideOn
<1> HIDE DEF less
<1>5. CheckpointStage(c, in) = IF ~c.observer THEN c ELSE less
  BY DEF CheckpointStage, added, back, forth, less
<1> QED
  BY <1>4, <1>5, BesideSelf

(***************************************************************************)
(* Recording and playback.                                                 *)
(***************************************************************************)
LEMMA OverlaysAndTimeline ==
  ASSUME NEW c, Sound(c), NEW d \in States,
         SameOverlays(c, d), Timeline(d), Continues(c, d)
  PROVE  Follows(c, d)
BY OverlaysKept DEF Sound, SameOverlays, Follows

LEMMA StopPlaybackSound ==
  ASSUME NEW c, Sound(c)
  PROVE  LET d == StopPlayback(c) IN
           /\ Follows(c, d)
           /\ ~d.play /\ d.rec = c.rec /\ d.frames = c.frames
<1> DEFINE d == StopPlayback(c)
<1>1. c \in States
  BY DEF Sound
<1>2. d \in States
  BY <1>1 DEF States, StopPlayback
<1>3. SameOverlays(c, d) /\ ~d.play /\ ~d.playing /\ d.rec = c.rec /\ d.frames = c.frames
      /\ d.conn = c.conn /\ d.snapshot = c.snapshot
  BY <1>1 DEF States, StopPlayback, SameOverlays
<1> HIDE DEF d
<1>4. Timeline(d) /\ Continues(c, d)
  BY <1>3 DEF Timeline, Continues
<1> QED
  BY <1>2, <1>3, <1>4, OverlaysAndTimeline DEF d

LEMMA StartPlaybackSound ==
  ASSUME NEW c, Sound(c), NEW autoPlay \in BOOLEAN
  PROVE  LET d == StartPlayback(c, autoPlay) IN
           /\ Follows(c, d) /\ d.frames = c.frames
           /\ c.frames # 0 => d.play
<1> DEFINE d == StartPlayback(c, autoPlay)
           e == [c EXCEPT !.rec = FALSE, !.play = TRUE, !.playing = autoPlay, !.index = 0]
<1>1. c \in States /\ c.frames \in Nat
  BY DEF Sound, States
<1>2. e \in States
  BY <1>1 DEF States
<1>3. /\ SameOverlays(c, e) /\ e.play /\ ~e.rec /\ e.index = 0 /\ e.frames = c.frames
      /\ e.conn = c.conn /\ e.snapshot = c.snapshot
  BY <1>1 DEF States, SameOverlays
<1>4. d = IF c.frames = 0 THEN c ELSE e
  BY DEF StartPlayback
<1> HIDE DEF d, e
<1>5. c.frames # 0 => Timeline(e) /\ Continues(c, e)
  BY <1>1, <1>3 DEF Timeline, Continues
<1>6. c.frames # 0 => Follows(c, e)
  BY <1>2, <1>3, <1>5, OverlaysAndTimeline
<1> QED
  BY <1>3, <1>4, <1>6, FollowsSelf DEF d

LEMMA ToggleRecordingSound ==
  ASSUME NEW c, Sound(c)
  PROVE  LET d == ToggleReplayRecording(c) IN
           /\ Sound(d) /\ d.keyboard = c.keyboard /\ d.conn = c.conn /\ d.snapshot = c.snapshot
           /\ d.rec => ~c.rec
<1> DEFINE s == StopPlayback(c)
           off == [s EXCEPT !.rec = FALSE]
           on == [s EXCEPT !.rec = TRUE, !.frames = 0]
           d == ToggleReplayRecording(c)
<1>1. Follows(c, s) /\ ~s.play
  BY StopPlaybackSound
<1>2. d = IF c.rec THEN off ELSE on
  BY DEF ToggleReplayRecording, StartRecording
<1> HIDE DEF s, d
<1>3. /\ s \in States /\ Timeline(s) /\ Sound(s)
      /\ s.keyboard = c.keyboard /\ s.conn = c.conn /\ s.snapshot = c.snapshot
  BY <1>1 DEF Sound, Follows, Continues
<1>4. /\ off \in States /\ SameOverlays(s, off) /\ ~off.rec
      /\ off.play = s.play /\ off.playing = s.playing
      /\ off.conn = s.conn /\ off.snapshot = s.snapshot
  BY <1>3 DEF States, SameOverlays
<1>5. /\ on \in States /\ SameOverlays(s, on) /\ on.play = s.play /\ on.playing = s.playing
      /\ on.conn = s.conn /\ on.snapshot = s.snapshot
  BY <1>3 DEF States, SameOverlays
<1> HIDE DEF off, on
<1>6. Timeline(off) /\ Timeline(on) /\ Overlays(off) /\ Overlays(on)
  BY <1>1, <1>3, <1>4, <1>5, OverlaysKept DEF Timeline, Sound
<1>7. Sound(off) /\ Sound(on) /\ off.keyboard = c.keyboard /\ on.keyboard = c.keyboard
  BY <1>3, <1>4, <1>5, <1>6 DEF Sound, SameOverlays
<1> QED
  BY <1>2, <1>3, <1>4, <1>5, <1>7 DEF d

\* A playback that pauses or goes on stays on its frame.
LEMMA PauseSound ==
  ASSUME NEW c, Sound(c), c.play, NEW b \in BOOLEAN
  PROVE  LET d == [c EXCEPT !.playing = b] IN Follows(c, d)
<1> DEFINE d == [c EXCEPT !.playing = b]
<1>1. c \in States /\ Timeline(c)
  BY DEF Sound
<1>2. d \in States
  BY <1>1 DEF States
<1>3. SameOverlays(c, d) /\ d.rec = c.rec /\ d.play = c.play /\ d.index = c.index /\ d.frames = c.frames
      /\ d.conn = c.conn /\ d.snapshot = c.snapshot
  BY <1>1 DEF States, SameOverlays
<1> HIDE DEF d
<1>4. Timeline(d) /\ Continues(c, d)
  BY <1>1, <1>3 DEF Timeline, Continues
<1> QED
  BY <1>2, <1>3, <1>4, OverlaysAndTimeline DEF d

LEMMA TogglePlaybackSound ==
  ASSUME NEW c, Sound(c)
  PROVE  LET d == ToggleReplayPlayback(c) IN Follows(c, d)
<1> DEFINE d == ToggleReplayPlayback(c)
           b == ~c.playing
           paused == [c EXCEPT !.playing = b]
<1>1. b \in BOOLEAN
  OBVIOUS
<1>2. \/ d = c \/ d = StopPlayback(c)
      \/ c.play /\ d = paused
      \/ d = StartPlayback(c, TRUE)
  BY DEF ToggleReplayPlayback
<1> HIDE DEF d, b
<1>3. c.play => Follows(c, paused)
  BY <1>1, PauseSound
<1> HIDE DEF paused
<1> QED
  BY <1>2, <1>3, StopPlaybackSound, StartPlaybackSound, FollowsSelf DEF d

LEMMA ResetPlaybackSound ==
  ASSUME NEW c, Sound(c), c.frames > 0
  PROVE  LET d == ResetPlayback(c) IN Follows(c, d)
<1> DEFINE s == IF c.play THEN c ELSE StartPlayback(c, FALSE)
           d == [s EXCEPT !.play = TRUE, !.playing = FALSE, !.index = 0]
<1>1. c.frames \in Nat /\ c.frames # 0
  BY DEF Sound, States
<1>2. Follows(c, s) /\ s.frames = c.frames /\ s.play
  BY <1>1, StartPlaybackSound, FollowsSelf
<1> HIDE DEF s
<1>3. s \in States /\ Timeline(s)
  BY <1>2 DEF Follows, Sound
<1>4. d \in States
  BY <1>3 DEF States
<1>5. SameOverlays(s, d) /\ d.play /\ ~d.playing /\ d.index = 0 /\ d.rec = s.rec /\ d.frames = s.frames
      /\ d.conn = s.conn /\ d.snapshot = s.snapshot
  BY <1>3 DEF States, SameOverlays
<1>6. ResetPlayback(c) = d
  BY DEF ResetPlayback, s
<1> HIDE DEF d
<1>7. Timeline(d) /\ Continues(s, d)
  BY <1>1, <1>2, <1>3, <1>5 DEF Timeline, Continues
<1> QED
  BY <1>2, <1>4, <1>5, <1>6, <1>7, OverlaysAndTimeline, FollowsOn DEF Follows

LEMMA StopReplaySound ==
  ASSUME NEW c, Sound(c)
  PROVE  LET d == StopReplayPlayback(c) IN Follows(c, d)
<1> DEFINE s == StopPlayback(c)
           l == s.locked /\ ~c.observer
           t == s.transition /\ ~c.observer
           e == [s EXCEPT !.observer = FALSE, !.locked = l, !.transition = t]
           d == StopReplayPlayback(c)
<1>1. Follows(c, s)
  BY StopPlaybackSound
<1>2. d = c \/ d = e
  BY DEF StopReplayPlayback
<1> HIDE DEF s, d
<1>3. l \in BOOLEAN /\ t \in BOOLEAN
  OBVIOUS
<1> HIDE DEF l, t
<1>4. Follows(s, e)
  BY <1>1, <1>3, CameraSound, BesideFollows DEF Follows
<1> HIDE DEF e
<1> QED
  BY <1>1, <1>2, <1>4, FollowsOn, FollowsSelf DEF d

LEMMA SeekSound ==
  ASSUME NEW c, Sound(c), c.play, NEW delta \in Int
  PROVE  LET d == SeekBy(c, delta) IN Follows(c, d)
<1> DEFINE k == Max2(0, Min2(c.index + delta, c.frames - 1))
           d == SeekBy(c, delta)
<1>1. c \in States /\ Timeline(c)
  BY DEF Sound
<1>2. c.index \in Nat /\ c.frames \in Nat /\ c.index < c.frames /\ ~c.rec
  BY <1>1 DEF States, Timeline
<1>3. k \in Nat /\ k < c.frames
  BY <1>2 DEF Max2, Min2
<1>4. d = [c EXCEPT !.playing = FALSE, !.index = k]
  BY DEF SeekBy
<1> HIDE DEF k, d
<1>5. d \in States
  BY <1>1, <1>3, <1>4 DEF States
<1>6. /\ SameOverlays(c, d) /\ ~d.playing /\ d.index = k
      /\ d.rec = c.rec /\ d.play = c.play /\ d.frames = c.frames
      /\ d.conn = c.conn /\ d.snapshot = c.snapshot
  BY <1>1, <1>4 DEF States, SameOverlays
<1>7. Timeline(d) /\ Continues(c, d)
  BY <1>2, <1>3, <1>6 DEF Timeline, Continues
<1> QED
  BY <1>5, <1>6, <1>7, OverlaysAndTimeline DEF d

LEMMA StepSound ==
  ASSUME NEW c, Sound(c), NEW delta \in Int
  PROVE  LET d == StepReplay(c, delta) IN Follows(c, d)
<1> DEFINE s == IF c.play THEN c ELSE StartPlayback(c, FALSE)
           d == StepReplay(c, delta)
<1>1. Follows(c, s) /\ (c.frames # 0 => s.play)
  BY StartPlaybackSound, FollowsSelf
<1>2. d = IF c.frames = 0 THEN c ELSE SeekBy(s, delta)
  BY DEF StepReplay
<1> HIDE DEF s, d
<1> QED
  BY <1>1, <1>2, SeekSound, FollowsOn, FollowsSelf DEF d, Follows

LEMMA RecordingStageSound ==
  ASSUME NEW c, Sound(c), NEW in
  PROVE  LET d == RecordingStage(c, in) IN
           /\ Sound(d) /\ d.keyboard = c.keyboard /\ d.conn = c.conn /\ d.snapshot = c.snapshot
           /\ d.rec /\ c.rec => d.frames = c.frames
<1> DEFINE recorded == IF "record" \in in THEN ToggleReplayRecording(c) ELSE c
           played == IF "playback" \in in THEN ToggleReplayPlayback(recorded) ELSE recorded
           rewound == IF "reset" \in in /\ played.frames > 0 THEN ResetPlayback(played) ELSE played
           stopped == IF "stop" \in in THEN StopReplayPlayback(rewound) ELSE rewound
           d == RecordingStage(c, in)
<1>1. /\ Sound(recorded) /\ recorded.keyboard = c.keyboard
      /\ recorded.conn = c.conn /\ recorded.snapshot = c.snapshot
      /\ recorded.rec /\ c.rec => recorded.frames = c.frames
  BY ToggleRecordingSound
<1> HIDE DEF recorded
<1>2. Follows(recorded, played)
  BY <1>1, TogglePlaybackSound, FollowsSelf
<1> HIDE DEF played
<1>3. Follows(recorded, rewound)
  BY <1>2, ResetPlaybackSound, FollowsOn DEF Follows
<1> HIDE DEF rewound
<1>4. Follows(recorded, stopped)
  BY <1>3, StopReplaySound, FollowsOn DEF Follows
<1> HIDE DEF stopped
<1>5. d \in {stopped, StepReplay(stopped, SeekFrames), StepReplay(stopped, -SeekFrames)}
  BY DEF RecordingStage, recorded, played, rewound, stopped
<1>6. SeekFrames \in Int /\ -SeekFrames \in Int
  BY BoundsAssumption
<1> HIDE DEF d
<1>7. Follows(recorded, d)
  BY <1>4, <1>5, <1>6, StepSound, FollowsOn DEF Follows
<1> QED
  BY <1>1, <1>7 DEF d, Follows, Continues

(***************************************************************************)
(* The end of a frame.                                                     *)
(***************************************************************************)
LEMMA UpdatePlaybackSound ==
  ASSUME NEW c, Sound(c), NEW passed \in Nat
  PROVE  LET d == UpdatePlayback(c, passed) IN Follows(c, d)
<1> DEFINE k == Min2(c.index + passed, c.frames - 1)
           b == c.index + passed < c.frames
           e == [c EXCEPT !.index = k, !.playing = b]
           d == UpdatePlayback(c, passed)
           moves == c.playing /\ c.index + 1 < c.frames
<1>1. c \in States /\ Timeline(c) /\ c.index \in Nat /\ c.frames \in Nat
  BY DEF Sound, States
<1>2. b \in BOOLEAN
  OBVIOUS
<1>3. moves => k \in Nat /\ k < c.frames /\ c.play
  BY <1>1 DEF Min2, Timeline
<1>4. d = IF moves THEN e ELSE c
  BY DEF UpdatePlayback
<1> HIDE DEF k, b, d, moves
<1>5. moves => e \in States
  BY <1>1, <1>2, <1>3 DEF States
<1>6. /\ SameOverlays(c, e) /\ e.index = k
      /\ e.rec = c.rec /\ e.play = c.play /\ e.frames = c.frames
      /\ e.conn = c.conn /\ e.snapshot = c.snapshot
  BY <1>1 DEF States, SameOverlays
<1> HIDE DEF e
<1>7. moves => Timeline(e) /\ Continues(c, e)
  BY <1>1, <1>3, <1>6 DEF Timeline, Continues
<1> QED
  BY <1>4, <1>5, <1>6, <1>7, OverlaysAndTimeline, FollowsSelf DEF d

\* A running recording of a connected client gets exactly one frame.
Grows(c, d) ==
  /\ d.snapshot = c.snapshot /\ (d.rec => c.rec)
  /\ c.conn = "Connected" /\ c.snapshot /\ c.rec /\ d.rec => d.frames = c.frames + 1

LEMMA CaptureSound ==
  ASSUME NEW c, Sound(c)
  PROVE  LET d == CaptureReplayFrame(c) IN Sound(d) /\ Grows(c, d)
<1> DEFINE n == c.frames + 1
           e == [c EXCEPT !.frames = n]
           d == CaptureReplayFrame(c)
           records == c.rec /\ c.conn = "Connected" /\ c.snapshot
<1>1. c \in States /\ Timeline(c) /\ n \in Nat
  BY DEF Sound, States
<1>2. d = IF records THEN e ELSE c
  BY DEF CaptureReplayFrame
<1> HIDE DEF n, d
<1>3. e \in States
  BY <1>1 DEF States
<1>4. SameOverlays(c, e) /\ e.rec = c.rec /\ e.play = c.play /\ e.playing = c.playing /\ e.frames = n
      /\ e.snapshot = c.snapshot
  BY <1>1 DEF States, SameOverlays
<1> HIDE DEF e
<1>5. c.rec => Timeline(e)
  BY <1>1, <1>4 DEF Timeline
<1>6. Overlays(e)
  BY <1>4, OverlaysKept DEF Sound
<1>7. Sound(d) /\ Grows(c, d)
  BY <1>2, <1>3, <1>4, <1>5, <1>6 DEF Sound, Grows, n
<1> QED
  BY <1>7 DEF d

LEMMA CaptureAfter ==
  ASSUME NEW c, NEW d, Follows(c, d)
  PROVE  Sound(CaptureReplayFrame(d)) /\ Grows(c, CaptureReplayFrame(d))
<1> DEFINE e == CaptureReplayFrame(d)
<1>1. Sound(d) /\ Continues(c, d)
  BY DEF Follows
<1>2. Sound(e) /\ Grows(d, e)
  BY <1>1, CaptureSound
<1> HIDE DEF e
<1>3. Grows(c, e)
  BY <1>1, <1>2 DEF Continues, Grows
<1> QED
  BY <1>2, <1>3 DEF e

LEMMA SentSound ==
  ASSUME NEW c, Sound(c), NEW m \in {"none", "keepalive", "input"}
  PROVE  LET d == [c EXCEPT !.sent = m] IN Beside(c, d)
<1> DEFINE d == [c EXCEPT !.sent = m]
<1>1. c \in States
  BY DEF Sound
<1>2. d \in States
  BY <1>1 DEF States
<1>3. SameTimeline(c, d) /\ SameOverlays(c, d)
  BY <1>1 DEF States, SameTimeline, SameOverlays
<1> HIDE DEF d
<1> QED
  BY <1>2, <1>3, BothKept DEF d

LEMMA FinalStageSound ==
  ASSUME NEW c, Sound(c), NEW passed \in Nat, NEW arrived \in BOOLEAN
  PROVE  LET d == FinalStage(c, passed, arrived) IN Sound(d) /\ Grows(c, d)
<1> DEFINE t == c.transition /\ ~(c.observer /\ arrived)
           moved == [c EXCEPT !.transition = t]
           played == UpdatePlayback(moved, passed)
           alone == [c EXCEPT !.sent = "keepalive"]
           shown == [played EXCEPT !.sent = "keepalive"]
           flown == [moved EXCEPT !.sent = "keepalive"]
           steered == [c EXCEPT !.sent = "input"]
           d == FinalStage(c, passed, arrived)
<1>1. t \in BOOLEAN
  BY DEF Sound, States
<1>2. \/ d \in {CaptureReplayFrame(alone), CaptureReplayFrame(flown), CaptureReplayFrame(steered)}
      \/ c.play /\ d = shown
  BY DEF FinalStage
<1> HIDE DEF t, d
<1>3. Follows(c, moved)
  BY <1>1, CameraSound, BesideFollows
<1> HIDE DEF moved
<1>4. Follows(c, played)
  BY <1>3, UpdatePlaybackSound, FollowsOn DEF Follows
<1> HIDE DEF played
<1>5. Follows(c, alone) /\ Follows(c, steered)
  BY SentSound, BesideFollows
<1>6. Follows(c, shown) /\ Follows(c, flown)
  BY <1>3, <1>4, SentSound, BesideFollows, FollowsOn DEF Follows
<1> HIDE DEF alone, shown, flown, steered
<1>7. c.play => Sound(shown) /\ Grows(c, shown)
  BY <1>6 DEF Follows, Continues, Grows, Sound, Timeline
<1> QED
  BY <1>2, <1>5, <1>6, <1>7, CaptureAfter DEF d

(***************************************************************************)
(* A frame.                                                                *)
(***************************************************************************)
LEMMA BackSound ==
  ASSUME NEW c, Sound(c)
  PROVE  LET d == HandleBackAction(c) IN Sound(d) /\ SameTimeline(c, d)
<1> DEFINE b == c.scoreboard /\ ~c.scoreCursor
           menu == [c EXCEPT !.teamMenu = FALSE, !.scoreboard = FALSE]
           panel == [c EXCEPT !.settings = FALSE, !.uiMode = FALSE]
           plain == [c EXCEPT !.scoreboard = b, !.scoreCursor = FALSE, !.uiMode = FALSE]
           d == HandleBackAction(c)
<1>1. c \in States /\ Overlays(c) /\ Timeline(c) /\ b \in BOOLEAN
  BY DEF Sound, States
<1>2. \/ c.keyboard /\ d = CloseKeyboardOverlay(c)
      \/ d = ToggleSpectatorMode(c)
      \/ d = menu
      \/ ~c.keyboard /\ c.settings /\ d = panel
      \/ ~c.keyboard /\ ~c.settings /\ d = plain
  BY DEF HandleBackAction, SetUiMode
<1> HIDE DEF b, d
<1>3. Beside(c, menu)
  BY MenuClosedSound
<1>4. panel \in States /\ SameTimeline(c, panel) /\ (~c.keyboard /\ c.settings => Overlays(panel))
  BY <1>1 DEF States, SameTimeline, Overlays
<1>5. plain \in States /\ SameTimeline(c, plain) /\ (~c.keyboard /\ ~c.settings => Overlays(plain))
  BY <1>1 DEF States, SameTimeline, Overlays
<1> HIDE DEF menu, panel, plain
<1>6. Timeline(panel) /\ Timeline(plain)
  BY <1>1, <1>4, <1>5, TimelineKept
<1>7. /\ ~c.keyboard /\ c.settings => Sound(panel)
      /\ ~c.keyboard /\ ~c.settings => Sound(plain)
  BY <1>4, <1>5, <1>6 DEF Sound
<1> QED
  BY <1>2, <1>3, <1>4, <1>5, <1>7, CloseKeyboardSound, ToggleSpectatorSound DEF d, Beside

LEMMA FrameSound ==
  ASSUME NEW c, Sound(c), NEW in, NEW passed \in Nat, NEW arrived \in BOOLEAN
  PROVE  LET d == FrameOf(c, in, passed, arrived) IN
           /\ Sound(d) /\ d.snapshot = c.snapshot
           /\ c.conn = "Connected" /\ c.snapshot /\ c.rec /\ d.rec => d.frames = c.frames + 1
<1> DEFINE mouse == MouseStage(c, in)
           score == ScoreboardStage(mouse, in)
           play == TeamAndSpectatorStage(score, in)
           points == CheckpointStage(play, in)
           menu == TeamMenuStage(points, in, ~c.uiMode)
           menus == SettingsStage(menu, in)
           timeline == RecordingStage(menus, in)
           p == IF StartsPlayback(menus, in) THEN 0 ELSE passed
           toggled == [KeyboardStage(c) EXCEPT !.sent = "keepalive"]
           held == [c EXCEPT !.sent = "keepalive"]
<1>1. CASE TogglesKeyboard(c, in)
  <2> DEFINE k == KeyboardStage(c)
  <2>1. FrameOf(c, in, passed, arrived) = CaptureReplayFrame(toggled)
    BY <1>1 DEF FrameOf
  <2>2. ~c.settings /\ ~c.scoreCursor
    BY <1>1 DEF TogglesKeyboard
  <2>3. Sound(k) /\ SameTimeline(c, k)
    BY <2>2, KeyboardStageSound
  <2> HIDE DEF k
  <2>4. Beside(k, toggled)
    BY <2>3, SentSound DEF k
  <2> HIDE DEF toggled
  <2> QED
    BY <2>1, <2>3, <2>4, CaptureAfter, BesideFollows DEF SameTimeline, Grows
<1>2. CASE ~TogglesKeyboard(c, in) /\ c.keyboard
  <2>1. FrameOf(c, in, passed, arrived) = CaptureReplayFrame(held)
    BY <1>2 DEF FrameOf
  <2>2. Beside(c, held)
    BY SentSound
  <2> HIDE DEF held
  <2> QED
    BY <2>1, <2>2, CaptureAfter, BesideFollows DEF Grows
<1>3. CASE ~TogglesKeyboard(c, in) /\ ~c.keyboard
  <2>1. Sound(mouse) /\ SameTimeline(c, mouse) /\ ~mouse.keyboard
    BY <1>3, MouseStageSound
  <2> HIDE DEF mouse
  <2>2. Sound(score) /\ SameTimeline(c, score) /\ ~score.keyboard
    BY <2>1, ScoreboardStageSound, SameTimelineOn
  <2> HIDE DEF score
  <2>3. Sound(play) /\ SameTimeline(c, play) /\ ~play.keyboard
    BY <2>2, TeamAndSpectatorSound, SameTimelineOn
  <2> HIDE DEF play
  <2>4. Sound(points) /\ SameTimeline(c, points) /\ ~points.keyboard
    BY <2>3, CheckpointStageSound, SameTimelineOn DEF Beside
  <2> HIDE DEF points
  <2>5. Sound(menu) /\ SameTimeline(c, menu) /\ ~menu.keyboard
    BY <2>4, MenusSound, SameTimelineOn DEF Beside
  <2> HIDE DEF menu
  <2>6. Sound(menus) /\ SameTimeline(c, menus)
    BY <2>5, MenusSound, SameTimelineOn DEF Beside
  <2> HIDE DEF menus
  <2>7. /\ Sound(timeline) /\ timeline.conn = menus.conn /\ timeline.snapshot = menus.snapshot
        /\ timeline.rec /\ menus.rec => timeline.frames = menus.frames
    BY <2>6, RecordingStageSound
  <2> HIDE DEF timeline
  <2>8. p \in Nat
    OBVIOUS
  <2> HIDE DEF p
  <2> DEFINE d == FinalStage(timeline, p, arrived)
  <2>9. FrameOf(c, in, passed, arrived) = d
    BY <1>3 DEF FrameOf, mouse, score, play, points, menu, menus, timeline, p
  <2>10. Sound(d) /\ Grows(timeline, d)
    BY <2>7, <2>8, FinalStageSound
  <2> HIDE DEF d
  <2> QED
    BY <2>6, <2>7, <2>9, <2>10 DEF Grows, SameTimeline
<1> QED
  BY <1>1, <1>2, <1>3

(***************************************************************************)
(* The invariant.                                                          *)
(***************************************************************************)
LEMMA FreshSound ==
  ASSUME NEW stored \in Nat
  PROVE  Fresh(stored) \in States /\ Sound(Fresh(stored)) /\ Fresh(stored).conn = "Connecting"
BY DEF Fresh, States, Teams, Sound, Overlays, Timeline

LEMMA ReceiveSound ==
  ASSUME ModesInv, NEW team \in Teams, NEW alive \in BOOLEAN, ReceiveSnapshot(team, alive)
  PROVE  ModesInv' /\ client'.sent = "none"
<1> DEFINE d == [client EXCEPT !.conn = "Connected", !.snapshot = TRUE,
                               !.team = team, !.alive = alive, !.sent = "none"]
<1>1. client \in States /\ Overlays(client) /\ Timeline(client)
  BY DEF ModesInv, Sound
<1>2. d \in States
  BY <1>1 DEF States
<1>3. /\ SameOverlays(client, d) /\ d.snapshot /\ d.sent = "none"
      /\ d.rec = client.rec /\ d.play = client.play /\ d.playing = client.playing
      /\ d.index = client.index /\ d.frames = client.frames
  BY <1>1 DEF States, SameOverlays
<1>4. client' = SyncSessionSpectator(d, team)
  BY DEF ReceiveSnapshot
<1> HIDE DEF d
<1>5. Sound(d)
  BY <1>1, <1>2, <1>3, OverlaysKept DEF Sound, Timeline
<1>6. Beside(d, client') /\ client'.sent = d.sent
  BY <1>4, <1>5, SyncSound
<1> QED
  BY <1>3, <1>6 DEF ModesInv, Beside, SameTimeline

LEMMA UpdateSound ==
  ASSUME ModesInv, NEW in, Update(in)
  PROVE  /\ ModesInv'
         /\ client.rec /\ client'.rec => client'.frames = client.frames + 1
<1> DEFINE backed == IF "quit" \in in THEN HandleBackAction(client) ELSE client
<1>1. Sound(backed) /\ SameTimeline(client, backed)
  BY BackSound, BesideSelf DEF ModesInv, Beside
<1>2. /\ \E passed \in 0 .. 2, arrived \in BOOLEAN : client' = FrameOf(backed, in, passed, arrived)
      /\ client.conn = "Connected"
  BY DEF Update
<1> HIDE DEF backed
<1>3. PICK passed \in 0 .. 2, arrived \in BOOLEAN : client' = FrameOf(backed, in, passed, arrived)
  BY <1>2
<1>4. passed \in Nat
  OBVIOUS
<1>5. client.snapshot
  BY <1>2 DEF ModesInv
<1>6. /\ Sound(client') /\ client'.snapshot = backed.snapshot
      /\ backed.conn = "Connected" /\ backed.snapshot /\ backed.rec /\ client'.rec
           => client'.frames = backed.frames + 1
  BY <1>1, <1>3, <1>4, FrameSound
<1> QED
  BY <1>1, <1>2, <1>5, <1>6 DEF ModesInv, SameTimeline

LEMMA EndSound ==
  ASSUME ModesInv, EndSession
  PROVE  ModesInv' /\ ~client'.rec
<1> DEFINE f == Fresh(client.checkpoints)
           d == [f EXCEPT !.conn = "Ended"]
<1>1. client.checkpoints \in Nat
  BY DEF ModesInv, Sound, States
<1>2. f \in States /\ Sound(f) /\ ~f.rec
  BY <1>1, FreshSound DEF Fresh
<1>3. client' = d
  BY DEF EndSession
<1> HIDE DEF f
<1>4. d \in States
  BY <1>2 DEF States
<1>5. /\ SameOverlays(f, d) /\ d.conn = "Ended"
      /\ d.rec = f.rec /\ d.play = f.play /\ d.playing = f.playing
      /\ d.index = f.index /\ d.frames = f.frames
  BY <1>2 DEF States, SameOverlays
<1> HIDE DEF d
<1>6. Sound(d)
  BY <1>2, <1>4, <1>5, OverlaysKept DEF Sound, Timeline
<1> QED
  BY <1>2, <1>3, <1>5, <1>6 DEF ModesInv

\* A recording that runs on through a step that sends something has one frame more.
OneFrameMore ==
  client.rec /\ client'.rec /\ client'.sent # "none" => client'.frames = client.frames + 1

LEMMA ModesInvInductive ==
  ModesInv /\ [ModesNext]_client => ModesInv' /\ (OneFrameMore \/ UNCHANGED client)
<1> SUFFICES ASSUME ModesInv, [ModesNext]_client
             PROVE  ModesInv' /\ (OneFrameMore \/ UNCHANGED client)
  OBVIOUS
<1>1. CASE \E team \in Teams, alive \in BOOLEAN : ReceiveSnapshot(team, alive)
  BY <1>1, ReceiveSound DEF OneFrameMore
<1>2. CASE \E in \in Inputs : Update(in)
  BY <1>2, UpdateSound DEF OneFrameMore
<1>3. CASE EndSession
  BY <1>3, EndSound DEF OneFrameMore
<1>4. CASE UNCHANGED client
  BY <1>4 DEF ModesInv
<1> QED
  BY <1>1, <1>2, <1>3, <1>4 DEF ModesNext

\* Every reachable state of the client is sound: each stage of ClientRuntime::update
\* hands the next one what it relies on, from any set of keys.
THEOREM ModesSound == ModesSpec => []ModesInv
<1>1. ModesInit => ModesInv
  <2> SUFFICES ASSUME NEW stored \in 0 .. MaxCheckpoints, client = Fresh(stored)
               PROVE ModesInv
    BY DEF ModesInit
  <2>1. stored \in Nat
    BY BoundsAssumption
  <2> QED
    BY <2>1, FreshSound DEF ModesInv
<1> QED
  BY <1>1, ModesInvInductive, PTL DEF ModesSpec

\* No overlay that is worked with the mouse shows while the game holds the mouse,
\* and no two share it, whatever keys the frames carry (openKeyboardOverlay,
\* closeKeyboardOverlay, handleBackAction and the stages of update).
THEOREM OverlaysSound == ModesSpec => []OverlaysFreeCursor
<1>1. ModesInv => OverlaysFreeCursor
  BY DEF ModesInv, Sound, Overlays, OverlaysFreeCursor
<1> QED
  BY <1>1, ModesSound, PTL

\* Recording and playback exclude each other and the frame shown exists, for
\* recordings of any length and any seek (ReplayTimeline).
THEOREM PlaybackSound == ModesSpec => []PlaybackWithinRecording
<1>1. ModesInv => PlaybackWithinRecording
  BY DEF ModesInv, Sound, Timeline, PlaybackWithinRecording
<1> QED
  BY <1>1, ModesSound, PTL

\* While a recording runs every frame adds exactly one, dead, in a menu or
\* watching, for recordings of any length (captureReplayFrame at each return of update).
THEOREM RecordingSound == ModesSpec => RecordingHasNoGaps
<1>1. ModesInv /\ [ModesNext]_client
        => [client.rec /\ client'.rec /\ client'.sent # "none"
              => client'.frames = client.frames + 1]_client
  BY ModesInvInductive DEF OneFrameMore
<1> QED
  BY <1>1, ModesSound, PTL DEF ModesSpec, RecordingHasNoGaps

(***************************************************************************)
(* Escape.  A press takes the first of the four groups that is open and    *)
(* opens none before it, once a spectator's camera is locked.              *)
(***************************************************************************)
Locked(c) == Sound(c) /\ (c.team = "Spectator" => c.locked)
NoKeyboard(c) == Locked(c) /\ ~c.keyboard
NoCamera(c) == NoKeyboard(c) /\ ~(c.observer /\ ~c.locked)
NoMenu(c) == NoCamera(c) /\ ~c.teamMenu

\* A press that leaves the free camera of a player.
LEMMA BackFromCamera ==
  ASSUME NEW c, NoKeyboard(c), c.observer, ~c.locked
  PROVE  NoCamera(ToggleSpectatorMode(c))
<1> DEFINE closed == [c EXCEPT !.teamMenu = FALSE, !.scoreboard = FALSE]
           e == [closed EXCEPT !.observer = FALSE, !.transition = FALSE]
           d == ToggleSpectatorMode(c)
<1>1. c \in States /\ Sound(c) /\ ~c.keyboard /\ c.team # "Spectator"
  BY DEF NoKeyboard, Locked, Sound
<1>2. /\ closed \in States /\ closed.observer /\ ~closed.locked /\ closed.team = c.team
  BY <1>1 DEF States
<1>3. d = IF c.play THEN ToggleSpectatorInPlayback(closed) ELSE ToggleSpectatorLive(closed)
  BY DEF ToggleSpectatorMode
<1> HIDE DEF closed, d
<1>4. d = e
  BY <1>1, <1>2, <1>3 DEF ToggleSpectatorInPlayback, ToggleSpectatorLive
<1>5. ~e.observer /\ e.team = closed.team
  BY <1>2 DEF States
<1> HIDE DEF e
<1>6. Sound(d) /\ ~d.keyboard
  BY <1>1, ToggleSpectatorSound DEF d, Beside
<1>7. ~d.observer /\ d.team # "Spectator"
  BY <1>1, <1>2, <1>4, <1>5
<1>8. NoCamera(d)
  BY <1>6, <1>7 DEF NoCamera, NoKeyboard, Locked
<1> QED
  BY <1>8 DEF d

\* What a press without keyboard map and free camera closes, field by field.
LEMMA BackFromMenus ==
  ASSUME NEW c, NoCamera(c)
  PROVE  LET d == BackOnce(c) IN
           /\ NoMenu(d)
           /\ ~c.teamMenu => ~HandlesBack(d)
<1> DEFINE b == c.scoreboard /\ ~c.scoreCursor
           menu == [c EXCEPT !.teamMenu = FALSE, !.scoreboard = FALSE]
           panel == [c EXCEPT !.settings = FALSE, !.uiMode = FALSE]
           plain == [c EXCEPT !.scoreboard = b, !.scoreCursor = FALSE, !.uiMode = FALSE]
           d == BackOnce(c)
<1>1. /\ c \in States /\ Sound(c) /\ ~c.keyboard /\ ~(c.observer /\ ~c.locked)
      /\ c.team = "Spectator" => c.locked
      /\ c.settings => ~c.scoreCursor
  BY DEF NoCamera, NoKeyboard, Locked, Sound, Overlays
<1>2. d = IF HandlesBack(c) THEN HandleBackAction(c) ELSE c
  BY DEF BackOnce
<1>3. HandlesBack(c) <=> c.teamMenu \/ c.settings \/ c.scoreCursor \/ c.uiMode
  BY <1>1 DEF HandlesBack
<1>4. HandleBackAction(c) = IF c.teamMenu THEN menu ELSE IF c.settings THEN panel ELSE plain
  BY <1>1 DEF HandleBackAction, SetUiMode
<1>5. Sound(d)
  BY <1>1, <1>2, BackSound
<1> HIDE DEF b, d
<1>6. /\ ~menu.teamMenu /\ menu.keyboard = c.keyboard
      /\ menu.observer = c.observer /\ menu.locked = c.locked /\ menu.team = c.team
  BY <1>1 DEF States
<1>7. /\ ~panel.settings /\ ~panel.uiMode /\ panel.scoreCursor = c.scoreCursor
      /\ panel.teamMenu = c.teamMenu /\ panel.keyboard = c.keyboard
      /\ panel.observer = c.observer /\ panel.locked = c.locked /\ panel.team = c.team
  BY <1>1 DEF States
<1>8. /\ ~plain.scoreCursor /\ ~plain.uiMode /\ plain.settings = c.settings
      /\ plain.teamMenu = c.teamMenu /\ plain.keyboard = c.keyboard
      /\ plain.observer = c.observer /\ plain.locked = c.locked /\ plain.team = c.team
  BY <1>1 DEF States
<1> HIDE DEF menu, panel, plain
<1>9. d \in {c, menu, panel, plain}
  BY <1>2, <1>4
<1>10. d.keyboard = c.keyboard /\ d.observer = c.observer /\ d.locked = c.locked /\ d.team = c.team
  BY <1>6, <1>7, <1>8, <1>9
<1>11. NoCamera(d)
  BY <1>1, <1>5, <1>10 DEF NoCamera, NoKeyboard, Locked
<1>12. ~d.teamMenu
  BY <1>2, <1>3, <1>4, <1>6, <1>7, <1>8
<1>13. ~c.teamMenu => ~d.settings /\ ~d.scoreCursor /\ ~d.uiMode
  BY <1>1, <1>2, <1>3, <1>4, <1>7, <1>8
<1>14. ~c.teamMenu => ~HandlesBack(d)
  BY <1>1, <1>10, <1>12, <1>13 DEF HandlesBack
<1> QED
  BY <1>11, <1>12, <1>14 DEF NoMenu, d

LEMMA FirstBack ==
  ASSUME NEW c, Locked(c)
  PROVE  NoKeyboard(BackOnce(c))
<1>1. CASE c.keyboard
  <2> DEFINE d == CloseKeyboardOverlay(c)
  <2>1. HandleBackAction(c) = d
    BY <1>1, Zenon DEF HandleBackAction
  <2>2. Sound(d) /\ ~d.keyboard /\ d.locked = c.locked /\ d.team = c.team
    BY <1>1, CloseKeyboardSound DEF Locked
  <2> HIDE DEF d
  <2>3. BackOnce(c) = d
    BY <1>1, <2>1 DEF BackOnce, HandlesBack
  <2> QED
    BY <2>2, <2>3 DEF Locked, NoKeyboard
<1>2. CASE ~c.keyboard /\ c.observer /\ ~c.locked
  <2>1. HandleBackAction(c) = ToggleSpectatorMode(c) /\ HandlesBack(c)
    BY <1>2, Zenon DEF HandleBackAction, HandlesBack
  <2>2. NoKeyboard(c)
    BY <1>2 DEF NoKeyboard
  <2> QED
    BY <1>2, <2>1, <2>2, BackFromCamera DEF NoCamera, BackOnce
<1>3. CASE ~c.keyboard /\ ~(c.observer /\ ~c.locked)
  <2>1. NoCamera(c)
    BY <1>3 DEF NoCamera, NoKeyboard
  <2> QED
    BY <2>1, BackFromMenus DEF NoMenu, NoCamera
<1> QED
  BY <1>1, <1>2, <1>3

LEMMA SecondBack ==
  ASSUME NEW c, NoKeyboard(c)
  PROVE  NoCamera(BackOnce(c))
<1>1. CASE c.observer /\ ~c.locked
  <2>1. HandleBackAction(c) = ToggleSpectatorMode(c) /\ HandlesBack(c)
    BY <1>1, Zenon DEF HandleBackAction, HandlesBack, NoKeyboard
  <2> QED
    BY <1>1, <2>1, BackFromCamera DEF BackOnce
<1>2. CASE ~(c.observer /\ ~c.locked)
  <2>1. NoCamera(c)
    BY <1>2 DEF NoCamera
  <2> QED
    BY <2>1, BackFromMenus DEF NoMenu
<1> QED
  BY <1>1, <1>2

\* The lock of a spectator's camera follows the team of the snapshot.
LEMMA SyncLocks ==
  ASSUME NEW c, Sound(c)
  PROVE  Locked(SyncSessionSpectator(c, c.team))
<1> DEFINE d == SyncSessionSpectator(c, c.team)
           t == c.transition /\ ~c.observer
           on == [c EXCEPT !.observer = TRUE, !.locked = TRUE, !.transition = FALSE]
           off == [c EXCEPT !.observer = FALSE, !.locked = FALSE, !.transition = t]
<1>1. c \in States
  BY DEF Sound
<1>2. /\ c.team = "Spectator" => (d = c /\ c.locked) \/ d = on
      /\ c.team # "Spectator" => d = c \/ d = off
  BY DEF SyncSessionSpectator
<1>3. Sound(d)
  BY SyncSound DEF Beside
<1> HIDE DEF d, t
<1>4. on.team = c.team /\ on.locked /\ off.team = c.team
  BY <1>1 DEF States
<1> HIDE DEF on, off
<1>5. Locked(d)
  BY <1>2, <1>3, <1>4 DEF Locked
<1> QED
  BY <1>5 DEF d

\* From every reachable state four presses of Escape close everything that takes
\* one, and the next leaves the session (handleBackAction, toggleSpectatorMode).
THEOREM EscapeLeaves == ModesSpec => []BackLeaves
<1>1. ModesInv => BackLeaves
  <2> SUFFICES ASSUME ModesInv PROVE BackLeaves
    OBVIOUS
  <2> DEFINE c0 == SyncSessionSpectator(client, client.team)
             c1 == BackOnce(c0)
             c2 == BackOnce(c1)
             c3 == BackOnce(c2)
             c4 == BackOnce(c3)
  <2>1. Locked(c0)
    BY SyncLocks DEF ModesInv
  <2>2. BackLeaves <=> ~HandlesBack(c4)
    BY DEF BackLeaves
  <2> HIDE DEF c0
  <2>3. NoKeyboard(c1)
    BY <2>1, FirstBack
  <2> HIDE DEF c1
  <2>4. NoCamera(c2)
    BY <2>3, SecondBack
  <2> HIDE DEF c2
  <2>5. NoMenu(c3)
    BY <2>4, BackFromMenus
  <2> HIDE DEF c3
  <2>6. NoCamera(c3) /\ ~c3.teamMenu
    BY <2>5 DEF NoMenu
  <2>7. ~HandlesBack(c4)
    BY <2>6, BackFromMenus
  <2> QED
    BY <2>2, <2>7
<1> QED
  BY <1>1, ModesSound, PTL
=============================================================================
