----------------------------- MODULE Application -----------------------------
(***************************************************************************)
(* The program around the sessions (main in main_3d.cpp, app::AppFlow,     *)
(* MainMenu, LevelSelectMenu): which screen is shown, the screens behind   *)
(* it, the session that is being started or runs, and the mouse cursor.    *)
(* The screens are those of the modules extended here; of a session there  *)
(* is what the shell sees of it (SessionFlowController::state).            *)
(* Left out: status messages, links to other programs, and the back key    *)
(* held over from one screen to the next, of which a press is seen once.   *)
(***************************************************************************)
EXTENDS SessionMenu, ReplayStudio, LevelEditor, Preferences

VARIABLES
  mode,      \* currentMode
  history,   \* navigationHistory
  target,    \* what a level is selected for
  view,      \* the main menu's: "root" or "multiplayer"
  flow,      \* the session: "none", "starting", "running" or "failed"
  cursor     \* sessionCursorCaptured

shellVars == <<mode, history, target, view, flow, cursor>>
vars == <<shellVars, menu, studioVars, editorVars, prefsVars>>

Init ==
  /\ mode = "main" /\ history = <<>> /\ target = "none" /\ view = "root"
  /\ flow = "none" /\ cursor = FALSE
  /\ menu = MenuClosed /\ FilesInit /\ studio = Closed /\ LevelsInit /\ editor = EditorClosed
  /\ PrefsInit

-----------------------------------------------------------------------------
(* Navigation. *)

Push(next) == history' = Append(history, mode) /\ mode' = next

\* Mutant: what a level was selected for is not forgotten.
MutPop == mode' = Last(history) /\ history' = Front(history) /\ cursor' = FALSE /\ UNCHANGED target

\* popMenuMode; discardScreenForMode forgets what a level was selected for.
Pop ==
  /\ mode' = Last(history) /\ history' = Front(history)
  /\ target' = IF mode = "levels" THEN "none" ELSE target
  /\ cursor' = FALSE

\* returnToMainMenuFromSession and restoreMenuShell
ToMainMenu ==
  /\ mode' = "main" /\ history' = <<>> /\ target' = "none" /\ view' = "root"
  /\ flow' = "none" /\ cursor' = FALSE
  /\ menu' = MenuClosed /\ studio' = Closed /\ editor' = EditorClosed
  /\ settings' = SettingsClosed /\ screen' = ScreenClosed
  /\ UNCHANGED <<files, kept, saved, levels, used, stored, characters, created>>

\* The program is closed or crashes, and is run again.
Restart ==
  /\ mode' = "main" /\ history' = <<>> /\ target' = "none" /\ view' = "root"
  /\ flow' = "none" /\ cursor' = FALSE
  /\ menu' = MenuClosed /\ studio' = Closed /\ editor' = EditorClosed
  /\ settings' = SettingsClosed /\ screen' = ScreenClosed
  /\ used' = stored
  /\ UNCHANGED <<files, kept, saved, levels, stored, characters, created>>

OtherScreens == <<studioVars, editorVars, prefsVars>>

-----------------------------------------------------------------------------
(* The main menu and the level selection. *)

SwitchView ==
  /\ mode = "main" /\ view' = IF view = "root" THEN "multiplayer" ELSE "root"
  /\ UNCHANGED <<mode, history, target, flow, cursor, menu, OtherScreens>>

OpenLevels ==
  /\ mode = "main"
  /\ target' \in IF view = "root" THEN {"study", "editor"} ELSE {"host"}
  /\ Push("levels")
  /\ UNCHANGED <<view, flow, cursor, menu, OtherScreens>>

OpenJoin ==
  /\ mode = "main" /\ view = "multiplayer"
  /\ menu' = NewMenu("join", 0)
  /\ target' = "none" /\ Push("session")
  /\ UNCHANGED <<view, flow, cursor, OtherScreens>>

OpenScreen ==
  /\ mode = "main" /\ view = "root" /\ target' = "none"
  /\ \/ Push("replays") /\ Open /\ UNCHANGED <<editorVars, prefsVars>>
     \/ Push("characters") /\ screen' = OpenedScreen
        /\ UNCHANGED <<studioVars, editorVars, OfSettings, characters, created>>
     \/ Push("settings") /\ settings' = OpenedSettings
        /\ UNCHANGED <<studioVars, editorVars, used, stored, OfCharacters>>
  /\ UNCHANGED <<view, flow, cursor, menu>>

LeaveLevels ==
  mode = "levels" /\ Pop /\ UNCHANGED <<view, flow, menu, OtherScreens>>

\* AppFlow::startSession and adoptSessionStart; a study that cannot be started ends in the
\* main menu.
ChooseLevel ==
  /\ mode = "levels"
  /\ \/ /\ target = "host"
        /\ \E slot \in Slots : menu' = NewMenu("host", slot)
        /\ Push("session") /\ UNCHANGED <<target, view, flow, cursor, OtherScreens>>
     \/ /\ target = "study" /\ flow' = "starting"
        /\ Push("study") /\ UNCHANGED <<target, view, cursor, menu, OtherScreens>>
     \/ target = "study" /\ ToMainMenu
     \/ /\ target = "editor"
        /\ \E slot \in Slots : editor' = OpenedEditor(slot)
        /\ Push("editor")
        /\ UNCHANGED <<target, view, flow, cursor, menu, levels, studioVars, prefsVars>>

-----------------------------------------------------------------------------
(* Starting and playing a session. *)

UseMenu ==
  /\ mode = "session" /\ flow = "none" /\ MenuKeys
  /\ UNCHANGED <<shellVars, OtherScreens>>

GoBackInMenu ==
  /\ mode = "session" /\ flow = "none" /\ Submits /\ menu' = BackToSetup(menu)
  /\ UNCHANGED <<shellVars, OtherScreens>>

\* Also while the session starts, which ends it.
LeaveMenu ==
  /\ mode = "session" /\ flow # "running" /\ menu.step = "setup"
  /\ menu' = MenuClosed /\ flow' = "none" /\ Pop
  /\ UNCHANGED <<view, OtherScreens>>

\* restoreRetryableMultiplayerSetup
Retry(m) == menu' = WithStatus(m, FALSE) /\ flow' = "none" /\ cursor' = FALSE

SubmitMenu ==
  /\ mode = "session" /\ flow = "none" /\ Submits
  /\ \/ menu' = WithStatus(menu, TRUE) /\ flow' = "starting" /\ cursor' = FALSE
     \/ Retry(menu)
  /\ UNCHANGED <<mode, history, target, view, OtherScreens>>

\* A frame in which the session, which has failed or not, is not running: the menu is busy,
\* and answers to Back alone.
StartSession ==
  /\ mode = "session" /\ flow \in {"starting", "failed"}
  /\ \E m \in {WithStatus(menu, TRUE)}
               \cup (IF menu.step = "team" THEN {BackToSetup(WithStatus(menu, TRUE))} ELSE {}) :
       \/ Retry(m)
       \/ flow = "starting" /\ flow' = "running" /\ cursor' = TRUE /\ menu' = m
       \/ flow = "starting" /\ menu' = WithStatus(m, TRUE) /\ UNCHANGED <<flow, cursor>>
  /\ UNCHANGED <<mode, history, target, view, OtherScreens>>

BrowserGoesOn ==
  /\ mode = "session" /\ flow = "starting" /\ Listens
  /\ UNCHANGED <<shellVars, OtherScreens>>

\* It ends at the user's wish or for being rejected or timed out, and fails for its sockets.
PlaySession ==
  /\ mode \in {"session", "study"} /\ flow = "running"
  /\ \/ flow' = "failed" /\ cursor' = TRUE
        /\ UNCHANGED <<mode, history, target, view, menu, OtherScreens>>
     \/ ToMainMenu

StartStudy ==
  /\ mode = "study" /\ flow \in {"starting", "failed"}
  /\ \/ flow = "starting" /\ flow' = "running" /\ cursor' = TRUE
        /\ UNCHANGED <<mode, history, target, view, menu, OtherScreens>>
     \/ ToMainMenu

LeaveStudy ==
  /\ mode = "study" /\ flow \in {"starting", "failed"}
  /\ flow' = "none" /\ Pop
  /\ UNCHANGED <<view, menu, OtherScreens>>

-----------------------------------------------------------------------------
(* The other screens. *)

UseScreen ==
  \/ mode = "replays" /\ StudioKeys /\ UNCHANGED <<shellVars, menu, editorVars, prefsVars>>
  \/ mode = "editor" /\ EditorKeys /\ UNCHANGED <<shellVars, menu, studioVars, prefsVars>>
  \/ mode = "settings" /\ SettingsKeys /\ UNCHANGED <<shellVars, menu, studioVars, editorVars>>
  \/ mode = "characters" /\ ScreenKeys /\ UNCHANGED <<shellVars, menu, studioVars, editorVars>>

LeavesScreen ==
  /\ \/ mode = "replays" /\ Back /\ UNCHANGED <<editorVars, prefsVars>>
     \/ mode = "editor" /\ EditorBack /\ UNCHANGED <<studioVars, prefsVars>>
     \/ mode = "settings" /\ LeaveSettings /\ UNCHANGED <<studioVars, editorVars>>
     \/ mode = "characters" /\ LeaveScreen /\ UNCHANGED <<studioVars, editorVars>>
  /\ Pop /\ UNCHANGED <<view, flow, menu>>

Next ==
  \/ SwitchView \/ OpenLevels \/ OpenJoin \/ OpenScreen \/ LeaveLevels \/ ChooseLevel
  \/ UseMenu \/ GoBackInMenu \/ LeaveMenu \/ SubmitMenu \/ StartSession \/ BrowserGoesOn
  \/ PlaySession \/ StartStudy \/ LeaveStudy \/ UseScreen \/ LeavesScreen \/ Restart

Spec == Init /\ [][Next]_vars

-----------------------------------------------------------------------------
(* Properties. *)

Behind == ToSet(history) \cup {mode}

\* Whatever screens are opened and left in whatever order, and whenever a session fails or
\* ends: no session is left behind a menu, while one starts its menu takes no input, a level is
\* always selected for something, a screen exists just while it is shown or behind the one that
\* is, each once, and the cursor is captured only by a session or from inside a replay
\* (main, popMenuMode, restoreMenuShell, adoptSessionStart).
ShellIsSound ==
  /\ flow # "none" => mode \in {"session", "study"}
  /\ mode = "study" => flow # "none"
  /\ mode = "session" /\ flow = "starting" => menu.busy
  /\ flow = "none" /\ menu.open => ~menu.busy
  /\ (target # "none") <=> ("levels" \in Behind)
  /\ menu.open <=> ("session" \in Behind)
  /\ editor.open <=> ("editor" \in Behind)
  /\ settings.open <=> ("settings" \in Behind)
  /\ screen.open <=> ("characters" \in Behind)
  /\ studio.open => "replays" \in Behind
  /\ Cardinality(Behind) = Len(history) + 1 /\ (history # <<>> => history[1] = "main")
  /\ cursor => flow # "none"
  /\ StudioFreesCursor
=============================================================================
