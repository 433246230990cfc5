---------------------------- MODULE ReplayStudio ----------------------------
(***************************************************************************)
(* The screen over the saved replays (ReplayStudio): the library and its   *)
(* rename and delete dialogs, the playback of what is loaded, the view     *)
(* from inside a command replay with its cameras and checkpoints, and the  *)
(* files under all of it, whose operations may fail and which a crash may  *)
(* leave halfway.                                                          *)
(* One key acts per frame, and time passes in frames of its own.  Left     *)
(* out: titles, drawing, hovering, the ghosts, interpolation and transport *)
(* display toggles, and the geometry of cameras.                           *)
(***************************************************************************)
EXTENDS Integers, Sequences, SequencesExt, FiniteSetsExt

CONSTANTS
  Commands, Legacies,   \* recordings: of commands, of frames (numbers; higher is newer)
  WithControl,          \* the command recordings with a control lane
  LastTick,             \* of each recording, its last tick or frame, from 0
  Present(_, _),        \* the actors in a command recording at a tick
  SeekStep,             \* kSeekCommandTickCount, kSeekFrameCount
  MaxCheckpoints, MaxPaths   \* bounds

Recordings == Commands \cup Legacies

ASSUME StudioAssumption ==
  /\ MaxPaths \in Nat /\ Recordings \subseteq 1..MaxPaths /\ Commands \cap Legacies = {}
  /\ LastTick \in [Recordings -> Nat] /\ SeekStep \in Nat /\ MaxCheckpoints \in Nat
  /\ \A r \in Commands : \A t \in 0..LastTick[r] : Present(r, t) \subseteq Nat

None == 0
Nobody == -1
Tracks == {"truth", "control"}
Cameras == {"first", "third", "free"}

VARIABLES
  files,    \* on disk: [path, rec, temp]; a temporary file is in no library
  kept,     \* history: the recordings the user has not deleted
  saved,    \* the number of checkpoints that can be read from their file
  studio    \* the open screen, or Closed

studioVars == <<files, kept, saved, studio>>

Closed == [open |-> FALSE]
Unloaded == [path |-> None, rec |-> None]

FilesInit ==
  /\ files = {[path |-> r, rec |-> r, temp |-> FALSE] : r \in Recordings}
  /\ kept = Recordings /\ saved = 0

Listed == {f \in files : ~f.temp}
Newer(f, g) == f.rec > g.rec \/ (f.rec = g.rec /\ f.path < g.path)

\* refreshLibrary: the newest first; the selection keeps its index.
Library(fs) == SetToSortSeq({f \in fs : ~f.temp}, Newer)
ClampedTo(n, low, high) == IF n < low THEN low ELSE IF n > high THEN high ELSE n
Refreshed(s, fs) ==
  [s EXCEPT !.library = Library(fs),
            !.selected = IF Library(fs) = <<>> THEN 1 ELSE ClampedTo(@, 1, Len(Library(fs)))]

Fresh == [open |-> TRUE, library |-> <<>>, selected |-> 1, dialog |-> "none",
          loaded |-> Unloaded, at |-> 0, playing |-> FALSE, track |-> "truth",
          inside |-> FALSE, settings |-> FALSE, cursorCaptured |-> FALSE,
          camera |-> "first", follow |-> Nobody,
          checkpoints |-> 0, checkpoint |-> 0, moving |-> FALSE]

Open ==
  /\ ~studio.open
  /\ studio' = Refreshed(Fresh, files)
  /\ UNCHANGED <<files, kept, saved>>

\* A frame of the open screen that leaves the files alone.
Becomes(s) == studio' = s /\ UNCHANGED <<files, kept, saved>>

CommandLoaded(s) == s.loaded.rec \in Commands
End(s) == LastTick[s.loaded.rec]
InLibrary == studio.open /\ ~studio.inside /\ studio.dialog = "none"
Inside == studio.open /\ studio.inside

-----------------------------------------------------------------------------
(* Loading and playing. *)

Selected(s) == s.library[s.selected]
Readable(f) == f \in Listed

FirstOf(actors) == IF actors = {} THEN Nobody ELSE Min(actors)

\* ensureReplayFollowTarget
Followed(s) ==
  IF CommandLoaded(s) /\ s.follow \notin Present(s.loaded.rec, s.at)
  THEN [s EXCEPT !.follow = FirstOf(Present(s.loaded.rec, s.at))] ELSE s

\* loadCommandReplay and loadLegacyReplay; what cannot be read unloads what was loaded.
Loaded(s) ==
  LET f == Selected(s)
      loaded == [s EXCEPT !.loaded = [path |-> f.path, rec |-> f.rec], !.at = 0, !.playing = TRUE,
                          !.inside = FALSE, !.settings = FALSE]
  IN
  IF ~Readable(f) THEN [s EXCEPT !.loaded = Unloaded, !.at = 0, !.playing = FALSE, !.inside = FALSE]
  ELSE IF f.rec \in Legacies THEN loaded
  ELSE Followed([loaded EXCEPT !.track = IF f.rec \in WithControl THEN "control" ELSE "truth",
                               !.camera = "first", !.follow = Nobody, !.moving = FALSE])

\* updateCommandPlayback: past the end the library starts again and the inside stops.
Advanced(s) ==
  IF ~s.playing THEN s
  ELSE IF s.at < End(s) THEN [s EXCEPT !.at = @ + 1]
  ELSE IF s.inside THEN [s EXCEPT !.playing = FALSE]
  ELSE [s EXCEPT !.at = IF End(s) = 0 THEN 0 ELSE 1]

\* ReplayTimeline::updatePlayback and the library's loop: one that has been sought or paused
\* at the last frame stays there, playing or not.
LegacyAdvanced(s) ==
  IF ~s.playing \/ s.at >= End(s) THEN {s}
  ELSE IF s.at + 1 = End(s) THEN {[s EXCEPT !.at = @ + 1], [s EXCEPT !.at = 0]}
  ELSE {[s EXCEPT !.at = @ + 1]}

Sought(s, by) ==
  [s EXCEPT !.at = ClampedTo(@ + by, 0, End(s)),
            !.playing = IF CommandLoaded(s) THEN @ ELSE FALSE]

\* resetCommandPlayback goes on playing from the start, ReplayTimeline's stops there.
Restarted(s) == [s EXCEPT !.at = 0, !.playing = IF CommandLoaded(s) THEN @ ELSE FALSE]

\* setCommandTrack
OnTrack(s, track) ==
  IF s.track = track \/ (track = "control" /\ s.loaded.rec \notin WithControl) THEN s
  ELSE Followed([s EXCEPT !.track = track])

OtherTrack(s) == IF s.track = "truth" THEN "control" ELSE "truth"

-----------------------------------------------------------------------------
(* The library. *)

Preview ==
  /\ InLibrary /\ studio.library # <<>>
  /\ \E i \in 1..Len(studio.library) : Becomes(Loaded([studio EXCEPT !.selected = i]))

Refresh == InLibrary /\ Becomes(Refreshed(studio, files))

PlayInLibrary ==
  /\ InLibrary /\ studio.loaded # Unloaded
  /\ \/ Becomes([studio EXCEPT !.playing = ~@])
     \/ Becomes(Restarted(studio))
     \/ \E by \in {-SeekStep, SeekStep} : Becomes(Sought(studio, by))
     \/ CommandLoaded(studio) /\ Becomes(OnTrack(studio, OtherTrack(studio)))

TimePasses ==
  /\ InLibrary /\ studio.loaded # Unloaded
  /\ IF CommandLoaded(studio) THEN Becomes(Advanced(studio))
     ELSE \E s \in LegacyAdvanced(studio) : Becomes(s)

OpenDialog ==
  /\ InLibrary /\ studio.library # <<>>
  /\ \E d \in {"rename", "delete"} : Becomes([studio EXCEPT !.dialog = d])

CancelDialog ==
  studio.open /\ studio.dialog # "none" /\ Becomes([studio EXCEPT !.dialog = "none"])

\* Leaving a frame to the main menu.
Back == InLibrary /\ Becomes(Closed)

-----------------------------------------------------------------------------
(* Renaming and deleting files. *)

Temporary(f) == [f EXCEPT !.temp = TRUE]
Paths == {f.path : f \in files}

\* Mutant: the file is removed before its copy is saved.
MutRenamesOfCommand(f) ==
  {[files |-> files \ {f}, end |-> "error"],
   [files |-> (files \ {Temporary(f)}) \cup {f}, end |-> "done"]}

\* What a rename of command replay f has done to the files when it ends: with an error that
\* ends it, by a crash, or well.  The copy under the new title is saved beside the file, which
\* is removed before the copy takes its name.
RenamesOfCommand(f) ==
  LET cleared == files \ {Temporary(f)}
      copied == cleared \cup {Temporary(f)}
  IN
  {[files |-> cleared, end |-> "error"],              \* the copy could not be saved
   [files |-> copied, end |-> "crash"],
   [files |-> cleared, end |-> "error"],              \* the file could not be removed
   [files |-> copied \ {f}, end |-> "crash"],
   [files |-> copied \ {f}, end |-> "error"],         \* the copy could not be renamed
   [files |-> (copied \ {f, Temporary(f)}) \cup {f}, end |-> "done"]}

\* A legacy recording is saved again at a path of its own, then the old file is removed.
RenamesOfLegacy(f, path) ==
  LET copied == files \cup {[path |-> path, rec |-> f.rec, temp |-> FALSE]} IN
  {[files |-> files, end |-> "error"],
   [files |-> copied, end |-> "crash"],
   [files |-> copied \ {f}, end |-> "done"]}

SelectedPath(s, path) ==
  IF \E i \in 1..Len(s.library) : s.library[i].path = path
  THEN [s EXCEPT !.selected = CHOOSE i \in 1..Len(s.library) : s.library[i].path = path] ELSE s

RenamedTo(f) == IF f.rec \in Commands THEN f.path ELSE Max(Paths) + 1

Renames(f) ==
  IF f.rec \in Commands THEN RenamesOfCommand(f) ELSE RenamesOfLegacy(f, RenamedTo(f))

\* applyRenameSelectedReplay; an error leaves the dialog open, and a file that cannot be
\* read is one.
ApplyRename ==
  /\ studio.open /\ studio.dialog = "rename" /\ Max(Paths) < MaxPaths
  /\ LET f == Selected(studio)
         s == [studio EXCEPT !.dialog = "none",
                             !.loaded.path = IF @ = f.path THEN RenamedTo(f) ELSE @]
     IN
     IF ~Readable(f) THEN UNCHANGED <<files, studio>>
     ELSE \E r \in Renames(f) :
            /\ files' = r.files
            /\ studio' = CASE r.end = "error" -> studio
                           [] r.end = "crash" -> Closed
                           [] r.end = "done" -> SelectedPath(Refreshed(s, r.files), RenamedTo(f))
  /\ UNCHANGED <<kept, saved>>

\* confirmDeleteSelectedReplay
ConfirmDelete ==
  /\ studio.open /\ studio.dialog = "delete"
  /\ LET f == Selected(studio)
         s == [studio EXCEPT !.dialog = "none"]
         cleared == IF studio.loaded.path = f.path
                    THEN [s EXCEPT !.loaded = Unloaded, !.at = 0, !.inside = FALSE, !.settings = FALSE]
                    ELSE s
     IN
     IF Readable(f)
     THEN /\ files' = files \ {f}
          /\ kept' = kept \ {f.rec}
          /\ studio' = Refreshed(cleared, files')
     ELSE UNCHANGED <<files, kept, studio>>
  /\ UNCHANGED saved

-----------------------------------------------------------------------------
(* Inside a command replay. *)

\* enterCommandReplay
Entered(s) ==
  LET t == Followed(IF s.loaded.rec \in WithControl THEN [s EXCEPT !.track = "control"] ELSE s)
  IN [t EXCEPT !.inside = TRUE, !.cursorCaptured = TRUE,
               !.camera = IF t.follow = Nobody THEN "free" ELSE @,
               !.checkpoints = saved, !.checkpoint = IF saved > 0 THEN 1 ELSE 0, !.moving = FALSE]

\* The key opens what is loaded, Enter and the button what is selected.
Enter ==
  /\ InLibrary
  /\ \/ CommandLoaded(studio) /\ Becomes(Entered(studio))
     \/ /\ studio.library # <<>>
        /\ LET s == Loaded(studio) IN Becomes(IF CommandLoaded(s) THEN Entered(s) ELSE s)

\* CheckpointStore::save, whose result nobody looks at: the file may not open and stay as it
\* was, or be emptied and then written only in part.
SavesOf(n) == {saved} \cup 0..n

Exit ==
  /\ Inside
  /\ studio' = [studio EXCEPT !.inside = FALSE, !.moving = FALSE, !.settings = FALSE,
                              !.cursorCaptured = FALSE]
  /\ saved' \in SavesOf(studio.checkpoints)
  /\ UNCHANGED <<files, kept>>

ReleaseCursor ==
  Inside /\ studio.cursorCaptured /\ Becomes([studio EXCEPT !.cursorCaptured = FALSE])

\* The settings open by key and close by key or from within.
ToggleSettings ==
  /\ Inside
  /\ Becomes([studio EXCEPT !.settings = ~@, !.cursorCaptured = studio.settings])

CyclePrevious(s) == IF s.checkpoint <= 1 THEN s.checkpoints ELSE s.checkpoint - 1
CycleNext(s) == IF s.checkpoint >= s.checkpoints THEN 1 ELSE s.checkpoint + 1

PlayInside ==
  /\ Inside
  /\ \/ Becomes([studio EXCEPT !.playing = ~@])
     \/ Becomes(Followed([studio EXCEPT !.at = 0, !.playing = FALSE]))
     \/ \E by \in {-SeekStep, SeekStep} : Becomes(Followed(Sought(studio, by)))
     \/ Becomes(OnTrack(studio, OtherTrack(studio)))
     \/ studio.settings /\ \E track \in Tracks : Becomes(OnTrack(studio, track))

\* updateCommandPlayback, then ensureReplayFollowTarget; a transition of the free camera ends.
TimePassesInside ==
  /\ Inside
  /\ \E moving \in {studio.moving, studio.moving /\ studio.camera # "free"} :
       Becomes([Followed(Advanced(studio)) EXCEPT !.moving = moving])

\* cycleReplayFollowTarget
NextTarget(s) ==
  LET actors == Present(s.loaded.rec, s.at)
      later == {a \in actors : a > s.follow}
  IN
  IF actors = {} THEN [s EXCEPT !.follow = Nobody, !.camera = "free"]
  ELSE [s EXCEPT !.follow = IF s.follow \in actors /\ later # {} THEN Min(later) ELSE Min(actors),
                 !.camera = IF @ = "free" THEN "first" ELSE @]

CycleTarget == Inside /\ Becomes(NextTarget(studio))

\* cycleReplayFollowCamera and toggleReplaySpectatorMode
ChangeCamera ==
  /\ Inside
  /\ \/ Becomes(Followed([studio EXCEPT !.moving = FALSE,
                                        !.camera = IF @ = "first" THEN "third" ELSE "first"]))
     \/ Becomes(Followed([studio EXCEPT !.moving = FALSE,
                                        !.camera = IF @ = "free" THEN "first" ELSE "free"]))

\* Checkpoints need the free camera; whatever changes them saves them.
Saving(s) == studio' = s /\ saved' \in SavesOf(s.checkpoints) /\ UNCHANGED <<files, kept>>

CreateCheckpoint ==
  /\ Inside /\ studio.camera = "free" /\ studio.checkpoints < MaxCheckpoints
  /\ Saving([studio EXCEPT !.checkpoints = @ + 1, !.checkpoint = studio.checkpoints + 1,
                           !.moving = TRUE])

GoToCheckpoint ==
  /\ Inside /\ studio.camera = "free" /\ studio.checkpoints > 0
  /\ \E i \in {CyclePrevious(studio), CycleNext(studio)} :
       Becomes([studio EXCEPT !.checkpoint = i, !.moving = TRUE])

\* Mutant: the checkpoint aimed at keeps its number.
MutDeletedCheckpoint(s) ==
  LET left == s.checkpoints - 1 IN
  [s EXCEPT !.checkpoints = left, !.moving = FALSE, !.checkpoint = IF left = 0 THEN 0 ELSE @]

DeletedCheckpoint(s) ==
  LET left == s.checkpoints - 1 IN
  [s EXCEPT !.checkpoints = left, !.moving = FALSE,
            !.checkpoint = IF left = 0 THEN 0 ELSE IF @ > left THEN 1 ELSE @]

DeleteCheckpoint ==
  /\ Inside /\ studio.camera = "free" /\ studio.checkpoints > 0
  /\ Saving(DeletedCheckpoint(studio))

\* adjustReplayCheckpointTransition
AdjustCheckpoint ==
  Inside /\ studio.camera = "free" /\ studio.checkpoints > 1 /\ Saving(studio)

-----------------------------------------------------------------------------
StudioKeys ==
  \/ Preview \/ Refresh \/ PlayInLibrary \/ TimePasses \/ OpenDialog \/ CancelDialog
  \/ ApplyRename \/ ConfirmDelete
  \/ Enter \/ Exit \/ ReleaseCursor \/ ToggleSettings \/ PlayInside \/ TimePassesInside
  \/ CycleTarget \/ ChangeCamera \/ CreateCheckpoint \/ GoToCheckpoint \/ DeleteCheckpoint
  \/ AdjustCheckpoint

-----------------------------------------------------------------------------
(* Properties. *)

\* A recording the user has not deleted is on disk, complete, whatever fails or crashes
\* while replays are renamed and deleted (ReplayStudio::renameReplay, deleteReplay).
RecordingsSurvive == \A r \in kept : \E f \in files : f.rec = r

\* Whatever key comes in whatever order, and whatever became of the checkpoints saved before:
\* the view from inside shows a command replay and follows an actor that is there at the tick
\* shown, and one of the checkpoints is aimed at, if there are any
\* (ReplayStudio::updateImmersiveCommandReplay).
InsideIsSound ==
  Inside =>
    /\ CommandLoaded(studio) /\ studio.dialog = "none"
    /\ \/ studio.follow \in Present(studio.loaded.rec, studio.at)
       \/ studio.follow = Nobody /\ Present(studio.loaded.rec, studio.at) = {}
    /\ studio.track = "control" => studio.loaded.rec \in WithControl
    /\ studio.checkpoint \in 0..studio.checkpoints
    /\ (studio.checkpoint = 0) <=> (studio.checkpoints = 0)

\* The cursor is captured only in the view from inside a replay without its settings.
StudioFreesCursor == studio.open /\ studio.cursorCaptured => studio.inside /\ ~studio.settings
=============================================================================
