----------------------------- MODULE Preferences -----------------------------
(***************************************************************************)
(* What a user keeps between runs besides levels and replays: the key      *)
(* bindings of the settings menu (SettingsMenu, UserSettingsStore) and the *)
(* characters of the character editor (CharacterEditorScreen,              *)
(* CharacterPresetStore).  A name and the looks of a character are         *)
(* numbers; its id is what its name is reduced to, made unique.            *)
(* Left out: the resolution, and white space around names.                 *)
(***************************************************************************)
EXTENDS Integers, Sequences, SequencesExt, FiniteSetsExt

CONSTANTS
  Bindings, DefaultBindings,    \* of all actions: functions from [action, slot] to a token
  Names, Looks, DefaultLook,    \* Names: numbers from 1, sorted as they are listed
  NewName,                      \* "New Character"
  MaxCharacters                 \* bound

ASSUME PrefsAssumption ==
  /\ IsFiniteSet(Names) /\ Names \subseteq Nat \ {0} /\ NewName \in Names
  /\ DefaultLook \in Looks /\ MaxCharacters \in Nat

VARIABLES
  used, stored,   \* the bindings in use and on disk
  settings,       \* the open settings menu, or SettingsClosed
  characters,     \* on disk: [id, name, look]
  screen,         \* the open character editor, or ScreenClosed
  created         \* history: characters made less characters deleted

prefsVars == <<used, stored, settings, characters, screen, created>>

SettingsClosed == [open |-> FALSE]
ScreenClosed == [open |-> FALSE]

PrefsInit ==
  /\ used = DefaultBindings /\ stored = DefaultBindings /\ settings = SettingsClosed
  /\ characters = {} /\ screen = ScreenClosed /\ created = 0

-----------------------------------------------------------------------------
(* The settings menu edits a copy, which Apply takes into use and saves.   *)

OfCharacters == <<characters, screen, created>>
NotCapturing == <<>>

OpenedSettings == [open |-> TRUE, working |-> used, capture |-> NotCapturing]

AtRest == settings.open /\ settings.capture = NotCapturing

BeginCapture ==
  /\ AtRest
  /\ \E where \in DOMAIN DefaultBindings : settings' = [settings EXCEPT !.capture = where]
  /\ UNCHANGED <<used, stored, OfCharacters>>

\* updateCapture: a key or button is bound, Delete unbinds, Escape leaves the binding.  No
\* binding is refused for being another action's.
EndCapture ==
  /\ settings.open /\ settings.capture # NotCapturing
  /\ \/ settings' = [settings EXCEPT !.capture = NotCapturing]
     \/ \E b \in Bindings :
          /\ \A where \in DOMAIN b \ {settings.capture} : b[where] = settings.working[where]
          /\ settings' = [settings EXCEPT !.capture = NotCapturing, !.working = b]
  /\ UNCHANGED <<used, stored, OfCharacters>>

RestoreDefaults ==
  /\ AtRest /\ settings' = [settings EXCEPT !.working = DefaultBindings]
  /\ UNCHANGED <<used, stored, OfCharacters>>

\* The shell saves what was applied; a file that cannot be opened leaves the old one.
Apply ==
  /\ AtRest
  /\ used' = settings.working
  /\ stored' \in {settings.working, stored}
  /\ UNCHANGED <<settings, OfCharacters>>

LeaveSettings ==
  AtRest /\ settings' = SettingsClosed /\ UNCHANGED <<used, stored, OfCharacters>>

SettingsKeys == BeginCapture \/ EndCapture \/ RestoreDefaults \/ Apply

-----------------------------------------------------------------------------
(* The character editor.                                                   *)

OfSettings == <<used, stored, settings>>

\* CharacterPresetStore::loadProfiles: the built-in first, then by name and id.
BuiltIn == [id |-> <<0, 0>>, name |-> 0, look |-> DefaultLook]
IdBefore(i, j) == i[1] < j[1] \/ (i[1] = j[1] /\ i[2] < j[2])
ListedBefore(c, d) == c.name < d.name \/ (c.name = d.name /\ IdBefore(c.id, d.id))
InOrder(disk) ==
  CHOOSE s \in [1..Cardinality(disk) -> disk] :
    ToSet(s) = disk /\ \A i, j \in DOMAIN s : i < j => ListedBefore(s[i], s[j])
Listing(disk) == <<BuiltIn>> \o InOrder(disk)

\* Mutant: the next number is the number of characters of that name.
MutFreeId(name) == <<name, Cardinality({c \in characters : c.name = name}) + 1>>

\* nextAvailableProfileId
FreeId(name) ==
  <<name, Min({n \in 1..(MaxCharacters + 1) : \A c \in characters : c.id # <<name, n>>})>>

\* selectProfile
Showing(s, disk, i) ==
  [s EXCEPT !.profiles = Listing(disk), !.at = i, !.editing = Listing(disk)[i], !.naming = FALSE]
IndexOf(disk, id) == CHOOSE i \in 1..Len(Listing(disk)) : Listing(disk)[i].id = id

OpenedScreen ==
  Showing([open |-> TRUE, profiles |-> <<>>, at |-> 1, editing |-> BuiltIn, naming |-> FALSE],
          characters, 1)

SelectCharacter ==
  /\ screen.open
  /\ \E i \in 1..Len(screen.profiles) :
       screen' = [screen EXCEPT !.at = i, !.editing = screen.profiles[i], !.naming = FALSE]
  /\ UNCHANGED <<OfSettings, characters, created>>

ClickName ==
  /\ screen.open /\ \E b \in BOOLEAN : screen' = [screen EXCEPT !.naming = b]
  /\ UNCHANGED <<OfSettings, characters, created>>

Edit ==
  /\ screen.open
  /\ \/ screen.naming /\ \E n \in Names : screen' = [screen EXCEPT !.editing.name = n]
     \/ \E l \in Looks : screen' = [screen EXCEPT !.editing.look = l]
  /\ UNCHANGED <<OfSettings, characters, created>>

\* CharacterPresetStore::save writes the file of the id anew; one that cannot be opened stays.
SavedAs(c) ==
  LET disk == {d \in characters : d.id # c.id} \cup {c} IN
  /\ characters' = disk
  /\ screen' = Showing(screen, disk, IndexOf(disk, c.id))
SaveFails == UNCHANGED <<characters, screen>>

\* createProfile takes the looks on the screen.
CreateCharacter ==
  /\ screen.open /\ Cardinality(characters) < MaxCharacters
  /\ \/ /\ SavedAs([id |-> FreeId(NewName), name |-> NewName, look |-> screen.editing.look])
        /\ created' = created + 1
     \/ SaveFails /\ UNCHANGED created
  /\ UNCHANGED OfSettings

\* saveProfile: the built-in is saved as a copy.
SaveCharacter ==
  /\ screen.open
  /\ LET c == screen.editing IN
     IF c.id # BuiltIn.id THEN (SavedAs(c) \/ SaveFails) /\ UNCHANGED created
     ELSE /\ Cardinality(characters) < MaxCharacters
          /\ LET name == IF c.name = BuiltIn.name THEN Max(Names) ELSE c.name IN   \* "Default Copy"
             SavedAs([c EXCEPT !.id = FreeId(name), !.name = name])
          /\ created' = created + 1
  /\ UNCHANGED OfSettings

\* deleteProfile: the built-in is kept.
DeleteCharacter ==
  /\ screen.open /\ screen.editing.id # BuiltIn.id
  /\ characters' = {c \in characters : c.id # screen.editing.id}
  /\ screen' = Showing(screen, characters', 1)
  /\ created' = created - 1
  /\ UNCHANGED OfSettings

\* Q and Escape leave a name that is being edited first.
LeaveScreen ==
  screen.open /\ ~screen.naming /\ screen' = ScreenClosed /\ UNCHANGED <<OfSettings, characters, created>>

ScreenKeys == SelectCharacter \/ ClickName \/ Edit \/ CreateCharacter \/ SaveCharacter \/ DeleteCharacter

-----------------------------------------------------------------------------
(* Properties. *)

\* Whatever is created, renamed, copied and deleted in whatever order: a character that was
\* made and not deleted has a file of its own, and what is on the screen is what is on disk
\* (CharacterEditorScreen::createProfile, saveProfile, CharacterPresetStore::save).
CharactersSurvive ==
  /\ Cardinality(characters) = created
  /\ screen.open =>
       /\ screen.profiles = Listing(characters)
       /\ screen.editing.id = screen.profiles[screen.at].id
=============================================================================
