------------------------------- MODULE MCFiles -------------------------------
(***************************************************************************)
(* TLC instance of CommandReplay, Deserialization and LevelFile, which     *)
(* share nothing: either a session is recorded and played back, with two   *)
(* players the first of which fires, or something that was written is      *)
(* read, or the file of a level.                                           *)
(***************************************************************************)
EXTENDS CommandReplay

CONSTANTS MaxCount, Lengths, MaxItems
VARIABLES
  subject, bytes, todo, damage, spoiled, result,
  written, lines, reader, end,
  reads  \* what happens: "session", "bytes" or "level"

Reading == INSTANCE Deserialization
Level   == INSTANCE LevelFile

ASSUME ReadingAssumption ==
  Reading!LengthsAssumption /\ Reading!Replays!MaxCountAssumption /\ Reading!Demos!MaxCountAssumption

ASSUME LevelAssumption == MaxItems \in Nat

OrderValue == <<1, 2>>
LengthsValue == 0 .. 3

readVars  == <<subject, bytes, todo, damage, spoiled, result>>
levelVars == <<written, lines, reader, end>>

SomeSubject == CHOOSE s \in Reading!Subjects : TRUE
SomeLevel   == CHOOSE l \in Level!Saved : TRUE

FilesInit ==
  /\ Init /\ Reading!Init /\ Level!LevelFileInit
  /\ reads \in {"session", "bytes", "level"}
  /\ reads # "bytes" => subject = SomeSubject
  /\ reads # "level" => written = SomeLevel

FilesNext ==
  \/ reads = "session" /\ Next /\ UNCHANGED <<readVars, levelVars, reads>>
  \/ reads = "bytes" /\ Reading!Next /\ UNCHANGED <<vars, levelVars, reads>>
  \/ reads = "level" /\ Level!LevelFileNext /\ UNCHANGED <<vars, readVars, reads>>

FilesSpec == FilesInit /\ [][FilesNext]_<<vars, readVars, levelVars, reads>>

\* What one function writes another reads back member for member
\* (Deserialization: Protocol.cpp, SessionDiscovery.cpp, CommandReplayArchive, ReplayArchive).
RoundTrip == Reading!RoundTrip

\* Nothing cut short, continued or spoiled is accepted or misread
\* (Deserialization: ByteReader::has, the readers of enumerations and the ends of the readers).
DamageRefused == Reading!DamageRefused

\* A level is loaded as it was saved, up to a name that spells a key, and the beginning of a
\* file as the first items of it (LevelFile: LevelData.cpp).
LevelReadsBack == Level!LevelReadsBack
=============================================================================
