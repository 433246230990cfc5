------------------------------ MODULE LevelFile ------------------------------
(***************************************************************************)
(* The file of a level, LevelData.cpp: lines that are recognised by what   *)
(* they contain and in which section they stand.  The file is written in   *)
(* place, so that a crash leaves the beginning of it; and the name is      *)
(* free, so that it may spell what starts a section.                       *)
(* Each value of an obstacle, an area or an enemy is the number of it;     *)
(* 0 is a value that is not read.                                          *)
(***************************************************************************)
EXTENDS Integers, Sequences, SequencesExt

CONSTANT MaxItems  \* bound on the items of a kind

Sections == {"areas", "enemies", "obstacles"}
Keys == Sections \cup {"floorPatches"}
Names == {"plain"} \cup Keys

Members == [obstacles |-> <<"x", "z", "width", "depth", "height", "color">>,
            areas     |-> <<"x", "z", "width", "depth", "color">>,
            enemies   |-> <<"x", "z", "color">>]

VARIABLES
  written,  \* the level that was saved
  lines,    \* what is left of the file
  reader,   \* the section, the item being read and the level so far
  end       \* "reading", "end", or "cut": the end came too early

levelVars == <<written, lines, reader, end>>

Item(section, n) == [m \in ToSet(Members[section]) |-> n]
Items(section, count) == [n \in 1..count |-> Item(section, n)]

Saved ==
  [name : Names, floor : {1}, areas : {Items("areas", n) : n \in 0..MaxItems},
   enemies : {Items("enemies", n) : n \in 0..MaxItems},
   obstacles : {Items("obstacles", n) : n \in 0..MaxItems}]

-----------------------------------------------------------------------------
Line(what, value) == [what |-> what, value |-> value]
Mark(what) == <<Line(what, 0)>>

ItemLines(section, item) ==
  Mark("{") \o [i \in DOMAIN Members[section] |->
                  Line(Members[section][i], item[Members[section][i]])] \o Mark("}")

SectionLines(section, items) ==
  Mark(section) \o FlattenSeq([i \in DOMAIN items |-> ItemLines(section, items[i])]) \o Mark("]")

\* A name in quotes that spells a key is taken for it.
NameLine(name) == Line(IF name \in Keys THEN name ELSE "name", name)

saveLevelDefinition(level) ==
  Mark("{") \o <<NameLine(level.name), Line("floorColor", level.floor)>>
    \o SectionLines("areas", level.areas) \o SectionLines("enemies", level.enemies)
    \o SectionLines("obstacles", level.obstacles) \o Mark("}")

-----------------------------------------------------------------------------
(* loadLevelDefinition, a line at a time. *)

Nothing == [section |-> "none", inside |-> "none", item |-> <<>>, patches |-> FALSE,
            level |-> [name |-> "Untitled", floor |-> 0,
                       areas |-> <<>>, enemies |-> <<>>, obstacles |-> <<>>]]

LevelFileInit ==
  /\ written \in Saved /\ lines = saveLevelDefinition(written)
  /\ reader = Nothing /\ end = "reading"

HasBracket(line) == line.what \in {"]", "floorColor", "color"}

Entered(r, s) == [r EXCEPT !.section = s]

\* Mutant: also the end of a colour ends the section.
MutClosed(r, line) == IF HasBracket(line) THEN Entered(r, "none") ELSE r

Closed(r, line) ==
  IF HasBracket(line) /\ r.inside = "none" THEN Entered(r, "none") ELSE r

Named(r, name)     == [r EXCEPT !.level.name = name]
Floored(r, floor)  == [r EXCEPT !.level.floor = floor]
Begun(r)           == [r EXCEPT !.inside = r.section, !.item = Item(r.section, 0)]
Filled(r, m, n)    == [r EXCEPT !.item[m] = n]
Finished(r)        == [r EXCEPT !.level[r.inside] = Append(@, r.item), !.inside = "none"]
Patching(r, still) == [r EXCEPT !.patches = still]

Meant(r, line) ==
  CASE line.what = "name" -> Named(r, line.value)
    [] line.what = "floorColor" -> Floored(r, line.value)
    [] line.what = "{" /\ r.section # "none" /\ r.inside = "none" -> Begun(r)
    [] r.inside # "none" /\ line.what \in DOMAIN r.item -> Filled(r, line.what, line.value)
    [] r.inside # "none" /\ line.what = "}" -> Finished(r)
    [] OTHER -> r

Taken(r, line) ==
  CASE line.what = "floorPatches" -> Patching(r, TRUE)
    [] line.what # "floorPatches" /\ r.patches -> Patching(r, ~HasBracket(line))
    [] ~r.patches /\ line.what \in Sections -> Entered(r, line.what)
    [] OTHER -> Meant(Closed(r, line), line)

ReadLine ==
  /\ end = "reading" /\ lines # <<>>
  /\ reader' = Taken(reader, Head(lines)) /\ lines' = Tail(lines)
  /\ UNCHANGED <<written, end>>

\* A half line says nothing, but half a colour is some colour of the palette.
CutShort ==
  /\ end = "reading" /\ lines # <<>>
  /\ end' = "cut" /\ lines' = <<>>
  /\ \/ UNCHANGED reader
     \/ Head(lines).what = "floorColor" /\ ~reader.patches /\ reader' = Floored(reader, 2)
  /\ UNCHANGED written

EndOfFile ==
  end = "reading" /\ lines = <<>> /\ end' = "end" /\ UNCHANGED <<written, lines, reader>>

LevelFileNext == ReadLine \/ CutShort \/ EndOfFile

-----------------------------------------------------------------------------
\* A level is loaded as it was saved, but a name that spells a key is lost and may take the
\* colour of the floor with it; and from the beginning of a file are loaded the first items,
\* each of them whole, with success (LevelData::saveLevelDefinition, loadLevelDefinition).
LevelReadsBack ==
  end # "reading" =>
    /\ \A s \in Sections :
         IF end = "end" THEN reader.level[s] = written[s] ELSE IsPrefix(reader.level[s], written[s])
    /\ reader.level.name \in {written.name, "Untitled"}
    /\ end = "end" /\ written.name \notin Keys =>
         reader.level.name = written.name /\ reader.level.floor = written.floor
=============================================================================
