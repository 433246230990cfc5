----------------------------- MODULE LevelEditor -----------------------------
(***************************************************************************)
(* The level editor (LevelEditor) and the level files it saves to and      *)
(* loads from: placing, selecting, moving, sizing and deleting obstacles,  *)
(* areas and characters with the mouse, the keys and a size field.         *)
(* The ground is a line: the code treats its two axes alike.  Positions    *)
(* are in half grid units, so that an item of an even size has one.        *)
(* Left out: heights, colours, names, the camera, previews and previews of *)
(* slots.  The brush, whose size the keys and the wheel change at any      *)
(* time, has any size whenever it is used.  One key or button acts per     *)
(* frame.                                                                  *)
(***************************************************************************)
EXTENDS Integers, Sequences, SequencesExt, FiniteSetsExt

CONSTANTS
  ArenaSize,      \* Config::ARENA_SIZE: the arena is from -ArenaSize to ArenaSize
  Slots,          \* the level slots
  MaxItems,       \* bound on the items of a level
  MaxSaved        \* bound on the items of a level that is saved

ASSUME EditorAssumption ==
  ArenaSize \in Nat \ {0} /\ Slots \subseteq Nat /\ MaxItems \in Nat /\ MaxSaved \in Nat

Kinds == {"obstacle", "area", "character"}
Tools == {"obstacle", "area", "character", "move"}
Cells == (-ArenaSize)..ArenaSize
MaxUnits == 2 * ArenaSize

VARIABLES
  levels,   \* the level file of each slot
  editor    \* the open editor, or EditorClosed

editorVars == <<levels, editor>>

EditorClosed == [open |-> FALSE]
NoLevel == [items |-> <<>>, typed |-> FALSE]
EmptyLevel == [items |-> [k \in Kinds |-> <<>>], typed |-> FALSE]
NoSelection == [kind |-> "none", index |-> 0]

LevelsInit == levels = [s \in Slots |-> NoLevel]

-----------------------------------------------------------------------------
(* Geometry: an item covers its left edge to its right one. *)

Distance(a, b) == IF a < b THEN b - a ELSE a - b
Right(item) == item.left + 2 * item.size
Overlap(a, b) == a.left < Right(b) /\ b.left < Right(a)

\* std::clamp; for a range whose ends are swapped its result is undefined, and the standard
\* library in use gives the high end.
Clamp(n, low, high) == Min({Max({n, low}), high})
Clamped(item) ==
  [item EXCEPT !.left = Clamp(@, -2 * ArenaSize, 2 * ArenaSize - 2 * item.size)]

Brush(cell, size) == [left |-> 2 * cell - size, size |-> size]

\* A character is put where it is put; the others are kept inside the arena.
Placed(kind, cell, size) ==
  IF kind = "character" THEN Brush(cell, size) ELSE Clamped(Brush(cell, size))

\* dragRect
Swept(from, to, size) ==
  Clamped([left |-> Min({2 * from, 2 * to}) - size, size |-> Distance(from, to) + size])

\* cellFromWorld at the centre of an item: lround rounds halves away from zero.
CentreCell(item) ==
  LET c == item.left + item.size
      rounded == IF c >= 0 THEN (c + 1) \div 2 ELSE -((1 - c) \div 2)
  IN Clamp(rounded, -ArenaSize, ArenaSize)

-----------------------------------------------------------------------------
(* The level and what is selected in it. *)

Exists(s, ref) == ref.kind # "none" /\ ref.index \in DOMAIN s.items[ref.kind]
Item(s, ref) == s.items[ref.kind][ref.index]
Count(s) == Len(s.items["obstacle"]) + Len(s.items["area"]) + Len(s.items["character"])

\* wouldCollide: only obstacles do.
Collides(s, kind, item, skip) ==
  kind = "obstacle" /\ \E i \in DOMAIN s.items[kind] \ {skip} : Overlap(item, s.items[kind][i])

\* selectionAt: the last of the first kind that is under the mouse.
Under(s, kind, cell) ==
  {i \in DOMAIN s.items[kind] : LET it == s.items[kind][i] IN it.left <= 2 * cell /\ 2 * cell <= Right(it)}
SelectionAt(s, cell) ==
  LET found(kind) == [kind |-> kind, index |-> Max(Under(s, kind, cell))] IN
  IF Under(s, "obstacle", cell) # {} THEN found("obstacle")
  ELSE IF Under(s, "area", cell) # {} THEN found("area")
  ELSE IF Under(s, "character", cell) # {} THEN found("character")
  ELSE NoSelection

Put(s, ref, item) == [s EXCEPT !.items[ref.kind][ref.index] = item]
Added(s, kind, item) ==
  [s EXCEPT !.items[kind] = Append(@, item),
            !.selection = [kind |-> kind, index |-> Len(s.items[kind]) + 1]]

\* moveSelectionToCell.  A reference behind the last item is to the memory of an erased one,
\* and moving that shows nowhere.
Moved(s, ref, cell) ==
  IF ~Exists(s, ref) THEN s
  ELSE LET item == Placed(ref.kind, cell, Item(s, ref).size) IN
       IF Collides(s, ref.kind, item, ref.index) THEN s ELSE Put(s, ref, item)

\* The frame's drag, after the mouse and before the keys that change the level.
Dragged(s, cell) == IF s.dragging = "selection" THEN Moved(s, s.dragged, cell) ELSE s

\* No drag goes on; where the last one started matters no more.
NotDragging(s) == [s EXCEPT !.dragging = "none", !.dragged = NoSelection, !.from = 0]

\* Where the mouse may be in a frame, as far as it matters.
Pointed == IF editor.dragging = "selection" THEN Cells ELSE {0}

\* applyFieldToSelected: the right edge stays; obstacles may come to overlap.
Resized(s, size) ==
  LET ref == s.selection
      item == Item(s, ref)
  IN [Put(s, ref, Clamped([left |-> Right(item) - 2 * size, size |-> size]))
        EXCEPT !.field = FALSE, !.typed = @ \/ ref.kind = "obstacle"]

-----------------------------------------------------------------------------
Canvas == editor.open /\ editor.selector = "none"
Edits(s) == editor' = s /\ UNCHANGED levels

\* loadLevelFromSlot
LoadedLevel(s, slot) ==
  IF levels[slot] = NoLevel THEN s
  ELSE [NotDragging(s) EXCEPT !.items = levels[slot].items, !.typed = levels[slot].typed,
                              !.selection = NoSelection, !.field = FALSE]

OpenedEditor(slot) ==
  LoadedLevel([open |-> TRUE, items |-> EmptyLevel.items, typed |-> FALSE, tool |-> "obstacle",
               selection |-> NoSelection, field |-> FALSE,
               dragging |-> "none", dragged |-> NoSelection, from |-> 0, selector |-> "none"], slot)

\* setActiveTool, from the toolbar or its key.
ChooseTool ==
  /\ Canvas
  /\ \E tool \in Tools :
       Edits([NotDragging(editor) EXCEPT !.tool = tool, !.field = FALSE,
                !.selection = IF tool = "move" THEN @ ELSE NoSelection])

\* focusInputIfClicked
FocusField ==
  /\ Canvas /\ Exists(editor, editor.selection) /\ editor.selection.kind # "character"
  /\ Edits([NotDragging(editor) EXCEPT !.field = TRUE])

\* Enter applies what was typed, clamped to the sizes there are; Escape leaves it.
EnterField ==
  /\ Canvas /\ editor.field
  /\ \/ \E size \in 1..MaxUnits : Edits(Resized(editor, size))
     \/ \E cell \in Pointed : Edits(Dragged([editor EXCEPT !.field = FALSE], cell))

\* A click on the ground also applies the field that was in focus.
Pressed(s, cell) ==
  CASE s.tool = "character" -> Added(s, "character", Brush(cell, 1))
    [] s.tool = "move" ->
         LET ref == SelectionAt(s, cell) IN
         IF ref = NoSelection THEN [s EXCEPT !.selection = NoSelection]
         ELSE [s EXCEPT !.selection = ref, !.dragging = "selection", !.dragged = ref]
    [] OTHER -> [s EXCEPT !.dragging = "placement", !.from = cell]

Press ==
  /\ Canvas /\ (editor.tool = "character" => Count(editor) < MaxItems)
  /\ \E cell \in Cells :
       IF editor.field
       THEN \E size \in 1..MaxUnits : Edits(Dragged(Pressed(Resized(editor, size), cell), cell))
       ELSE Edits(Dragged(Pressed(editor, cell), cell))

RightPress ==
  /\ Canvas
  /\ \E cell \in Cells :
       Edits(Dragged([editor EXCEPT !.selection = SelectionAt(editor, cell), !.field = FALSE], cell))

MouseMoves == Canvas /\ \E cell \in Pointed : Edits(Dragged(editor, cell))

\* commitPlacementPreview
Committed(s, cell, size) ==
  LET item == Swept(s.from, cell, size) IN
  IF Collides(s, s.tool, item, 0) THEN s ELSE Added(s, s.tool, item)

Release ==
  /\ Canvas
  /\ \/ /\ editor.dragging = "selection"
        /\ \E cell \in Cells : Edits(NotDragging(Dragged(editor, cell)))
     \/ /\ editor.dragging = "placement" /\ Count(editor) < MaxItems
        /\ \E cell \in Cells, size \in 1..MaxUnits : Edits(NotDragging(Committed(editor, cell, size)))

\* Mutant: what was deleted stays selected.
MutErased(s) == [s EXCEPT !.items[s.selection.kind] = RemoveAt(@, s.selection.index)]

\* The drag, if there is one, goes on.
Erased(s) ==
  [s EXCEPT !.items[s.selection.kind] = RemoveAt(@, s.selection.index), !.selection = NoSelection]

Delete ==
  /\ Canvas /\ ~editor.field /\ Exists(editor, editor.selection)
  /\ \E cell \in Pointed : Edits(Erased(Dragged(editor, cell)))

\* The wheel sizes the selected obstacle or area about its centre; while an obstacle is dragged
\* its wheel and keys are off.
Adjustable(s) ==
  Exists(s, s.selection) /\ ~(s.selection.kind = "obstacle" /\ s.dragging = "selection")

Wheeled(s, by) ==
  LET ref == s.selection
      item == Item(s, ref)
      sized == Clamped(Brush(CentreCell(item), Clamp(item.size + by, 1, MaxUnits)))
  IN
  IF ~Adjustable(s) \/ ref.kind = "character" \/ Collides(s, ref.kind, sized, ref.index) THEN s
  ELSE Put(s, ref, sized)

Wheel ==
  /\ Canvas /\ ~editor.field
  /\ \E by \in {-1, 1}, cell \in Pointed : Edits(Wheeled(Dragged(editor, cell), by))

Nudge ==
  /\ Canvas /\ ~editor.field /\ Adjustable(editor)
  /\ \E by \in {-1, 1}, cell \in Pointed :
       LET s == Dragged(editor, cell) IN
       Edits(Moved(s, s.selection, CentreCell(Item(s, s.selection)) + by))

\* openSlotSelector; until it closes the editor sees no button and no key.
OpenSelector ==
  /\ Canvas
  /\ \E action \in {"save", "load"}, cell \in Pointed :
       Edits([Dragged(editor, cell) EXCEPT !.selector = action])

CloseSelector ==
  editor.open /\ editor.selector # "none" /\ Edits([editor EXCEPT !.selector = "none"])

\* commitSlotSelectorChoice; a file that cannot be opened is not saved.
ChooseSlot ==
  /\ editor.open /\ editor.selector # "none"
  /\ \E slot \in Slots :
       LET s == [editor EXCEPT !.selector = "none"] IN
       \/ editor.selector = "load" /\ Edits(LoadedLevel(s, slot))
       \/ /\ editor.selector = "save" /\ Count(editor) <= MaxSaved
          /\ editor' = s
          /\ \/ levels' = [levels EXCEPT ![slot] = [items |-> editor.items, typed |-> editor.typed]]
             \/ UNCHANGED levels

\* Leaving a frame to the menu; what was not saved is gone.
EditorBack == Canvas /\ ~editor.field /\ Edits(EditorClosed)

EditorKeys ==
  \/ ChooseTool \/ FocusField \/ EnterField \/ Press \/ RightPress \/ MouseMoves \/ Release
  \/ Delete \/ Wheel \/ Nudge \/ OpenSelector \/ CloseSelector \/ ChooseSlot

-----------------------------------------------------------------------------
(* Properties. *)

Disjoint(items) == \A i, j \in DOMAIN items : i < j => ~Overlap(items[i], items[j])
InArena(item) ==
  item.size > MaxUnits \/ (-2 * ArenaSize <= item.left /\ Right(item) <= 2 * ArenaSize)

\* Whatever is placed, dragged, sized, deleted, saved and loaded in whatever order: what is
\* selected exists and a size field belongs to an obstacle or an area; obstacles keep clear of
\* each other unless the size of one has been typed; obstacles and areas lie in the arena unless
\* they are wider than it, and no character is more than a cell outside (LevelEditor::update).
EditingIsSound ==
  editor.open =>
    /\ editor.selection # NoSelection => Exists(editor, editor.selection)
    /\ editor.field => editor.selection.kind \in {"obstacle", "area"}
    /\ ~editor.typed => Disjoint(editor.items["obstacle"])
    /\ \A kind \in {"obstacle", "area"}, i \in 1..MaxItems :
         i \in DOMAIN editor.items[kind] => InArena(editor.items[kind][i])
    /\ \A i \in DOMAIN editor.items["character"] :
         Distance(editor.items["character"][i].left, -1) <= 2 * (ArenaSize + 1)
=============================================================================
