------------------------------ MODULE ItemTree ------------------------------
(***************************************************************************)
(* DisplayedItemTree as an object: one action per method that changes it,  *)
(* called in any order (libsurfer/src/displayed_item_tree.rs).  Moves of   *)
(* one subtree are actions here; a move of several is checked in           *)
(* MCTreeAlgorithms and, as the handlers use it, in Canvas.                *)
(***************************************************************************)
EXTENDS DisplayedItemTree

CONSTANTS Refs,          \* item references the callers hand out
          Groups         \* those of groups, the items that may have children

ASSUME GroupsAssumption == Groups \subseteq Refs

VARIABLE items

vars == <<items>>

\* Every node belongs to an item a caller inserted, at a level a u8 holds.
TypeOK == items \in Seq(NodeOf(Refs))

Init == items = <<>>

-----------------------------------------------------------------------------

\* insert_item; DisplayedItemRefs are fresh, next_displayed_item_ref counts.
InsertItem(ref, target) ==
  /\ ref \notin RefsOf(items)
  /\ CheckLocation(items, target)
  /\ items' = InsertNode(items, ref, target)

RemoveItem(i) ==
  items' = RemoveRecursive(items, i)

DissolveItem(i) ==
  items' = RemoveDissolve(items, i)

DrainIf(refs) ==
  items' = Drained(items, refs)

\* move_item changes the tree also when it fails half way.  Where it panics
\* the program ends; the tree stays as it is.
MoveVisible(v, direction) ==
  items' = MoveItem(items, v, direction, Groups).tree

MoveOne(i, target) ==
  items' = MoveSubtree(items, i, target).tree

Fold(i, unfolded) ==
  items' = XFold(items, i, unfolded)

FoldAll(unfolded) ==
  items' = XFoldAll(items, unfolded)

FoldRecursive(i, unfolded) ==
  items' = XFoldRecursive(items, i, unfolded)

\* xselect, xselect_all_visible and xselect_visible_range differ in the
\* positions they reach; all are visible.
Select(positions, selected) ==
  items' = XSelect(items, positions, selected)

Next ==
  \/ \E ref \in Refs, target \in TargetPosition(Len(items)) :
       InsertItem(ref, target)
  \/ \E i \in DOMAIN items :
       \/ RemoveItem(i)
       \/ DissolveItem(i)
       \/ \E target \in TargetPosition(Len(items)) : MoveOne(i, target)
       \/ \E unfolded \in BOOLEAN : Fold(i, unfolded) \/ FoldRecursive(i, unfolded)
  \/ \E refs \in SUBSET Refs : DrainIf(refs)
  \/ \E v \in DOMAIN items, direction \in {"Up", "Down"} : MoveVisible(v, direction)
  \/ \E unfolded \in BOOLEAN : FoldAll(unfolded)
  \/ \E positions \in SUBSET VisiblePositions(items), selected \in BOOLEAN :
       Select(positions, selected)

Spec == Init /\ [][Next]_vars

-----------------------------------------------------------------------------

\* The documented invariant of the type: "The nesting levels of the tree must
\* monotonically increase (but may jump levels going down)", kept by every
\* method, also by a move that fails half way, in a build that checks the
\* addition of levels.
LevelsOK == LevelsMonotone(items)

\* No group has got to the largest level, where a move into it wraps around in
\* a build that does not check.
NoGroupAtLimit ==
  \A i \in DOMAIN items : items[i].item_ref \in Groups => items[i].level # MaxLevel

\* No method duplicates an item or brings a removed one back.
UniqueRefs == RefsUnique(items)

=============================================================================
