------------------------- MODULE DisplayedItemTree -------------------------
(***************************************************************************)
(* The list of displayed items as a tree, and the algorithms on it         *)
(* (libsurfer/src/displayed_item_tree.rs).                                 *)
(*                                                                         *)
(* A tree is a sequence of nodes in display order; a node's children are   *)
(* the following nodes of a greater level.  The code counts positions      *)
(* from 0; here they count from 1, and a target position `before' ranges   *)
(* over 1..Len(t)+1.  A visible index is the number of a visible item in   *)
(* display order, also from 1; 0 is "none".  An operation that can fail    *)
(* returns a status: "ok", "err" for every MoveError, "panic" for a slice  *)
(* index out of range or an addition of levels that overflows a u8 in a    *)
(* build that checks it; a build that does not lets the level wrap to 0.   *)
(*                                                                         *)
(* A definition marked "Mutant" is the one after it with a plausible bug;  *)
(* a property of the runs must tell the two apart.                         *)
(***************************************************************************)
EXTENDS Integers, Sequences, FiniteSets, SequencesExt

CONSTANTS
  MaxLevel,         \* the largest nesting level a u8 holds (255)
  OverflowChecks    \* whether the build checks u8 additions: debug does, release not

ASSUME MaxLevelAssumption == MaxLevel \in Nat \ {0}
ASSUME OverflowAssumption == OverflowChecks \in BOOLEAN

Level == 0..MaxLevel

NodeOf(refs) ==
  [item_ref : refs, level : Level, unfolded : BOOLEAN, selected : BOOLEAN]

TargetPosition(n) == [before : 1..n+1, level : Level]

\* The level inside a node, where the code adds 1 without care for the limit.
Overflows(level) == OverflowChecks /\ level = MaxLevel
Deeper(level) == (level + 1) % (MaxLevel + 1)

-----------------------------------------------------------------------------
(* Reading the tree *)

\* The position past the subtree that starts at i.
SubtreeEnd(t, i) ==
  Min({j \in i+1..Len(t)+1 : j <= Len(t) => t[j].level <= t[i].level})

\* Mutant: a folded node hides its direct children only.
VisibleUnderParent(t) ==
  {i \in DOMAIN t : \A j \in 1..i-1 :
     t[j].unfolded \/ SubtreeEnd(t, j) <= i \/ t[i].level > t[j].level + 1}

\* The positions the visible iterators visit: those no folded node hides.
VisiblePositions(t) ==
  {i \in DOMAIN t : \A j \in 1..i-1 : t[j].unfolded \/ SubtreeEnd(t, j) <= i}

VisibleCount(t) == Cardinality(VisiblePositions(t))

\* The number of a visible position among all of them.
RowIn(visible, i) == Cardinality({j \in visible : j <= i})

\* The visible index of position i, 0 when it is hidden or out of range.
VisibleIndex(t, i) ==
  LET visible == VisiblePositions(t)
  IN IF i \in visible THEN RowIn(visible, i) ELSE 0

\* The position of the v-th visible item, 0 when there is none.
ToDisplayed(t, v) ==
  LET visible == VisiblePositions(t)
      at      == {i \in visible : RowIn(visible, i) = v}
  IN IF at = {} THEN 0 ELSE CHOOSE i \in at : TRUE

\* The first position that holds ref, 0 when there is none.
PositionOf(t, ref) ==
  LET at == {i \in DOMAIN t : t[i].item_ref = ref}
  IN IF at = {} THEN 0 ELSE Min(at)

\* Mutant: the levels before a child are not restricted to its own.
LevelsBeforeChild(t, b) ==
  IF b = 1 THEN {0} ELSE 0..Min({t[b-1].level + 1, MaxLevel})

\* Levels at which an item may be inserted before position b.
ValidLevels(t, b) ==
  IF b = 1 THEN {0}
  ELSE LET pre == Min({t[b-1].level + 1, MaxLevel}) IN
       IF b > Len(t) THEN 0..pre
       ELSE IF t[b].level > t[b-1].level THEN {t[b].level}
       ELSE t[b].level..pre

CheckLocation(t, target) ==
  /\ target.before <= Len(t) + 1
  /\ target.level \in ValidLevels(t, target.before)

\* Mutant: any unfolded item is offered as a parent.
OffersAnyParent(t, v, groups) ==
  LET pre  == ToDisplayed(t, v-1)
      post == ToDisplayed(t, v)
  IN IF pre = 0 THEN {0}
     ELSE (IF post = 0 THEN 0 ELSE t[post].level)
            ..t[pre].level + (IF t[pre].unfolded THEN 1 ELSE 0)

\* Mutant: a folded group is offered as a parent.
OffersFoldedGroups(t, v, groups) ==
  LET pre  == ToDisplayed(t, v-1)
      post == ToDisplayed(t, v)
  IN IF pre = 0 THEN {0}
     ELSE (IF post = 0 THEN 0 ELSE t[post].level)
            ..t[pre].level + (IF t[pre].item_ref \in groups THEN 1 ELSE 0)

\* Mutant: the range includes its end.
OffersTooDeep(t, v, groups) ==
  LET pre == ToDisplayed(t, v-1)
  IN IF pre = 0 THEN {0} ELSE 0..t[pre].level + 2

\* Levels the user interface offers for a drop above visible index v.
ValidLevelsVisible(t, v, groups) ==
  LET pre  == ToDisplayed(t, v-1)
      post == ToDisplayed(t, v)
      into == IF t[pre].item_ref \in groups /\ t[pre].unfolded THEN 1 ELSE 0
      past == Min({t[pre].level + 1 + into, MaxLevel})
  IN IF pre = 0 THEN {0}
     ELSE (IF post = 0 THEN 0 ELSE t[post].level)..past-1

\* Mutant: the node before, hidden or not.
PredecessorJustBefore(t, i) == i - 1

\* The item above position i that a move up meets: the item just before it,
\* or the outermost folded group around that item.
VisiblePredecessor(t, i) ==
  LET stop   == Max({j \in 1..i-1 : t[j].level <= t[i].level} \cup {1})
      folded == {j \in stop..i-2 :
                   /\ ~t[j].unfolded
                   /\ \A k \in j+1..i-1 : t[k].level > t[j].level}
  IN IF i = 1 THEN 0 ELSE Min(folded \cup {i-1})

-----------------------------------------------------------------------------
(* Inserting and removing *)

\* Mutant: the last node of the range stays.
CutShort(t, from, to) == SubSeq(t, 1, from-1) \o SubSeq(t, to-1, Len(t))

Cut(t, from, to) == SubSeq(t, 1, from-1) \o SubSeq(t, to, Len(t))

NewNode(ref, level) ==
  [item_ref |-> ref, level |-> level, unfolded |-> TRUE, selected |-> FALSE]

\* Callers check CheckLocation(t, target) first, as the code does.
InsertNode(t, ref, target) ==
  InsertAt(t, target.before, NewNode(ref, target.level))

\* Mutant: the children stay.
RemoveNodeOnly(t, i) == RemoveAt(t, i)

RemoveRecursive(t, i) == Cut(t, i, SubtreeEnd(t, i))

\* Mutant: only the direct children move out.
DissolveDirectChildren(t, i) ==
  RemoveAt([k \in DOMAIN t |->
              IF i < k /\ k < SubtreeEnd(t, i) /\ t[k].level = t[i].level + 1
              THEN [t[k] EXCEPT !.level = @ - 1] ELSE t[k]], i)

\* remove_dissolve: the children move out to the level of the group.
RemoveDissolve(t, i) ==
  RemoveAt([k \in DOMAIN t |->
              IF i < k /\ k < SubtreeEnd(t, i)
              THEN [t[k] EXCEPT !.level = @ - 1] ELSE t[k]], i)

\* The node at k is in the subtree of a node whose item is in refs.
Gone(t, refs, k) ==
  \E i \in 1..k : t[i].item_ref \in refs /\ k < SubtreeEnd(t, i)

\* drain_recursive_if, for the nodes whose item is in refs.
Drained(t, refs) ==
  LET kept[k \in 0..Len(t)] ==
        IF k = 0 THEN <<>>
        ELSE IF Gone(t, refs, k) THEN kept[k-1]
        ELSE Append(kept[k-1], t[k])
  IN kept[Len(t)]

-----------------------------------------------------------------------------
(* Moving *)

\* shift_subtree_to_level: fails when a level leaves the range of a u8.
CanShift(s, level) ==
  \A k \in DOMAIN s : s[k].level + level - s[1].level \in Level

\* Mutant: the children keep their level.
ShiftRootOnly(s, level) ==
  [k \in DOMAIN s |-> IF k = 1 THEN [s[k] EXCEPT !.level = level] ELSE s[k]]

\* Mutant: the children get the level of the root.
ShiftFlat(s, level) == [k \in DOMAIN s |-> [s[k] EXCEPT !.level = level]]

\* The nodes the loop reached before a failure keep their new level.
Shift(s, level) ==
  [k \in DOMAIN s |->
     IF CanShift(SubSeq(s, 1, k), level)
     THEN [s[k] EXCEPT !.level = @ + level - s[1].level] ELSE s[k]]

\* One iteration of the loop of move_items: take the subtree at i out of
\* `rest' and put it in front of `moved'.  The end of the subtree is taken
\* from the tree as it was, `rest' has lost what was taken out before.
Extract(t, st, i, level) ==
  LET end     == SubtreeEnd(t, i)
      subtree == SubSeq(st.rest, i, end-1)
  IN IF st.status # "ok" THEN st
     ELSE IF st.before \in i+1..end-1
          THEN [st EXCEPT !.status = "err"]
     ELSE IF end - 1 > Len(st.rest)
          THEN [st EXCEPT !.status = "panic"]
     ELSE IF ~CanShift(subtree, level)
          THEN [st EXCEPT !.status = "err"]
     ELSE [status |-> "ok",
           before |-> IF i < st.before THEN st.before - (end - i)
                      ELSE st.before,
           rest   |-> Cut(st.rest, i, end),
           moved  |-> Shift(subtree, level) \o st.moved]

NothingMoved(t, target) ==
  [status |-> "ok", before |-> target.before, rest |-> t, moved |-> <<>>]

\* What move_items does with the extracted nodes: the new tree, or the old
\* one and an error.
Place(t, st, level) ==
  IF st.status # "ok" THEN [status |-> st.status, tree |-> t]
  ELSE IF ~CheckLocation(st.rest, [before |-> st.before, level |-> level])
       THEN [status |-> "err", tree |-> t]
  ELSE [status |-> "ok",
        tree   |-> SubSeq(st.rest, 1, st.before-1) \o st.moved
                     \o SubSeq(st.rest, st.before, Len(st.rest))]

\* move_items: from the last position to the first, without duplicates.
MoveItems(t, positions, target) ==
  LET at(k) == Len(t) + 1 - k
      st[k \in 0..Len(t)] ==
        IF k = 0 THEN NothingMoved(t, target)
        ELSE IF at(k) \in positions THEN Extract(t, st[k-1], at(k), target.level)
        ELSE st[k-1]
  IN Place(t, st[Len(t)], target.level)

\* move_items of a single subtree.
MoveSubtree(t, i, target) ==
  Place(t, Extract(t, NothingMoved(t, target), i, target.level), target.level)

ShiftAt(t, i, level) ==
  LET end == SubtreeEnd(t, i) IN
  [status |-> IF CanShift(SubSeq(t, i, end-1), level) THEN "ok"
              ELSE "err",
   tree   |-> SubSeq(t, 1, i-1) \o Shift(SubSeq(t, i, end-1), level)
                \o SubSeq(t, end, Len(t))]

\* move_item: one visible step up or down.  The result also holds the
\* visible index the code reports for the item.
Overflown(t, v) == [status |-> "panic", tree |-> t, vidx |-> v]

MoveDown(t, v, groups) ==
  LET i     == ToDisplayed(t, v)
      end   == SubtreeEnd(t, i)
      level == t[i].level
      At(r, w) == [status |-> r.status, tree |-> r.tree,
                   vidx |-> IF r.status = "ok" THEN w ELSE v]
  IN IF end > Len(t) THEN At(ShiftAt(t, i, Max({level - 1, 0})), v)
     ELSE IF t[end].level < level THEN At(ShiftAt(t, i, level - 1), v)
     ELSE IF t[end].unfolded /\ t[end].item_ref \in groups
     THEN IF Overflows(t[end].level) THEN Overflown(t, v)
          ELSE At(MoveSubtree(t, i, [before |-> end + 1,
                                     level |-> Deeper(t[end].level)]), v + 1)
     ELSE At(MoveSubtree(t, i, [before |-> SubtreeEnd(t, end),
                                level |-> level]), v + 1)

MoveUp(t, v, groups) ==
  LET i     == ToDisplayed(t, v)
      level == t[i].level
      pred  == VisiblePredecessor(t, i)
      At(r, w) == [status |-> r.status, tree |-> r.tree,
                   vidx |-> IF r.status = "ok" THEN w ELSE v]
  IN IF pred = 0 THEN [status |-> "ok", tree |-> t, vidx |-> v]
     ELSE IF \/ t[pred].level > level
             \/ /\ t[pred].level = level
                /\ t[pred].item_ref \in groups
                /\ t[pred].unfolded
     THEN IF Overflows(level) THEN Overflown(t, v)
          ELSE At(ShiftAt(t, i, Deeper(level)), v)
     ELSE At(MoveSubtree(t, i, [before |-> pred,
                                level |-> t[pred].level]), v - 1)

MoveItem(t, v, direction, groups) ==
  IF ToDisplayed(t, v) = 0
  THEN [status |-> "err", tree |-> t, vidx |-> v]
  ELSE IF direction = "Down" THEN MoveDown(t, v, groups)
  ELSE MoveUp(t, v, groups)

-----------------------------------------------------------------------------
(* Folding and selecting *)

\* Mutant: what is hidden stays selected.
XFoldOnly(t, i, unfolded) == [t EXCEPT ![i].unfolded = unfolded]

XFold(t, i, unfolded) ==
  LET folded == [t EXCEPT ![i].unfolded = unfolded] IN
  IF unfolded THEN folded
  ELSE [k \in DOMAIN t |->
          IF k \in i..SubtreeEnd(t, i)-1
          THEN [folded[k] EXCEPT !.selected = FALSE] ELSE folded[k]]

XFoldAll(t, unfolded) ==
  [k \in DOMAIN t |->
     [t[k] EXCEPT !.unfolded = unfolded,
                  !.selected = @ /\ (unfolded \/ t[k].level = 0)]]

XFoldRecursive(t, i, unfolded) ==
  [k \in DOMAIN t |->
     IF k \in i..SubtreeEnd(t, i)-1
     THEN [t[k] EXCEPT !.unfolded = unfolded,
                       !.selected = @ /\ (unfolded \/ k = i)]
     ELSE t[k]]

\* Select or deselect the items at a set of positions.
XSelect(t, positions, selected) ==
  [k \in DOMAIN t |->
     IF k \in positions THEN [t[k] EXCEPT !.selected = selected] ELSE t[k]]

XSelectAllVisible(t, selected) == XSelect(t, VisiblePositions(t), selected)

\* xselect_visible_range: inclusive, in either direction.
XSelectVisibleRange(t, from, to, selected) ==
  LET visible == VisiblePositions(t)
  IN XSelect(t, {i \in visible : RowIn(visible, i) \in Min({from, to})..Max({from, to})},
             selected)

\* subtree_contains: the end is that of the candidate, not of the root.
SubtreeContains(t, root, candidate) ==
  candidate \in root..SubtreeEnd(t, candidate)-1

SelectedVisible(t) == {i \in VisiblePositions(t) : t[i].selected}

RefsOf(t) == {t[i].item_ref : i \in DOMAIN t}

-----------------------------------------------------------------------------
(* Well-formed trees *)

\* The invariant the type's documentation states: levels go in by one.
LevelsMonotone(t) ==
  \A i \in DOMAIN t :
     t[i].level <= (IF i = 1 THEN 0 ELSE t[i-1].level + 1)

\* No item is in the tree twice.
RefsUnique(t) ==
  \A i, j \in DOMAIN t : t[i].item_ref = t[j].item_ref => i = j

\* Only groups have children.
OnlyGroupsHaveChildren(t, groups) ==
  \A i \in 1..Len(t)-1 :
     t[i+1].level > t[i].level => t[i].item_ref \in groups

\* A position inside another position's subtree: the selection overlaps.
Overlapping(t, positions) ==
  \E i, j \in positions : i < j /\ j < SubtreeEnd(t, i)
=============================================================================
