------------------------------- MODULE Canvas -------------------------------
(***************************************************************************)
(* The displayed items of a waveform, their tree, the focus, the markers   *)
(* and the undo and redo stacks, under the messages SystemState::update    *)
(* handles (libsurfer/src/lib.rs, wave_data.rs, marker.rs, state.rs).      *)
(*                                                                         *)
(* One action is one message, handled to its end.  A failed unwrap, expect *)
(* or assert ends the program: waves.panic names it and nothing follows.   *)
(*                                                                         *)
(* A definition marked "Mutant" is the one after it with a plausible bug;  *)
(* a property of the runs must tell the two apart.                         *)
(***************************************************************************)
EXTENDS DisplayedItemTree

CONSTANTS
  Vars,               \* variables a waveform may have
  None,               \* what a group or divider shows
  UndoStackSize,      \* config.undo_stack_size
  MaxRef,             \* bound: item references handed out
  MaxMarkerIndex,     \* bound: MAX_MARKER_INDEX, 254 in the code
  MaxCount,           \* bound: steps in one MoveFocus, MoveFocusedItem or Undo
  StateFiles,         \* canvases that state files hold
  Environment         \* what else may happen, see EnvironmentEvents

\* A move of a group together with an item inside it; a drop just below the
\* moved items and deeper than they are; a waveform or a state that replaces all;
\* another message while a drag is under way.
EnvironmentEvents == {"overlapping moves", "self drops", "replacing", "late drops"}

ASSUME CanvasAssumption ==
  /\ UndoStackSize \in Nat
  /\ MaxRef \in Nat
  /\ MaxMarkerIndex \in Nat
  /\ MaxCount \in Nat
  /\ Environment \subseteq EnvironmentEvents

Ref == 1..MaxRef
MarkerIndex == 0..MaxMarkerIndex

Lane == 1..2            \* rows of a decoder: two for SPI, one for I2C and UART

\* What is displayed.  A divider stands also for a timeline and a transaction
\* stream, which only take part in the tree.
Item ==
       {[kind |-> k, of |-> v] : k \in {"variable", "placeholder"}, v \in Vars}
  \cup {[kind |-> "marker", of |-> m] : m \in MarkerIndex}
  \cup {[kind |-> "decoder", of |-> lane] : lane \in Lane}
  \cup {[kind |-> k, of |-> None] : k \in {"group", "divider"}}

VARIABLES
  waves,         \* WaveData, with the counter of item references
  undo_stack,    \* saved canvases, the newest last
  redo_stack,
  drag           \* drag_source_idx and drag_target_idx, <<>> when absent

vars == <<waves, undo_stack, redo_stack, drag>>

\* CanvasState: what undo saves and restores.
CanvasOf(w) ==
  [focused_item |-> w.focused_item, items_tree |-> w.items_tree,
   displayed_items |-> w.displayed_items, markers |-> w.markers]

FreshWaves(inner) ==
  [focused_item |-> 0, items_tree |-> <<>>, displayed_items |-> <<>>,
   markers |-> {}, display_item_ref_counter |-> 0, inner |-> inner,
   panic |-> "no"]

Init ==
  /\ \E inner \in SUBSET Vars : waves = FreshWaves(inner)
  /\ undo_stack = <<>>
  /\ redo_stack = <<>>
  /\ drag = <<>>

-----------------------------------------------------------------------------
(* Reading WaveData *)

Panic(w, reason) == [w EXCEPT !.panic = reason]

KindOf(w, ref) ==
  IF ref \in DOMAIN w.displayed_items THEN w.displayed_items[ref].kind ELSE "gone"

Groups(w) ==
  {ref \in DOMAIN w.displayed_items : KindOf(w, ref) = "group"}

\* The item the v-th visible row shows, {} when there is no such row.
RowItem(w, v) ==
  LET i == ToDisplayed(w.items_tree, v)
  IN IF i = 0 THEN {} ELSE {w.items_tree[i].item_ref}

FocusedItem(w) == RowItem(w, w.focused_item)

\* The row of an item, 0 when it is hidden or gone.
RowOf(t, ref) ==
  LET rows == {VisibleIndex(t, i) :
                 i \in {j \in VisiblePositions(t) : t[j].item_ref = ref}}
  IN IF rows = {} THEN 0 ELSE Min(rows)

EndInsertPosition(w) == [before |-> Len(w.items_tree) + 1, level |-> 0]

\* Mutant: every item is taken for a group.
InsertInside(w, v) ==
  LET i == ToDisplayed(w.items_tree, v)
  IN [before |-> i + 1, level |-> w.items_tree[i].level + 1]

\* Mutant: a folded group is treated like an unfolded one.
InsertIntoFolded(w, v) ==
  LET node == w.items_tree[ToDisplayed(w.items_tree, v)]
  IN [before |-> ToDisplayed(w.items_tree, v) + 1,
      level  |-> node.level + (IF node.item_ref \in Groups(w) THEN 1 ELSE 0)]

\* Mutant: the hidden rows of a folded group are not skipped.
InsertJustBelow(w, v) ==
  LET node == w.items_tree[ToDisplayed(w.items_tree, v)]
  IN [before |-> ToDisplayed(w.items_tree, v) + 1,
      level  |-> node.level
                   + (IF node.item_ref \in Groups(w) /\ node.unfolded THEN 1 ELSE 0)]

\* The level `depth' below another, added without a check for the limit of a u8.
\* Where the build checks, a level past MaxLevel stands for the panic of the
\* addition: Inserted accepts no such level.
Below(level, depth) ==
  IF OverflowChecks THEN level + depth ELSE (level + depth) % (MaxLevel + 1)

\* insert_position: inside an unfolded group, past the rows of a folded one,
\* after any other item.
HasInsertPosition(w, v) ==
  \E ref \in RowItem(w, v) : ref \in DOMAIN w.displayed_items

InsertPosition(w, v) ==
  LET t    == w.items_tree
      i    == ToDisplayed(t, v)
      next == ToDisplayed(t, v + 1)
  IN IF t[i].item_ref \in Groups(w)
     THEN IF t[i].unfolded
          THEN [before |-> i + 1, level |-> Below(t[i].level, 1)]
          ELSE [before |-> IF next = 0 THEN Len(t) + 1 ELSE next,
                level  |-> t[i].level]
     ELSE [before |-> i + 1, level |-> t[i].level]

InsertPositionOr(w, v, default) ==
  IF HasInsertPosition(w, v) THEN InsertPosition(w, v) ELSE default

FocusPosition(w) == InsertPositionOr(w, w.focused_item, EndInsertPosition(w))

-----------------------------------------------------------------------------
(* Changing WaveData *)

\* insert_item: a fresh reference, the focus follows when there was one.
Inserted(w, item, target, move_focus) ==
  LET ref  == w.display_item_ref_counter + 1
      tree == InsertNode(w.items_tree, ref, target)
  IN IF ~CheckLocation(w.items_tree, target) THEN Panic(w, "insert")
     ELSE [w EXCEPT
             !.display_item_ref_counter = ref,
             !.items_tree = XSelectAllVisible(tree, FALSE),
             !.displayed_items = [r \in DOMAIN @ \cup {ref} |->
                                    IF r = ref THEN item ELSE @[r]],
             !.focused_item = IF move_focus /\ @ # 0
                              THEN VisibleIndex(tree, target.before) ELSE @]

\* The loop of add_variables: one below the other.
InsertedAll(w, items, target) ==
  LET added[k \in 0..Len(items)] ==
        IF k = 0 THEN w
        ELSE LET last == added[k-1] IN
             IF last.panic # "no" THEN last
             ELSE Inserted(last, items[k], [target EXCEPT !.before = @ + k - 1], TRUE)
  IN added[Len(items)]

\* remove_displayed_item: the subtree, its items and their markers go; the
\* focus stays on its item, else on its row, else on the last row.
Removed(w, ref) ==
  LET t       == w.items_tree
      i       == PositionOf(t, ref)
      tree    == RemoveRecursive(t, i)
      gone    == {t[k].item_ref : k \in i..SubtreeEnd(t, i)-1}
      lost    == {w.displayed_items[r].of :
                    r \in {x \in gone : KindOf(w, x) = "marker"}}
      rows    == {RowOf(tree, r) : r \in FocusedItem(w)}
  IN IF i = 0 THEN w
     ELSE [w EXCEPT
             !.items_tree = tree,
             !.displayed_items = Restrict(@, DOMAIN @ \ gone),
             !.markers = @ \ lost,
             !.focused_item =
               IF FocusedItem(w) = {} THEN 0
               ELSE IF rows # {0} THEN CHOOSE v \in rows : TRUE
               ELSE Min({@, VisibleCount(tree)})]

\* The items at the positions in `rows', downwards in the tree as it was.
RemovedRows(w, rows) ==
  LET t == w.items_tree
      left[k \in 0..Len(t)] ==
        IF k = 0 THEN w
        ELSE LET last == left[k-1] IN
             IF k \in rows THEN Removed(last, t[k].item_ref) ELSE last
  IN left[Len(t)]

\* The items in `refs', from the last reference handed out to the first.
RemovedRefs(w, refs) ==
  LET left[k \in 0..MaxRef] ==
        IF k = 0 THEN w
        ELSE LET last == left[k-1]
                 ref  == MaxRef + 1 - k
             IN IF ref \in refs THEN Removed(last, ref) ELSE last
  IN left[MaxRef]

\* A move of several subtrees; an error leaves the tree as it was.
MovedItems(w, positions, target) ==
  LET r == MoveItems(w.items_tree, positions, target)
  IN IF r.status = "panic" THEN Panic(w, "slice")
     ELSE [w EXCEPT !.items_tree = r.tree]

\* Mutant: every kind of item becomes a placeholder.
UpdateAny(item, inner) ==
  [item EXCEPT !.kind = IF item.of \in inner THEN "variable" ELSE "placeholder"]

\* Mutant: a placeholder stays one.
UpdateOneWay(item, inner) ==
  IF item.kind = "variable" /\ item.of \notin inner
  THEN [item EXCEPT !.kind = "placeholder"] ELSE item

\* Variables and placeholders after a waveform with the variables `inner' is
\* loaded, and what of them is dropped.
Update(item, inner) ==
  IF item.kind \in {"variable", "placeholder"}
  THEN [item EXCEPT !.kind = IF item.of \in inner THEN "variable"
                             ELSE "placeholder"]
  ELSE item

Dropped(displayed, inner, keep_unavailable) ==
  {ref \in DOMAIN displayed :
     /\ ~keep_unavailable
     /\ displayed[ref].kind \in {"variable", "placeholder"}
     /\ displayed[ref].of \notin inner}

\* update_displayed_items.  The items come in the order of a hash map; each
\* dropped one is drained from the tree and must not take others with it.
UpdatedItems(w, displayed, inner, keep_unavailable, order) ==
  LET left[k \in 0..Len(order)] ==
        IF k = 0 THEN w
        ELSE LET last == left[k-1]
                 t    == last.items_tree
                 rows == {i \in DOMAIN t : Gone(t, {order[k]}, i)}
             IN IF last.panic # "no" THEN last
                ELSE IF \E i, j \in rows : i # j THEN Panic(w, "assert")
                ELSE [last EXCEPT !.items_tree = Drained(@, {order[k]})]
      updated == left[Len(order)]
  IN IF updated.panic # "no" THEN updated
     ELSE [updated EXCEPT
             !.displayed_items =
               [ref \in DOMAIN displayed
                          \ Dropped(displayed, inner, keep_unavailable) |->
                  Update(displayed[ref], inner)],
             !.inner = inner]

Orders(dropped) == SetToSeqs(dropped)

-----------------------------------------------------------------------------
(* Undo *)

\* Mutant: the redo stack stays.
SaveKeepingRedo ==
  /\ undo_stack' = LET pushed == Append(undo_stack, CanvasOf(waves))
                   IN IF Len(pushed) > UndoStackSize THEN Tail(pushed) ELSE pushed
  /\ UNCHANGED redo_stack

SaveCurrentCanvas ==
  /\ undo_stack' = LET pushed == Append(undo_stack, CanvasOf(waves))
                   IN IF Len(pushed) > UndoStackSize THEN Tail(pushed) ELSE pushed
  /\ redo_stack' = <<>>

\* Mutant: the map of items is not restored.
RestoredTreeOnly(w, canvas) ==
  [w EXCEPT !.focused_item = canvas.focused_item,
            !.items_tree = canvas.items_tree,
            !.markers = canvas.markers]

\* Mutant: the times of the markers are not restored.
RestoredWithoutMarkers(w, canvas) ==
  [w EXCEPT !.focused_item = canvas.focused_item,
            !.items_tree = canvas.items_tree,
            !.displayed_items = canvas.displayed_items]

\* Mutant: the counter is restored from what is displayed, as load_state does.
RestoredCounter(w, canvas) ==
  [w EXCEPT !.focused_item = canvas.focused_item,
            !.items_tree = canvas.items_tree,
            !.displayed_items = canvas.displayed_items,
            !.markers = canvas.markers,
            !.display_item_ref_counter = Max({0} \cup DOMAIN canvas.displayed_items)]

Restored(w, canvas) ==
  [w EXCEPT !.focused_item = canvas.focused_item,
            !.items_tree = canvas.items_tree,
            !.displayed_items = canvas.displayed_items,
            !.markers = canvas.markers]

\* One turn of the loop of Undo: <<waves, undo stack, redo stack>>.
Undone(s) ==
  IF s[2] = <<>> THEN s
  ELSE <<Restored(s[1], Last(s[2])), Front(s[2]), Append(s[3], CanvasOf(s[1]))>>

Redone(s) ==
  IF s[3] = <<>> THEN s
  ELSE <<Restored(s[1], Last(s[3])), Append(s[2], CanvasOf(s[1])), Front(s[3])>>

\* A message that saves the canvas and then changes the waves to w; a message
\* that does not save.
Recorded(w) == waves' = w /\ SaveCurrentCanvas /\ UNCHANGED drag
Unrecorded(w) == waves' = w /\ UNCHANGED <<undo_stack, redo_stack, drag>>

\* Bound: n more references can be handed out.
Room(n) == waves.display_item_ref_counter + n <= MaxRef

-----------------------------------------------------------------------------
(* Adding items *)

Divider == [kind |-> "divider", of |-> None]
Group   == [kind |-> "group", of |-> None]
Variable(x) == [kind |-> "variable", of |-> x]
Marker(m)   == [kind |-> "marker", of |-> m]
Decoder(lane) == [kind |-> "decoder", of |-> lane]

\* AddVariables and AddScope: variables of the loaded waveform, by the focus.
AddVariables(xs) ==
  /\ Room(Len(xs))
  /\ Recorded(InsertedAll(waves, [k \in 1..Len(xs) |-> Variable(xs[k])],
                          FocusPosition(waves)))

\* AddScopeAsGroup: for each scope, in the order of the recursion, a group and
\* the scope's variables inside it.
Scope(depth, xs) == [depth |-> depth, vars |-> xs]

AddScopeAsGroup(scopes) ==
  LET pos == FocusPosition(waves)
      added[k \in 0..Len(scopes)] ==   \* the waves, and where the next scope goes
        IF k = 0 THEN [waves |-> waves, before |-> pos.before]
        ELSE LET scope == scopes[k]
                 last  == added[k-1]
                 level == Below(pos.level, scope.depth)
                 group == Inserted(last.waves, Group,
                                   [before |-> last.before, level |-> level], TRUE)
             IN IF last.waves.panic # "no" THEN last
                ELSE [waves  |-> IF group.panic # "no" THEN group
                                 ELSE InsertedAll(group,
                                   [j \in 1..Len(scope.vars) |-> Variable(scope.vars[j])],
                                   [before |-> last.before + 1, level |-> Below(level, 1)]),
                      before |-> last.before + 1 + Len(scope.vars)]
      inserted == added[Len(scopes)].waves
      deepest  == Below(pos.level, 1 + Max({scopes[k].depth : k \in DOMAIN scopes}))
      w == IF deepest > MaxLevel THEN Panic(inserted, "insert") ELSE inserted
  IN /\ Room(Len(scopes))
     /\ w.display_item_ref_counter <= MaxRef   \* bound
     /\ Recorded(w)

\* AddDivider, AddTimeLine and the like, by row v or, without one, the focus.
AddDivider(v) ==
  /\ Room(1)
  /\ Recorded(Inserted(waves, Divider,
                       InsertPositionOr(waves, v, FocusPosition(waves)), TRUE))

\* AddMarker: the smallest free index; none is left at the limit.
AddMarker(move_focus) ==
  LET free  == MarkerIndex \ waves.markers
      added == Inserted(waves, Marker(Min(free)), FocusPosition(waves), move_focus)
  IN /\ Room(1)
     /\ Recorded(IF free = {} THEN waves
                 ELSE [added EXCEPT !.markers = @ \cup {Min(free)}])

\* Mutant: a new marker is displayed without a time.
SetMarkerUntimed(m) ==
  /\ Room(1)
  /\ Recorded(IF m \in waves.markers THEN waves
              ELSE Inserted(waves, Marker(m), FocusPosition(waves), TRUE))

\* SetMarker and MoveMarkerToCursor: a marker that exists only moves in time.
\* Without a cursor the latter only saves the canvas, as RemoveItems of nothing.
SetMarker(m) ==
  /\ Room(1)
  /\ Recorded([(IF m \in waves.markers THEN waves
                ELSE Inserted(waves, Marker(m), FocusPosition(waves), TRUE))
                EXCEPT !.markers = @ \cup {m}])

\* DecoderAdd for items, or for the selection, or for all: its rows go in from
\* the last to the first, each at the place of the focus if there is one, else
\* at the end; the focus follows the first row.
HasSignals(w, refs) ==
  \E i \in DOMAIN w.items_tree :
    /\ w.items_tree[i].item_ref \in refs
    /\ \/ KindOf(w, w.items_tree[i].item_ref) = "variable"
       \/ /\ w.items_tree[i].item_ref \in Groups(w)
          /\ \E k \in i..SubtreeEnd(w.items_tree, i)-1 :
               KindOf(w, w.items_tree[k].item_ref) = "variable"

DecoderAdd(lanes, refs) ==
  LET t        == waves.items_tree
      selected == {t[i].item_ref : i \in SelectedVisible(t)}
      items    == IF refs # {} THEN refs
                  ELSE IF selected # {} THEN selected ELSE RefsOf(t)
      place(w) == IF HasInsertPosition(waves, waves.focused_item)
                  THEN InsertPosition(waves, waves.focused_item)
                  ELSE FocusPosition(w)
      inserted[k \in 0..lanes] ==
        IF k = 0 THEN waves
        ELSE LET w == inserted[k-1] IN
             IF w.panic # "no" THEN w
             ELSE Inserted(w, Decoder(lanes + 1 - k), place(w), k = lanes)
  IN /\ Room(lanes)
     /\ Recorded(IF HasSignals(waves, items) \/ place(waves).level > MaxLevel
                 THEN inserted[lanes] ELSE waves)

-----------------------------------------------------------------------------
(* Removing items *)

\* RemoveVisibleItems(Explicit(v))
RemoveVisibleItem(v) ==
  Recorded(RemovedRows(waves, {ToDisplayed(waves.items_tree, v)}))

\* RemoveVisibleItems(CurrentSelection): the selected rows downwards, then the
\* one that had the focus.
RemoveSelection ==
  LET t    == waves.items_tree
      left == RemovedRows(waves, SelectedVisible(t))
      f    == ToDisplayed(t, waves.focused_item)
  IN Recorded(IF f = 0 THEN left ELSE Removed(left, t[f].item_ref))

\* RemoveItems: the references downwards.
RemoveItems(refs) == Recorded(RemovedRefs(waves, refs))

\* RemoveMarker does not save the canvas.
RemoveMarker(m) ==
  \E ref \in DOMAIN waves.displayed_items :
    /\ waves.displayed_items[ref] = Marker(m)
    /\ Unrecorded(Removed(waves, ref))

\* RemovePlaceholders neither saves the canvas nor looks at the focus.
RemovePlaceholders ==
  LET t    == waves.items_tree
      tree == Drained(t, {r \in RefsOf(t) : KindOf(waves, r) = "placeholder"})
  IN Unrecorded([waves EXCEPT
       !.items_tree = tree,
       !.displayed_items = Restrict(@, DOMAIN @ \ (RefsOf(t) \ RefsOf(tree)))])

-----------------------------------------------------------------------------
(* Focus and selection *)

\* FocusItem compares the row with the number of items, hidden ones included.
FocusItem(v) ==
  /\ v <= Cardinality(DOMAIN waves.displayed_items)
  /\ Unrecorded([waves EXCEPT !.focused_item = v])

UnfocusItem == Unrecorded([waves EXCEPT !.focused_item = 0])

MoveFocus(direction, count, select) ==
  LET n   == VisibleCount(waves.items_tree)
      row == IF direction = "Up"
             THEN Max({1, (IF waves.focused_item = 0 THEN n + 1
                           ELSE waves.focused_item) - count})
             ELSE Min({n, waves.focused_item + count})
      marked == {ToDisplayed(waves.items_tree, v) : v \in {waves.focused_item, row}}
  IN /\ n > 0
     /\ Unrecorded([waves EXCEPT
          !.focused_item = row,
          !.items_tree = IF select THEN XSelect(@, marked, TRUE) ELSE @])

ItemSelectRange(v) ==
  /\ waves.focused_item # 0
  /\ Unrecorded([waves EXCEPT !.items_tree =
                    XSelectVisibleRange(@, waves.focused_item, v, TRUE)])

\* ItemSelectAll and ItemSelectionClear
ItemSelectAll(selected) ==
  Unrecorded([waves EXCEPT !.items_tree = XSelectAllVisible(@, selected)])

\* SetItemSelected and ToggleItemSelected
SetItemSelected(v, selected) ==
  Unrecorded([waves EXCEPT !.items_tree =
                XSelect(@, {ToDisplayed(@, v)}, selected)])

-----------------------------------------------------------------------------
(* Moving items *)

\* MoveFocusedItem: `count' steps of move_item, each of which must succeed; a
\* row that is not there and a level past the limit end the program.
MovedFocused(w, direction) ==
  LET r == MoveItem(w.items_tree, w.focused_item, direction, Groups(w))
  IN IF w.panic # "no" THEN w
     ELSE IF r.status # "ok" THEN Panic(w, "move failed")
     ELSE [w EXCEPT !.items_tree = r.tree, !.focused_item = r.vidx]

MoveFocusedItem(direction, count) ==
  LET moved[k \in 0..count] ==
        IF k = 0 THEN waves ELSE MovedFocused(moved[k-1], direction)
  IN Recorded(IF waves.focused_item = 0 THEN waves ELSE moved[count])

\* VariableDragStarted and VariableDragTargetChanged: the row is picked up and
\* a place for it is remembered, as the tree is now.
Drag(source, v, level) ==
  LET t  == waves.items_tree
      at == ToDisplayed(t, v)
  IN /\ drag' = <<source, [before |-> IF at = 0 THEN Len(t) + 1 ELSE at,
                           level |-> level]>>
     /\ UNCHANGED <<waves, undo_stack, redo_stack>>

\* The item above the place is moved itself, and the place is deeper than it:
\* valid_levels_visible took that item for the predecessor after the drop.
SelfDrop(t, moved, target) ==
  \E i \in moved :
    target.before - 1 \in i..SubtreeEnd(t, i)-1 /\ target.level > t[i].level

\* VariableDragFinished: the selection, the focused item and the row that was
\* picked up move together; the focus stays on its item.
VariableDragFinished ==
  LET t     == waves.items_tree
      moved == (SelectedVisible(t) \cup {ToDisplayed(t, waves.focused_item),
                                         ToDisplayed(t, drag[1])}) \ {0}
      w     == MovedItems(waves, moved, drag[2])
      rows  == {RowOf(w.items_tree, r) : r \in FocusedItem(waves)}
  IN /\ drag # <<>>
     /\ "overlapping moves" \in Environment \/ ~Overlapping(t, moved)
     /\ "self drops" \in Environment \/ ~SelfDrop(t, moved, drag[2])
     /\ drag' = <<>>
     /\ waves' = [w EXCEPT !.focused_item = IF rows = {} THEN 0
                                            ELSE CHOOSE v \in rows : TRUE]
     /\ SaveCurrentCanvas

\* AddDraggedVariables: dropped from the hierarchy where the drag points,
\* without saving the canvas and without the focus.
AddDraggedVariables(xs) ==
  LET w == [waves EXCEPT !.focused_item = 0]
  IN /\ Room(Len(xs))
     /\ waves' = InsertedAll(w, [k \in 1..Len(xs) |-> Variable(xs[k])],
                             IF drag = <<>> THEN EndInsertPosition(w) ELSE drag[2])
     /\ drag' = <<>>
     /\ UNCHANGED <<undo_stack, redo_stack>>

-----------------------------------------------------------------------------
(* Groups *)

\* GroupNew before position `before', or by the focus when it is 0: the
\* selected items, and the focused one if it gave the place, move into the
\* new group.
GroupNew(before) ==
  LET t       == waves.items_tree
      byFocus == before = 0 /\ HasInsertPosition(waves, waves.focused_item)
      target  == IF before # 0 THEN [before |-> before, level |-> t[before].level]
                 ELSE FocusPosition(waves)
      refs    == {t[i].item_ref : i \in SelectedVisible(t)}
                   \cup (IF byFocus THEN FocusedItem(waves) ELSE {})
      picked  == {i \in DOMAIN t : t[i].item_ref \in refs}
      group   == Inserted(waves, Group, target, TRUE)
      inside  == {i \in DOMAIN group.items_tree :
                    group.items_tree[i].item_ref \in refs}
      w       == MovedItems(group, inside, [before |-> target.before + 1,
                                            level  |-> Min({target.level + 1, MaxLevel})])
      tree    == XSelectAllVisible(w.items_tree, FALSE)
  IN /\ Room(1)
     /\ "overlapping moves" \in Environment \/ ~Overlapping(t, picked)
     /\ Recorded(IF refs = {} THEN waves
                 ELSE IF group.panic # "no" THEN group
                 ELSE IF w.panic # "no" THEN w
                 ELSE [w EXCEPT
                         !.items_tree = tree,
                         !.focused_item =
                           RowOf(tree, waves.display_item_ref_counter + 1)])

\* The position a group message is about: that of its item, 0 for the focus.
GroupPosition(ref) ==
  IF ref # 0 THEN PositionOf(waves.items_tree, ref)
  ELSE ToDisplayed(waves.items_tree, waves.focused_item)

\* GroupDissolve does not look at the focus, nor at the item's kind.
GroupDissolve(ref) ==
  LET i == GroupPosition(ref) IN
  Recorded(IF i = 0 THEN waves
           ELSE [waves EXCEPT
                   !.items_tree = RemoveDissolve(@, i),
                   !.displayed_items =
                     Restrict(@, DOMAIN @ \ {waves.items_tree[i].item_ref})])

\* GroupFold, GroupUnfold and their recursive forms.
GroupFold(ref, unfolded, recursive) ==
  LET t == waves.items_tree
      i == GroupPosition(ref)
      f == ToDisplayed(t, waves.focused_item)
  IN Recorded(IF i = 0 THEN waves
              ELSE IF waves.focused_item # 0 /\ f = 0
                   THEN Panic(waves, "Inconsistent state")
              ELSE [waves EXCEPT
                      !.items_tree = IF recursive THEN XFoldRecursive(@, i, unfolded)
                                     ELSE XFold(@, i, unfolded),
                      !.focused_item = IF @ # 0 /\ SubtreeContains(t, i, f)
                                       THEN 0 ELSE @])

\* GroupFoldAll and GroupUnfoldAll
GroupFoldAll(unfolded) ==
  LET t == waves.items_tree
      f == ToDisplayed(t, waves.focused_item)
  IN Recorded(IF waves.focused_item # 0 /\ f = 0
              THEN Panic(waves, "Inconsistent state")
              ELSE [waves EXCEPT
                      !.items_tree = XFoldAll(@, unfolded),
                      !.focused_item = IF @ # 0 /\ ~unfolded /\ t[f].level > 0
                                       THEN 0 ELSE @])

-----------------------------------------------------------------------------
(* Undo, and loading waveforms and states *)

UndoTo(s) ==
  /\ waves' = s[1] /\ undo_stack' = s[2] /\ redo_stack' = s[3]
  /\ UNCHANGED drag

Stacks == <<waves, undo_stack, redo_stack>>

Undo(count) ==
  LET undone[k \in 0..count] == IF k = 0 THEN Stacks ELSE Undone(undone[k-1])
  IN UndoTo(undone[count])

Redo(count) ==
  LET redone[k \in 0..count] == IF k = 0 THEN Stacks ELSE Redone(redone[k-1])
  IN UndoTo(redone[count])

\* on_waves_loaded over the waves on screen: a reload, or another file that
\* keeps the items.
Reload(inner, keep_unavailable) ==
  \E order \in Orders(Dropped(waves.displayed_items, inner, keep_unavailable)) :
    Unrecorded(UpdatedItems(waves, waves.displayed_items, inner,
                            keep_unavailable, order))

\* on_waves_loaded with LoadOptions::Clear: fresh WaveData, the stacks stay.
LoadClear(inner) ==
  /\ "replacing" \in Environment
  /\ Unrecorded(FreshWaves(inner))

\* load_state: the canvas of a state file over the loaded waveform; the stacks
\* stay, the references count on from what the file displays.
LoadState(canvas) ==
  LET loaded == UpdatedItems([waves EXCEPT !.items_tree = canvas.items_tree],
                             canvas.displayed_items, waves.inner, TRUE, <<>>)
  IN /\ "replacing" \in Environment
     /\ waves' = [loaded EXCEPT
                    !.focused_item = canvas.focused_item,
                    !.markers = canvas.markers,
                    !.display_item_ref_counter =
                      Max({0} \cup DOMAIN canvas.displayed_items)]
     /\ drag' = <<>>
     /\ UNCHANGED <<undo_stack, redo_stack>>

\* Scopes that hold x: alone, in a child scope, beside a child scope.
Scopes(x) == {<<Scope(0, <<x>>)>>, <<Scope(0, <<>>), Scope(1, <<x>>)>>,
              <<Scope(0, <<x>>), Scope(1, <<>>)>>}

AddNext ==
  \/ \E x \in waves.inner :
       \/ AddVariables(<<x>>)
       \/ \E scopes \in Scopes(x) : AddScopeAsGroup(scopes)
  \/ \E x, y \in waves.inner : AddVariables(<<x, y>>)
  \/ \E v \in 0..Len(waves.items_tree) : AddDivider(v)
  \/ \E move_focus \in BOOLEAN : AddMarker(move_focus)
  \/ \E m \in MarkerIndex : SetMarker(m)
  \/ \E lanes \in Lane, refs \in {{}} \cup {{r} : r \in DOMAIN waves.displayed_items} :
       DecoderAdd(lanes, refs)

RemoveNext ==
  \/ \E v \in DOMAIN waves.items_tree : RemoveVisibleItem(v)
  \/ RemoveSelection
  \/ \E refs \in SUBSET DOMAIN waves.displayed_items : RemoveItems(refs)
  \/ \E m \in MarkerIndex : RemoveMarker(m)
  \/ RemovePlaceholders

FocusNext ==
  \/ \E v \in Ref : FocusItem(v)
  \/ UnfocusItem
  \/ \E direction \in {"Up", "Down"}, count \in 1..MaxCount, select \in BOOLEAN :
       MoveFocus(direction, count, select)

SelectNext ==
  \/ \E selected \in BOOLEAN :
       \/ ItemSelectAll(selected)
       \/ \E v \in DOMAIN waves.items_tree : SetItemSelected(v, selected)
  \/ \E v \in DOMAIN waves.items_tree : ItemSelectRange(v)

MoveNext ==
  \E direction \in {"Up", "Down"}, count \in 1..MaxCount :
    MoveFocusedItem(direction, count)

DragNext ==
  \/ LET rows == 1..VisibleCount(waves.items_tree) IN
     \E v \in rows \cup {Cardinality(rows) + 1} :
       \E level \in ValidLevelsVisible(waves.items_tree, v, Groups(waves)) :
         \E source \in rows : Drag(source, v, level)
  \/ VariableDragFinished
  \/ \E x \in waves.inner : AddDraggedVariables(<<x>>)

GroupNext ==
  \/ \E before \in {0} \cup VisiblePositions(waves.items_tree) : GroupNew(before)
  \/ \E ref \in {0} \cup Groups(waves) :
       \/ GroupDissolve(ref)
       \/ \E unfolded, recursive \in BOOLEAN : GroupFold(ref, unfolded, recursive)
  \/ \E unfolded \in BOOLEAN : GroupFoldAll(unfolded)

UndoNext == \E count \in 1..MaxCount : Undo(count) \/ Redo(count)

LoadStateNext == \E canvas \in StateFiles : LoadState(canvas)

LoadNext ==
  \/ \E inner \in SUBSET Vars :
       \/ LoadClear(inner)
       \/ \E keep_unavailable \in BOOLEAN : Reload(inner, keep_unavailable)
  \/ LoadStateNext

\* The program runs, and no drag is under way that has to end first.
Running == waves.panic = "no"
Undisturbed == drag = <<>> \/ "late drops" \in Environment

Next ==
  /\ Running
  /\ \/ DragNext
     \/ /\ Undisturbed
        /\ \/ AddNext \/ RemoveNext \/ FocusNext \/ SelectNext \/ MoveNext
           \/ GroupNext \/ UndoNext \/ LoadNext

Spec == Init /\ [][Next]_vars

-----------------------------------------------------------------------------
(* Properties *)

Canvases ==
  {CanvasOf(waves)} \cup ToSet(undo_stack) \cup ToSet(redo_stack)

\* Every canvas, the saved ones too, is a tree of displayed items with a row
\* for the focus and times for the markers, whatever was edited, loaded, undone.
TypeOK ==
  /\ \A c \in Canvases :
       /\ c.items_tree \in Seq(NodeOf(Ref))
       /\ c.focused_item \in 0..MaxRef
       /\ c.markers \subseteq MarkerIndex
       /\ DOMAIN c.displayed_items \subseteq Ref
       /\ \A ref \in DOMAIN c.displayed_items : c.displayed_items[ref] \in Item
  /\ waves.display_item_ref_counter \in 0..MaxRef
  /\ waves.inner \subseteq Vars
  /\ waves.panic \in {"no", "insert", "move failed", "slice", "assert", "Inconsistent state"}

\* The tree and the map of displayed items, which every handler updates
\* separately, hold the same items, each once in the tree: what is shown can
\* be looked up, and what is in the map can be reached and removed.  So it is
\* in a canvas that undo or redo brings back.
TreeShowsItems ==
  \A c \in Canvases :
    RefsOf(c.items_tree) = DOMAIN c.displayed_items /\ RefsUnique(c.items_tree)

\* "Key for the [WaveData::displayed_items] hash map" (displayed_item.rs:25): no
\* two rows share an entry of the map.  A waveform that replaces another one
\* starts counting anew and leaves the stacks, so that after undo they do.
KeyOfOneRow == RefsUnique(waves.items_tree)

\* The invariant the tree's type documents ("the nesting levels of the tree
\* must monotonically increase") survives every sequence of messages.
LevelsOK == LevelsMonotone(waves.items_tree)

\* No message makes a variable, a marker or a divider the parent of another
\* item: the handlers that remove variables and placeholders rely on it.
GroupsOnly == OnlyGroupsHaveChildren(waves.items_tree, Groups(waves))

\* next_displayed_item_ref hands out a reference that no canvas holds, also
\* none that undo or redo may bring back.
FreshRefs ==
  \A c \in Canvases : \A ref \in DOMAIN c.displayed_items :
    ref <= waves.display_item_ref_counter

\* Every displayed marker has a time in the map of markers, which the removal
\* of markers, groups and selections and undo keep up separately.
MarkersHaveTimes ==
  \A c \in Canvases : \A ref \in DOMAIN c.displayed_items :
    c.displayed_items[ref].kind = "marker" => c.displayed_items[ref].of \in c.markers

\* What is displayed, and what undo and redo can bring back, can be looked up:
\* an item of the tree in the map, a displayed marker among the times (lib.rs,
\* wave_data.rs and marker.rs unwrap or skip what they do not find).
ItemsKept == TreeShowsItems /\ MarkersHaveTimes

\* A displayed variable is shown as one exactly when the loaded waveform has
\* it, and as a placeholder otherwise, over edits and reloads.
PlaceholdersForMissing ==
  \A ref \in DOMAIN waves.displayed_items :
    LET item == waves.displayed_items[ref] IN
    /\ item.kind = "variable" => item.of \in waves.inner
    /\ item.kind = "placeholder" => item.of \notin waves.inner

\* Where a handler unwraps, it fails for one reason only, a focus on a row that
\* is not there: insert_item accepts every place computed from the focus, a row
\* or a drag, move_items never takes a subtree the list of nodes has lost,
\* removing a variable takes no other item along, and MoveFocusedItem and the
\* messages that fold groups fail only when there is no focused row to find.
\* (Groups at the largest level aside, where the addition of levels fails.)
FailsOnlyWithoutRow ==
  [][waves'.panic # "no" =>
       /\ waves'.panic \in {"move failed", "Inconsistent state"}
       /\ waves.focused_item # 0
       /\ ToDisplayed(waves.items_tree, waves.focused_item) = 0]_vars

\* The handlers that fold groups expect the focused row to exist.
NoInconsistentState == waves.panic # "Inconsistent state"

\* Undo and redo together never hold more than the configured number of steps.
UndoBound == Len(undo_stack) + Len(redo_stack) <= UndoStackSize

\* Redo after undo, and undo after redo, restore the waves and both stacks.
UndoRedoInverse ==
  /\ undo_stack # <<>> => Redone(Undone(Stacks)) = Stacks
  /\ redo_stack # <<>> => Undone(Redone(Stacks)) = Stacks

\* Undo after any edit gives back what was there and redo takes it away again,
\* and the stacks hold what save_current_canvas lets them (state.rs, lib.rs).
UndoStacksSound == UndoBound /\ UndoRedoInverse

\* No message leaves an item selected that a folded group hides: the messages
\* that act on the selection act on what the user sees.
HiddenNotSelected ==
  \A i \in DOMAIN waves.items_tree :
    waves.items_tree[i].selected => i \in VisiblePositions(waves.items_tree)

\* What a message adds is in sight: no insertion point is inside a folded group.
NewItemsVisible ==
  [][\/ \A ref \in DOMAIN waves'.displayed_items \ DOMAIN waves.displayed_items :
          RowOf(waves'.items_tree, ref) # 0
     \/ LoadStateNext]_vars

\* "Undo the last action" (docs/commands/README.md): an edit can be undone, so
\* when the displayed items change, the canvas before is the next to restore.
EditsCanBeUndone ==
  [][\/ UndoNext
     \/ waves'.displayed_items = waves.displayed_items
     \/ undo_stack' # <<>> /\ Last(undo_stack') = CanvasOf(waves)]_vars

\* "Each insert goes *before* the same target, so walking the lanes backwards
\* leaves them in order on screen" (add_decoder): the rows one message adds for
\* a decoder are in the order of its lanes.
DecoderRowsInOrder ==
  [][\A r, s \in DOMAIN waves'.displayed_items \ DOMAIN waves.displayed_items :
       /\ waves'.displayed_items[r] = Decoder(1)
       /\ waves'.displayed_items[s] = Decoder(2)
       => PositionOf(waves'.items_tree, r) < PositionOf(waves'.items_tree, s)]_vars

=============================================================================
